------------------------- MODULE OfferLetterProofs -------------------------
(***************************************************************************)
(* Proofs about what is written in an offer letter, for every salary and   *)
(* for templates of any length.  They are inductions over the data; the    *)
(* two principles they need are stated first, for sets and functions, from *)
(* the least number that a set of naturals has.                            *)
(***************************************************************************)
EXTENDS OfferLetter, WellFoundedInduction, SequenceTheorems, TLAPS

-----------------------------------------------------------------------------
(* Induction and recursion.                                                *)

LEMMA LeastNumber ==
  ASSUME NEW T \in SUBSET Nat, T # {}
  PROVE  \E x \in T : \A y \in T : x <= y
<1>1. PICK x \in T : \A y \in T : <<y, x>> \notin OpToRel(<, Nat)
  BY NatLessThanWellFounded, WFMin, Zenon
<1>2. \A y \in T : ~ (y < x)
  BY <1>1 DEF OpToRel
<1> QED
  BY <1>2

(* What passes from the smaller members of D to each larger one, by some   *)
(* measure m of them, is true of all.                                      *)
LEMMA MeasureInduction ==
  ASSUME NEW D, NEW m \in [D -> Nat], NEW T,
         \A x \in D : (\A y \in D : m[y] < m[x] => y \in T) => x \in T
  PROVE  \A x \in D : x \in T
<1> SUFFICES ASSUME NEW w \in D \ T
             PROVE  FALSE
  OBVIOUS
<1> DEFINE L == {m[x] : x \in D \ T}
<1>1. L \in SUBSET Nat /\ L # {} /\ (\A x \in D \ T : m[x] \in L)
  OBVIOUS
<1>2. \A k \in L : \E x \in D \ T : m[x] = k
  OBVIOUS
<1> HIDE DEF L
<1>3. PICK k \in L : \A j \in L : k <= j
  BY <1>1, LeastNumber
<1>4. PICK x \in D \ T : m[x] = k
  BY <1>2
<1>5. \A y \in D : m[y] < m[x] => y \in T
  <2> SUFFICES ASSUME NEW y \in D, m[y] < m[x], y \notin T
               PROVE  FALSE
    OBVIOUS
  <2>1. m[y] \in L /\ m[y] \in Nat /\ k \in Nat
    BY <1>1
  <2> QED
    BY <2>1, <1>3, <1>4
<1> QED
  BY <1>4, <1>5

(* A function that stops where it is told to, and elsewhere goes on from   *)
(* its value at a smaller member, exists.                                  *)
Descends(D, V, m, Stop, base, down, step) ==
  /\ m \in [D -> Nat] /\ Stop \in SUBSET D
  /\ base \in [D -> V] /\ down \in [D -> D] /\ step \in [D -> [V -> V]]
  /\ \A x \in D \ Stop : m[down[x]] < m[x]

Recurs(f, D, Stop, base, down, step) ==
  \A x \in D : f[x] = IF x \in Stop THEN base[x] ELSE step[x][f[down[x]]]

LEMMA RecursionExists ==
  ASSUME NEW D, NEW V, NEW m, NEW Stop, NEW base, NEW down, NEW step,
         Descends(D, V, m, Stop, base, down, step)
  PROVE  \E f \in [D -> V] : Recurs(f, D, Stop, base, down, step)
<1> USE DEF Descends
<1> DEFINE Up(x) == {y \in D : m[y] <= m[x]}
           Good(x, g) ==
             /\ g \in [Up(x) -> V]
             /\ \A y \in Up(x) : g[y] = IF y \in Stop THEN base[y] ELSE step[y][g[down[y]]]
<1> DEFINE Value(x) == CHOOSE g : Good(x, g)
<1>1. ASSUME NEW x \in D, NEW w \in D, NEW g, NEW h, Good(x, g), Good(w, h)
      PROVE  \A y \in Up(x) \cap Up(w) : g[y] = h[y]
  <2> DEFINE E == {y \in D : y \in Up(x) \cap Up(w) => g[y] = h[y]}
  <2>1. ASSUME NEW y \in D, \A z \in D : m[z] < m[y] => z \in E
        PROVE  y \in E
    <3> SUFFICES ASSUME y \in Up(x) \cap Up(w), y \notin Stop
                 PROVE  g[y] = h[y]
      BY <1>1
    <3>1. down[y] \in D /\ m[down[y]] < m[y] /\ m[y] \in Nat /\ m[down[y]] \in Nat
          /\ m[x] \in Nat /\ m[w] \in Nat
      OBVIOUS
    <3>2. down[y] \in Up(x) \cap Up(w) /\ down[y] \in E
      BY <2>1, <3>1
    <3>3. g[down[y]] = h[down[y]]
      BY <3>2
    <3> QED
      BY <1>1, <3>3
  <2>2. \A y \in D : y \in E
    <3> HIDE DEF E
    <3>1. \A y \in D : (\A z \in D : m[z] < m[y] => z \in E) => y \in E
      BY <2>1, Zenon
    <3> HIDE DEF Up, Good
    <3> QED
      BY ONLY <3>1, m \in [D -> Nat], MeasureInduction
  <2> QED
    BY <2>2
<1>2. ASSUME NEW x \in D, Good(x, Value(x)), x \notin Stop, Good(down[x], Value(down[x]))
      PROVE  Value(x)[x] = step[x][Value(down[x])[down[x]]]
  <2>1. down[x] \in D /\ m[down[x]] < m[x] /\ m[x] \in Nat /\ m[down[x]] \in Nat
    BY <1>2
  <2>2. down[x] \in Up(x) \cap Up(down[x]) /\ x \in Up(x)
    BY <2>1
  <2>3. Value(x)[down[x]] = Value(down[x])[down[x]]
    <3> HIDE DEF Good, Up, Value
    <3> QED BY <1>1, <1>2, <2>1, <2>2
  <2>4. Value(x)[x] = step[x][Value(x)[down[x]]]
    <3> HIDE DEF Value
    <3> QED BY <1>2, <2>2
  <2> QED
    BY <2>3, <2>4, Zenon
<1>3. ASSUME NEW x \in D, Good(x, Value(x))
      PROVE  /\ Value(x)[x] \in V
             /\ x \in Stop => Value(x)[x] = base[x]
  <2> HIDE DEF Value
  <2> QED
    BY <1>3
<1>4. ASSUME NEW x \in D, \A y \in D : m[y] < m[x] => Good(y, Value(y))
      PROVE  Good(x, Value(x))
  <2> DEFINE h == [y \in Up(x) |-> IF y \in Stop THEN base[y]
                                   ELSE step[y][Value(down[y])[down[y]]]]
  <2>1. ASSUME NEW y \in Up(x), y \notin Stop
        PROVE  /\ down[y] \in Up(x) /\ down[y] \in D
               /\ Good(down[y], Value(down[y]))
               /\ Value(down[y])[down[y]] = h[down[y]]
    <3> HIDE DEF Good, Value
    <3>1. /\ down[y] \in D /\ y \in D /\ m[down[y]] < m[y] /\ m[y] <= m[x]
          /\ m[y] \in Nat /\ m[down[y]] \in Nat /\ m[x] \in Nat
      BY <2>1
    <3>2. down[y] \in Up(x) /\ m[down[y]] < m[x]
      BY <3>1
    <3>3. Good(down[y], Value(down[y]))
      BY <3>1, <3>2, <1>4
    <3>4. CASE down[y] \in Stop
      BY <3>1, <3>2, <3>3, <3>4, <1>3
    <3>5. CASE down[y] \notin Stop
      <4>1. down[down[y]] \in D /\ m[down[down[y]]] < m[x]
        <5>1. down[down[y]] \in D /\ m[down[down[y]]] \in Nat /\ m[down[down[y]]] < m[down[y]]
          BY <3>1, <3>5
        <5> QED
          BY <5>1, <3>1
      <4>2. Good(down[down[y]], Value(down[down[y]]))
        BY <4>1, <1>4
      <4> QED
        BY <3>1, <3>2, <3>3, <3>5, <4>2, <1>2
    <3> QED
      BY <3>1, <3>2, <3>3, <3>4, <3>5
  <2>2. Good(x, h)
    <3>1. ASSUME NEW y \in Up(x)
          PROVE  /\ h[y] \in V
                 /\ h[y] = IF y \in Stop THEN base[y] ELSE step[y][h[down[y]]]
      <4>1. CASE y \in Stop
        BY <4>1
      <4>2. CASE y \notin Stop
        <5>1. down[y] \in D /\ Good(down[y], Value(down[y])) /\ y \in D
          BY <2>1, <4>2, Zenon
        <5>2. Value(down[y])[down[y]] \in V
          <6> HIDE DEF Good, Value, h
          <6> QED BY <1>3, <5>1
        <5>3. Value(down[y])[down[y]] = h[down[y]]
          BY <2>1, <4>2
        <5>4. h[y] = step[y][Value(down[y])[down[y]]]
          <6> HIDE DEF Good, Value
          <6> QED BY <4>2
        <5> HIDE DEF h, Value, Good
        <5> QED BY <4>2, <5>1, <5>2, <5>3, <5>4, SMTT(40)
      <4> QED
        BY <4>1, <4>2, Zenon
    <3>2. h \in [Up(x) -> V]
      <4> HIDE DEF Value, Good
      <4>1. \A y \in Up(x) : h[y] \in V
        BY <3>1
      <4> QED BY <4>1
    <3> HIDE DEF h
    <3> QED
      BY <3>1, <3>2, Zenon
  <2> HIDE DEF Good, h
  <2> QED
    BY <2>2 DEF Value
<1>5. \A x \in D : Good(x, Value(x))
  <2> DEFINE T == {x \in D : Good(x, Value(x))}
  <2> HIDE DEF Good, Value
  <2>1. \A x \in D : (\A y \in D : m[y] < m[x] => y \in T) => x \in T
    BY <1>4
  <2>2. \A x \in D : x \in T
    <3> HIDE DEF T
    <3> QED BY ONLY <2>1, m \in [D -> Nat], MeasureInduction
  <2> QED
    BY <2>2
<1> DEFINE f == [x \in D |-> Value(x)[x]]
<1>6. f \in [D -> V]
  <2> HIDE DEF Good, Value
  <2> QED BY <1>3, <1>5
<1>7. \A x \in D : f[x] = IF x \in Stop THEN base[x] ELSE step[x][f[down[x]]]
  <2> HIDE DEF Good, Value
  <2> QED BY <1>2, <1>3, <1>5
<1> HIDE DEF f
<1> QED
  BY <1>6, <1>7 DEF Recurs

(* The three forms that the inductions below take.                         *)
LEMMA FromSmaller ==
  ASSUME NEW T, \A n \in Nat : (\A k \in Nat : k < n => k \in T) => n \in T
  PROVE  \A n \in Nat : n \in T
<1> DEFINE m == [n \in Nat |-> n]
<1>1. m \in [Nat -> Nat]
  OBVIOUS
<1>2. \A n \in Nat : (\A k \in Nat : m[k] < m[n] => k \in T) => n \in T
  OBVIOUS
<1> HIDE DEF m
<1> QED
  BY <1>1, <1>2, MeasureInduction

LEMMA FromOneBefore ==
  ASSUME NEW T, 0 \in T, \A n \in Nat : n \in T => n + 1 \in T
  PROVE  \A n \in Nat : n \in T
<1>1. ASSUME NEW n \in Nat, \A k \in Nat : k < n => k \in T
      PROVE  n \in T
  <2>1. CASE n = 0
    BY <2>1
  <2>2. CASE n # 0
    <3>1. n - 1 \in Nat /\ n - 1 < n /\ (n - 1) + 1 = n
      BY <2>2
    <3> QED
      BY <1>1, <3>1
  <2> QED
    BY <2>1, <2>2
<1> QED
  BY <1>1, FromSmaller

-----------------------------------------------------------------------------
(* Texts, as what they are put together from.                              *)

Nil       == <<>>
One(x)    == <<x>>
Cat(s, t) == s \o t

LEMMA Typed ==
  /\ \A S : Nil \in Seq(S)
  /\ \A S : \A x \in S : One(x) \in Seq(S)
  /\ \A S : \A s, t \in Seq(S) : Cat(s, t) \in Seq(S)
  BY DEF Nil, One, Cat

LEMMA Together ==
  \A S : \A s, t, u \in Seq(S) : Cat(Cat(s, t), u) = Cat(s, Cat(t, u))
  BY DEF Cat

LEMMA NothingMore ==
  \A S : \A s \in Seq(S) : Cat(s, Nil) = s /\ Cat(Nil, s) = s
  BY DEF Cat, Nil

LEMMA OneMore ==
  \A S : \A s \in Seq(S), x \in S :
    /\ Cat(s, One(x)) # Nil /\ Len(Cat(s, One(x))) = Len(s) + 1
    /\ Front(Cat(s, One(x))) = s /\ Last(Cat(s, One(x))) = x
<1> TAKE S
<1> TAKE s \in Seq(S), x \in S
<1>1. Len(s \o <<x>>) = Len(s) + 1 /\ s \o <<x>> # <<>>
  OBVIOUS
<1>2. SubSeq(s \o <<x>>, 1, Len(s)) = s
  OBVIOUS
<1>3. (s \o <<x>>)[Len(s) + 1] = x
  OBVIOUS
<1>4. Len(s) \in Nat /\ (Len(s) + 1) - 1 = Len(s)
  OBVIOUS
<1> QED
  BY <1>1, <1>2, <1>3, <1>4, Zenon DEF Cat, One, Nil, Front, Last

LEMMA LastApart ==
  \A S : \A s \in Seq(S) :
    s # Nil => /\ Front(s) \in Seq(S) /\ Last(s) \in S
               /\ Len(Front(s)) = Len(s) - 1
               /\ s = Cat(Front(s), One(Last(s)))
<1> TAKE S
<1> TAKE s \in Seq(S)
<1> SUFFICES ASSUME s # <<>>
             PROVE  /\ Front(s) \in Seq(S) /\ Last(s) \in S
                    /\ Len(Front(s)) = Len(s) - 1
                    /\ s = Front(s) \o <<Last(s)>>
  BY DEF Nil, Cat, One
<1>1. Len(s) \in Nat /\ Len(s) >= 1
  OBVIOUS
<1>2. Front(s) \in Seq(S) /\ Last(s) \in S /\ Len(Front(s)) = Len(s) - 1
      /\ \A i \in 1..(Len(s) - 1) : Front(s)[i] = s[i]
  <2> DEFINE n == Len(s) - 1
  <2>1. n \in Nat /\ n <= Len(s) /\ n + 1 = Len(s)
    BY <1>1
  <2>2. \A i \in 1..n : i \in 1..Len(s) /\ s[i] \in S
    BY <2>1
  <2> HIDE DEF n
  <2>3. Front(s) = SubSeq(s, 1, n)
    BY DEF Front, n
  <2>4. Len(SubSeq(s, 1, n)) = n /\ \A i \in 1..n : SubSeq(s, 1, n)[i] = s[i]
    BY <2>1
  <2>5. SubSeq(s, 1, n) \in Seq(S)
    BY <2>1, <2>2
  <2>6. Last(s) \in S
    BY <1>1 DEF Last
  <2> QED
    BY <2>3, <2>4, <2>5, <2>6 DEF n
<1> DEFINE t == Front(s) \o <<Last(s)>>
<1>3. /\ t \in Seq(S) /\ Len(t) = Len(s)
      /\ \A i \in 1..(Len(s) - 1) : t[i] = Front(s)[i]
      /\ t[Len(s)] = Last(s)
  BY <1>1, <1>2
<1>4. Last(s) = s[Len(s)]
  BY DEF Last
<1> HIDE DEF t
<1>5. \A i \in 1..Len(s) : t[i] = s[i]
  BY <1>1, <1>2, <1>3, <1>4
<1>6. s = t
  BY <1>3, <1>5
<1> QED
  BY <1>2, <1>6 DEF t

(* What holds of the empty text, and of each that is one symbol longer     *)
(* than one that it holds of, holds of all.                                *)
LEMMA FromFront ==
  ASSUME NEW S, NEW T, Nil \in T,
         \A s \in Seq(S), x \in S : s \in T => Cat(s, One(x)) \in T
  PROVE  \A s \in Seq(S) : s \in T
<1> DEFINE D == Seq(S)
           m == [s \in D |-> Len(s)]
<1>1. m \in [D -> Nat]
  OBVIOUS
<1>2. ASSUME NEW s \in D, \A t \in D : m[t] < m[s] => t \in T
      PROVE  s \in T
  <2>1. CASE s = Nil
    BY <2>1
  <2>2. CASE s # Nil
    <3>1. /\ Front(s) \in Seq(S) /\ Last(s) \in S /\ s = Cat(Front(s), One(Last(s)))
          /\ Len(Front(s)) = Len(s) - 1 /\ Len(s) \in Nat
      BY <2>2, LastApart
    <3>2. m[Front(s)] < m[s]
      BY <3>1
    <3> HIDE DEF m
    <3>3. Front(s) \in T
      BY <1>2, <3>1, <3>2
    <3> QED
      BY <3>1, <3>3
  <2> QED
    BY <2>1, <2>2
<1> HIDE DEF m, D
<1>3. \A s \in D : s \in T
  BY <1>1, <1>2, MeasureInduction
<1> QED
  BY <1>3 DEF D

-----------------------------------------------------------------------------
(* Where a symbol stands in a text.                                        *)

Without(s, x) == \A i \in 1..Len(s) : s[i] # x

LEMMA Parts ==
  ASSUME NEW S, NEW s \in Seq(S), NEW t \in Seq(S)
  PROVE  /\ Len(s) \in Nat /\ Len(t) \in Nat /\ Len(Cat(s, t)) = Len(s) + Len(t)
         /\ \A i \in 1..Len(s) : Cat(s, t)[i] = s[i]
         /\ \A i \in 1..Len(t) : Cat(s, t)[Len(s) + i] = t[i]
  BY DEF Cat

LEMMA OnePart ==
  \A x : Len(One(x)) = 1 /\ One(x)[1] = x /\ Len(Nil) = 0
  BY DEF One, Nil

LEMMA LastPart ==
  ASSUME NEW S, NEW s \in Seq(S), NEW x \in S
  PROVE  /\ Len(s) \in Nat /\ Len(Cat(s, One(x))) = Len(s) + 1
         /\ \A i \in 1..Len(s) : Cat(s, One(x))[i] = s[i]
         /\ Cat(s, One(x))[Len(s) + 1] = x
<1>1. One(x) \in Seq(S) /\ Len(One(x)) = 1 /\ One(x)[1] = x /\ 1 \in 1..Len(One(x))
  BY Typed, OnePart
<1>2. /\ Len(s) \in Nat /\ Len(Cat(s, One(x))) = Len(s) + Len(One(x))
      /\ \A i \in 1..Len(s) : Cat(s, One(x))[i] = s[i]
      /\ \A i \in 1..Len(One(x)) : Cat(s, One(x))[Len(s) + i] = One(x)[i]
  <2> DEFINE o == One(x)
  <2>1. o \in Seq(S)
    BY <1>1
  <2> HIDE DEF o
  <2>2. /\ Len(s) \in Nat /\ Len(Cat(s, o)) = Len(s) + Len(o)
        /\ \A i \in 1..Len(s) : Cat(s, o)[i] = s[i]
        /\ \A i \in 1..Len(o) : Cat(s, o)[Len(s) + i] = o[i]
    BY <2>1, Parts
  <2> QED
    BY <2>2, Zenon DEF o
<1>3. Cat(s, One(x))[Len(s) + 1] = One(x)[1]
  BY <1>1, <1>2
<1> QED
  BY <1>1, <1>2, <1>3

LEMMA Two ==
  \A S : \A x, y \in S : <<x, y>> = Cat(One(x), One(y))
<1> TAKE S
<1> TAKE x, y \in S
<1> DEFINE s == <<x, y>>
           t == <<x>> \o <<y>>
<1>1. s \in Seq(S) /\ Len(s) = 2 /\ s[1] = x /\ s[2] = y
  OBVIOUS
<1>2. t \in Seq(S) /\ Len(t) = 2 /\ t[1] = x /\ t[2] = y
  OBVIOUS
<1> HIDE DEF s, t
<1>3. s = t
  BY <1>1, <1>2
<1> QED
  BY <1>3, Zenon DEF Cat, One, s, t

LEMMA WithoutNone ==
  \A x : Without(Nil, x)
  BY OnePart DEF Without

LEMMA WithoutOne ==
  \A x, y : Without(One(y), x) <=> y # x
<1> TAKE x, y
<1>1. Len(One(y)) = 1 /\ One(y)[1] = y
  BY OnePart
<1> QED
  BY <1>1 DEF Without

LEMMA WithoutBoth ==
  ASSUME NEW S, NEW s \in Seq(S), NEW t \in Seq(S), NEW x
  PROVE  Without(Cat(s, t), x) <=> Without(s, x) /\ Without(t, x)
<1>1. /\ Len(s) \in Nat /\ Len(t) \in Nat /\ Len(Cat(s, t)) = Len(s) + Len(t)
      /\ \A i \in 1..Len(s) : Cat(s, t)[i] = s[i]
      /\ \A i \in 1..Len(t) : Cat(s, t)[Len(s) + i] = t[i]
  BY Parts
<1>2. ASSUME Without(s, x), Without(t, x), NEW i \in 1..Len(Cat(s, t))
      PROVE  Cat(s, t)[i] # x
  <2>1. CASE i \in 1..Len(s)
    BY <1>1, <1>2, <2>1 DEF Without
  <2>2. CASE i \notin 1..Len(s)
    <3>1. i - Len(s) \in 1..Len(t) /\ Len(s) + (i - Len(s)) = i
      BY <1>1, <2>2
    <3>2. Cat(s, t)[i] = t[i - Len(s)]
      BY <1>1, <3>1
    <3> QED
      BY <1>2, <3>1, <3>2 DEF Without
  <2> QED
    BY <2>1, <2>2
<1>3. ASSUME Without(Cat(s, t), x)
      PROVE  Without(s, x) /\ Without(t, x)
  <2>1. ASSUME NEW i \in 1..Len(s)
        PROVE  s[i] # x
    <3>1. i \in 1..Len(Cat(s, t)) /\ Cat(s, t)[i] = s[i]
      BY <1>1
    <3> QED
      BY <1>3, <3>1 DEF Without
  <2>2. ASSUME NEW i \in 1..Len(t)
        PROVE  t[i] # x
    <3>1. Len(s) + i \in 1..Len(Cat(s, t)) /\ Cat(s, t)[Len(s) + i] = t[i]
      BY <1>1
    <3> QED
      BY <1>3, <3>1 DEF Without
  <2> QED
    BY <2>1, <2>2 DEF Without
<1> QED
  BY <1>2, <1>3 DEF Without

LEMMA Elsewhere ==
  \A S : \A s \in Seq(S) : \A x : x \notin S => Without(s, x)
  BY DEF Without

(* The least and the greatest index that CHOOSE may pick are unique.       *)
LEMMA FindNone ==
  ASSUME NEW S, NEW s \in Seq(S), NEW x, Without(s, x)
  PROVE  Find(s, x) = 0
<1>1. {i \in 1..Len(s) : s[i] = x} = {}
  BY DEF Without
<1> QED
  BY <1>1, Zenon DEF Find, SelectInSeq

LEMMA FindAt ==
  ASSUME NEW S, NEW s \in Seq(S), NEW t \in Seq(S), NEW x \in S, Without(s, x),
         NEW w, w = Cat(s, Cat(One(x), t))
  PROVE  /\ Find(w, x) = Len(s) + 1 /\ Find(w, x) # 0
         /\ Before(w, Find(w, x)) = s /\ After(w, Find(w, x)) = t
<1>1. w = s \o (<<x>> \o t)
  BY DEF Cat, One
<1>2. /\ Len(s) \in Nat /\ Len(t) \in Nat /\ Len(w) = Len(s) + 1 + Len(t)
      /\ \A i \in 1..Len(s) : w[i] = s[i]
      /\ w[Len(s) + 1] = x
  BY <1>1
<1>3. SubSeq(w, 1, Len(s)) = s
  BY <1>1
<1>4. SubSeq(w, (Len(s) + 1) + 1, Len(w)) = t
  BY <1>1, <1>2
<1> DEFINE I == {i \in 1..Len(w) : w[i] = x}
           k == Len(s) + 1
<1>5. k \in I /\ k \in Nat /\ \A i \in I : i \in Nat /\ k <= i
  BY <1>2 DEF Without
<1>6. Find(w, x) = IF I # {} THEN Min(I) ELSE 0
  BY Zenon DEF Find, SelectInSeq
<1> HIDE DEF I, k
<1>7. Min(I) = k
  <2>1. \A i \in I : (\A j \in I : i <= j) => i = k
    BY <1>5
  <2>2. \E i \in I : \A j \in I : i <= j
    BY <1>5
  <2> QED
    BY <2>1, <2>2 DEF Min
<1>8. Find(w, x) = k
  BY <1>5, <1>6, <1>7
<1>9. k # 0 /\ k - 1 = Len(s)
  BY <1>2 DEF k
<1> QED
  BY <1>3, <1>4, <1>8, <1>9 DEF Before, After, k

(* A text with the symbol in it stands around its first occurrence.        *)
LEMMA Around ==
  ASSUME NEW S, NEW x \in S, NEW s \in Seq(S), ~ Without(s, x)
  PROVE  \E a, b \in Seq(S) : Without(a, x) /\ s = Cat(a, Cat(One(x), b)) /\ Len(b) < Len(s)
<1> DEFINE Split(t) == \E a, b \in Seq(S) : Without(a, x) /\ t = Cat(a, Cat(One(x), b))
           T == {t \in Seq(S) : Without(t, x) \/ Split(t)}
<1>1. Nil \in T
  BY WithoutNone, Typed
<1>2. ASSUME NEW t \in Seq(S), NEW y \in S, t \in T
      PROVE  Cat(t, One(y)) \in T
  <2>1. Cat(t, One(y)) \in Seq(S) /\ One(y) \in Seq(S) /\ One(x) \in Seq(S)
    BY Typed
  <2>2. CASE Without(t, x) /\ y # x
    BY <2>1, <2>2, WithoutBoth, WithoutOne
  <2>3. CASE Without(t, x) /\ y = x
    <3>1. Nil \in Seq(S) /\ Cat(One(x), Nil) = One(x)
      BY <2>1, Typed, NothingMore
    <3>2. Cat(t, One(y)) = Cat(t, Cat(One(x), Nil))
      BY <2>3, <3>1
    <3>3. Split(Cat(t, One(y)))
      BY <2>3, <3>1, <3>2
    <3> QED
      BY <2>1, <3>3
  <2>4. CASE ~ Without(t, x)
    <3>1. PICK a, b \in Seq(S) : Without(a, x) /\ t = Cat(a, Cat(One(x), b))
      BY <1>2, <2>4
    <3>2. Cat(b, One(y)) \in Seq(S) /\ Cat(One(x), b) \in Seq(S)
      BY <2>1, Typed
    <3>3. Cat(Cat(a, Cat(One(x), b)), One(y)) = Cat(a, Cat(Cat(One(x), b), One(y)))
      BY <2>1, <3>2, Together
    <3>4. Cat(Cat(One(x), b), One(y)) = Cat(One(x), Cat(b, One(y)))
      BY <2>1, Together
    <3>5. Cat(t, One(y)) = Cat(a, Cat(One(x), Cat(b, One(y))))
      BY <3>1, <3>3, <3>4
    <3>6. Split(Cat(t, One(y)))
      BY <3>1, <3>2, <3>5
    <3> QED
      BY <2>1, <3>6
  <2> QED
    BY <2>2, <2>3, <2>4
<1> HIDE DEF T
<1>3. s \in T
  BY <1>1, <1>2, FromFront
<1>4. PICK a, b \in Seq(S) : Without(a, x) /\ s = Cat(a, Cat(One(x), b))
  BY <1>3 DEF T
<1>5. Len(b) < Len(s)
  <2>1. One(x) \in Seq(S) /\ Cat(One(x), b) \in Seq(S)
    BY Typed
  <2>2. Len(s) = Len(a) + Len(Cat(One(x), b)) /\ Len(a) \in Nat
    BY <1>4, <2>1, Parts
  <2>3. Len(Cat(One(x), b)) = Len(One(x)) + Len(b) /\ Len(b) \in Nat
    BY <2>1, Parts
  <2>4. Len(One(x)) = 1
    BY OnePart
  <2> QED
    BY ONLY <2>2, <2>3, <2>4
<1> QED
  BY <1>4, <1>5

-----------------------------------------------------------------------------
(* Blanks around a text.                                                   *)

Space == " "

Only(s, z) == \A i \in 1..Len(s) : s[i] = z
Blank(s)   == Only(s, Space)

LEMMA OnlyNone ==
  \A z : Only(Nil, z) /\ Only(One(z), z)
<1> TAKE z
<1>1. Len(Nil) = 0 /\ Len(One(z)) = 1 /\ One(z)[1] = z
  BY OnePart
<1>2. Only(Nil, z)
  BY <1>1 DEF Only
<1>3. Only(One(z), z)
  BY <1>1 DEF Only
<1> QED
  BY <1>2, <1>3

LEMMA BlankNone ==
  Blank(Nil) /\ Blank(One(Space))
  BY OnlyNone DEF Blank

LEMMA OnlyBoth ==
  ASSUME NEW S, NEW s \in Seq(S), NEW t \in Seq(S), NEW z
  PROVE  Only(Cat(s, t), z) <=> Only(s, z) /\ Only(t, z)
<1>1. /\ Len(s) \in Nat /\ Len(t) \in Nat /\ Len(Cat(s, t)) = Len(s) + Len(t)
      /\ \A i \in 1..Len(s) : Cat(s, t)[i] = s[i]
      /\ \A i \in 1..Len(t) : Cat(s, t)[Len(s) + i] = t[i]
  BY Parts
<1>2. ASSUME Only(s, z), Only(t, z), NEW i \in 1..Len(Cat(s, t))
      PROVE  Cat(s, t)[i] = z
  <2>1. CASE i \in 1..Len(s)
    BY <1>1, <1>2, <2>1 DEF Only
  <2>2. CASE i \notin 1..Len(s)
    <3>1. i - Len(s) \in 1..Len(t) /\ Len(s) + (i - Len(s)) = i
      BY <1>1, <2>2
    <3>2. Cat(s, t)[i] = t[i - Len(s)]
      BY <1>1, <3>1
    <3> QED
      BY <1>2, <3>1, <3>2 DEF Only
  <2> QED
    BY <2>1, <2>2
<1>3. ASSUME Only(Cat(s, t), z)
      PROVE  Only(s, z) /\ Only(t, z)
  <2>1. ASSUME NEW i \in 1..Len(s)
        PROVE  s[i] = z
    <3>1. i \in 1..Len(Cat(s, t)) /\ Cat(s, t)[i] = s[i]
      BY <1>1
    <3> QED
      BY <1>3, <3>1 DEF Only
  <2>2. ASSUME NEW i \in 1..Len(t)
        PROVE  t[i] = z
    <3>1. Len(s) + i \in 1..Len(Cat(s, t)) /\ Cat(s, t)[Len(s) + i] = t[i]
      BY <1>1
    <3> QED
      BY <1>3, <3>1 DEF Only
  <2> QED
    BY <2>1, <2>2 DEF Only
<1> QED
  BY <1>2, <1>3 DEF Only

LEMMA BlankBoth ==
  ASSUME NEW S, NEW s \in Seq(S), NEW t \in Seq(S)
  PROVE  Blank(Cat(s, t)) <=> Blank(s) /\ Blank(t)
  BY OnlyBoth DEF Blank

LEMMA BlankWithout ==
  \A s, x : Blank(s) /\ x # Space => Without(s, x)
  BY DEF Blank, Only, Without

(* Around the first symbol that is not blank, and around the last.         *)
LEMMA AroundFirst ==
  ASSUME NEW S, NEW s \in Seq(S), ~ Blank(s)
  PROVE  \E a, b \in Seq(S), x \in S :
           Blank(a) /\ x # Space /\ s = Cat(a, Cat(One(x), b))
<1> DEFINE Split(t) == \E a, b \in Seq(S), x \in S :
                         Blank(a) /\ x # Space /\ t = Cat(a, Cat(One(x), b))
           T == {t \in Seq(S) : Blank(t) \/ Split(t)}
<1>1. Nil \in T
  BY BlankNone, Typed
<1>2. ASSUME NEW t \in Seq(S), NEW y \in S, t \in T
      PROVE  Cat(t, One(y)) \in T
  <2>1. Cat(t, One(y)) \in Seq(S) /\ One(y) \in Seq(S)
    BY Typed
  <2>2. CASE Blank(t) /\ y = Space
    BY <2>1, <2>2, BlankBoth, BlankNone
  <2>3. CASE Blank(t) /\ y # Space
    <3>1. Nil \in Seq(S) /\ Cat(One(y), Nil) = One(y)
      BY <2>1, Typed, NothingMore
    <3>2. Cat(t, One(y)) = Cat(t, Cat(One(y), Nil))
      BY <3>1
    <3>3. Split(Cat(t, One(y)))
      BY <2>3, <3>1, <3>2
    <3> QED
      BY <2>1, <3>3
  <2>4. CASE ~ Blank(t)
    <3>1. PICK a, b \in Seq(S), x \in S :
            Blank(a) /\ x # Space /\ t = Cat(a, Cat(One(x), b))
      BY <1>2, <2>4
    <3>2. Cat(b, One(y)) \in Seq(S) /\ Cat(One(x), b) \in Seq(S) /\ One(x) \in Seq(S)
      BY <2>1, Typed
    <3>3. Cat(Cat(a, Cat(One(x), b)), One(y)) = Cat(a, Cat(Cat(One(x), b), One(y)))
      BY <2>1, <3>2, Together
    <3>4. Cat(Cat(One(x), b), One(y)) = Cat(One(x), Cat(b, One(y)))
      BY <2>1, <3>2, Together
    <3>5. Cat(t, One(y)) = Cat(a, Cat(One(x), Cat(b, One(y))))
      BY <3>1, <3>3, <3>4
    <3>6. Split(Cat(t, One(y)))
      BY <3>1, <3>2, <3>5
    <3> QED
      BY <2>1, <3>6
  <2> QED
    BY <2>2, <2>3, <2>4
<1> HIDE DEF T
<1>3. s \in T
  BY <1>1, <1>2, FromFront
<1> QED
  BY <1>3 DEF T

LEMMA AroundLast ==
  ASSUME NEW S, NEW s \in Seq(S), ~ Blank(s)
  PROVE  \E a, b \in Seq(S), x \in S :
           Blank(b) /\ x # Space /\ s = Cat(a, Cat(One(x), b))
<1> DEFINE Split(t) == \E a, b \in Seq(S), x \in S :
                         Blank(b) /\ x # Space /\ t = Cat(a, Cat(One(x), b))
           T == {t \in Seq(S) : Blank(t) \/ Split(t)}
<1>1. Nil \in T
  BY BlankNone, Typed
<1>2. ASSUME NEW t \in Seq(S), NEW y \in S, t \in T
      PROVE  Cat(t, One(y)) \in T
  <2>1. Cat(t, One(y)) \in Seq(S) /\ One(y) \in Seq(S)
    BY Typed
  <2>2. CASE y # Space
    <3>1. Nil \in Seq(S) /\ Cat(One(y), Nil) = One(y) /\ Blank(Nil)
      BY <2>1, Typed, NothingMore, BlankNone
    <3>2. Cat(t, One(y)) = Cat(t, Cat(One(y), Nil))
      BY <3>1
    <3>3. Split(Cat(t, One(y)))
      BY <2>2, <3>1, <3>2
    <3> QED
      BY <2>1, <3>3
  <2>3. CASE y = Space /\ Blank(t)
    BY <2>1, <2>3, BlankBoth, BlankNone
  <2>4. CASE y = Space /\ ~ Blank(t)
    <3>1. PICK a, b \in Seq(S), x \in S :
            Blank(b) /\ x # Space /\ t = Cat(a, Cat(One(x), b))
      BY <1>2, <2>4
    <3>2. Cat(b, One(y)) \in Seq(S) /\ Cat(One(x), b) \in Seq(S) /\ One(x) \in Seq(S)
      BY <2>1, Typed
    <3>3. Cat(Cat(a, Cat(One(x), b)), One(y)) = Cat(a, Cat(Cat(One(x), b), One(y)))
      BY <2>1, <3>2, Together
    <3>4. Cat(Cat(One(x), b), One(y)) = Cat(One(x), Cat(b, One(y)))
      BY <2>1, <3>2, Together
    <3>5. Cat(t, One(y)) = Cat(a, Cat(One(x), Cat(b, One(y))))
      BY <3>1, <3>3, <3>4
    <3>6. Blank(One(y))
      BY <2>4, BlankNone
    <3>7. Blank(Cat(b, One(y)))
      BY <2>1, <3>1, <3>6, BlankBoth
    <3>8. Split(Cat(t, One(y)))
      BY <3>1, <3>2, <3>5, <3>7
    <3> QED
      BY <2>1, <3>8
  <2> QED
    BY <2>2, <2>3, <2>4
<1> HIDE DEF T
<1>3. s \in T
  BY <1>1, <1>2, FromFront
<1> QED
  BY <1>3 DEF T

-----------------------------------------------------------------------------
(* FlattenSeq, one piece at a time.                                        *)

Joined(F, k) == FlattenSeq([i \in 1..k |-> F[i]])

LEMMA JoinedNone ==
  \A F : Joined(F, 0) = Nil
<1> TAKE F
<1>1. [i \in 1..0 |-> F[i]] = <<>>
  OBVIOUS
<1> QED
  BY <1>1 DEF Joined, Nil, FlattenSeq

LEMMA JoinedSame ==
  ASSUME NEW F, NEW G, NEW k \in Nat, \A i \in 1..k : F[i] = G[i]
  PROVE  Joined(F, k) = Joined(G, k)
<1>1. [i \in 1..k |-> F[i]] = [i \in 1..k |-> G[i]]
  OBVIOUS
<1> QED
  BY <1>1, Zenon DEF Joined

FlattenRule(F, k, g) ==
  g = [i \in 1..k |-> IF i = 1 THEN F[i] ELSE Cat(g[i - 1], F[i])]

LEMMA FlattenExists ==
  ASSUME NEW S, NEW k \in Nat, NEW F, \A i \in 1..k : F[i] \in Seq(S)
  PROVE  \E g : g \in [1..k -> Seq(S)] /\ FlattenRule(F, k, g)
<1> DEFINE D == 1..k
           V == Seq(S)
           m == [i \in D |-> i]
           base == [i \in D |-> F[i]]
           down == [i \in D |-> IF i = 1 THEN 1 ELSE i - 1]
           step == [i \in D |-> [v \in V |-> Cat(v, F[i])]]
           Stop == {i \in D : i = 1}
<1>1. PICK g \in [D -> V] : Recurs(g, D, Stop, base, down, step)
  <2>1. m \in [D -> Nat] /\ Stop \in SUBSET D /\ down \in [D -> D]
    OBVIOUS
  <2>2. base \in [D -> V]
    OBVIOUS
  <2>3. step \in [D -> [V -> V]]
    BY Typed
  <2>4. \A i \in D \ Stop : m[down[i]] < m[i]
    OBVIOUS
  <2> HIDE DEF D, V, m, Stop, base, down, step
  <2>5. Descends(D, V, m, Stop, base, down, step)
    BY <2>1, <2>2, <2>3, <2>4 DEF Descends
  <2> QED
    BY <2>5, RecursionExists
<1>2. ASSUME NEW i \in D
      PROVE  g[i] = IF i = 1 THEN F[i] ELSE Cat(g[i - 1], F[i])
  <2> HIDE DEF V
  <2>1. CASE i = 1
    BY <1>1, <2>1 DEF Recurs
  <2>2. CASE i # 1
    <3>1. i - 1 \in D /\ down[i] = i - 1 /\ i \notin Stop
      BY <2>2
    <3>2. g[i - 1] \in V
      BY <3>1
    <3>3. step[i][g[i - 1]] = Cat(g[i - 1], F[i])
      BY <3>2
    <3> HIDE DEF step, down, Stop, D
    <3>4. g[i] = step[i][g[i - 1]]
      BY <1>1, <3>1 DEF Recurs
    <3> QED
      BY <2>2, <3>3, <3>4
  <2> QED
    BY <2>1, <2>2
<1>3. g = [i \in 1..k |-> IF i = 1 THEN F[i] ELSE Cat(g[i - 1], F[i])]
  <2> HIDE DEF V
  <2> QED BY <1>2
<1> QED
  BY <1>1, <1>3 DEF FlattenRule

LEMMA JoinedRule ==
  ASSUME NEW S, NEW k \in Nat, k # 0, NEW F, \A i \in 1..k : F[i] \in Seq(S)
  PROVE  \E g : FlattenRule(F, k, g) /\ Joined(F, k) = g[k]
<1> DEFINE ss == [i \in 1..k |-> F[i]]
           Rule(g) == g = [i \in 1..Len(ss) |-> IF i = 1 THEN ss[i] ELSE g[i - 1] \o ss[i]]
<1>1. Len(ss) = k /\ Len(ss) # 0 /\ \A i \in 1..k : ss[i] = F[i]
  OBVIOUS
<1>2. Joined(F, k) = FlattenSeq(ss)
  BY DEF Joined
<1> HIDE DEF ss
<1>3. \A g : Rule(g) <=> FlattenRule(F, k, g)
  <2> TAKE g
  <2>1. [i \in 1..Len(ss) |-> IF i = 1 THEN ss[i] ELSE Cat(g[i - 1], ss[i])]
          = [i \in 1..k |-> IF i = 1 THEN F[i] ELSE Cat(g[i - 1], F[i])]
    BY <1>1
  <2> QED
    BY <2>1, Zenon DEF FlattenRule, Cat
<1>4. FlattenSeq(ss) = (CHOOSE g : Rule(g))[Len(ss)]
  BY <1>1, Zenon DEF FlattenSeq
<1>5. \E g : FlattenRule(F, k, g)
  BY FlattenExists
<1> HIDE DEF Rule
<1>6. FlattenRule(F, k, CHOOSE g : Rule(g))
  BY <1>3, <1>5, Zenon
<1> QED
  BY <1>1, <1>2, <1>4, <1>6

LEMMA JoinedTyped ==
  ASSUME NEW S, NEW k \in Nat, NEW F, \A i \in 1..k : F[i] \in Seq(S)
  PROVE  Joined(F, k) \in Seq(S)
<1>1. CASE k = 0
  BY <1>1, JoinedNone, Typed
<1>2. CASE k # 0
  <2>1. PICK g : FlattenRule(F, k, g) /\ Joined(F, k) = g[k]
    BY <1>2, JoinedRule
  <2> DEFINE T == {i \in Nat : i + 1 <= k => g[i + 1] \in Seq(S)}
  <2>2. ASSUME NEW i \in 1..k
        PROVE  g[i] = IF i = 1 THEN F[i] ELSE Cat(g[i - 1], F[i])
    BY <2>1 DEF FlattenRule
  <2>3. 0 \in T
    BY <1>2, <2>2
  <2>4. ASSUME NEW i \in Nat, i \in T
        PROVE  i + 1 \in T
    <3> SUFFICES ASSUME i + 2 <= k
                 PROVE  g[i + 2] \in Seq(S)
      OBVIOUS
    <3>1. g[i + 1] \in Seq(S) /\ F[i + 2] \in Seq(S)
      BY <2>4
    <3>2. g[i + 2] = Cat(g[i + 1], F[i + 2])
      BY <2>2
    <3> QED
      BY <3>1, <3>2, Typed
  <2> HIDE DEF T
  <2>5. \A i \in Nat : i \in T
    BY <2>3, <2>4, FromOneBefore
  <2>6. k - 1 \in T /\ (k - 1) + 1 = k
    BY <1>2, <2>5
  <2> QED
    BY <2>1, <2>6 DEF T
<1> QED
  BY <1>1, <1>2

LEMMA JoinedOneMore ==
  ASSUME NEW S, NEW k \in Nat, NEW F, \A i \in 1..(k + 1) : F[i] \in Seq(S)
  PROVE  Joined(F, k + 1) = Cat(Joined(F, k), F[k + 1])
<1>1. PICK g : FlattenRule(F, k + 1, g) /\ Joined(F, k + 1) = g[k + 1]
  <2>1. k + 1 \in Nat /\ k + 1 # 0
    OBVIOUS
  <2> QED
    BY <2>1, JoinedRule
<1>2. ASSUME NEW i \in 1..(k + 1)
      PROVE  g[i] = IF i = 1 THEN F[i] ELSE Cat(g[i - 1], F[i])
  BY <1>1 DEF FlattenRule
<1>3. CASE k = 0
  <2>1. Joined(F, k) = Nil /\ F[k + 1] \in Seq(S)
    BY <1>3, JoinedNone
  <2>2. g[k + 1] = F[k + 1]
    BY <1>2, <1>3
  <2> QED
    BY <1>1, <2>1, <2>2, NothingMore
<1>4. CASE k # 0
  <2>1. PICK h : FlattenRule(F, k, h) /\ Joined(F, k) = h[k]
    BY <1>4, JoinedRule
  <2>2. ASSUME NEW i \in 1..k
        PROVE  h[i] = IF i = 1 THEN F[i] ELSE Cat(h[i - 1], F[i])
    BY <2>1 DEF FlattenRule
  <2> DEFINE T == {i \in Nat : i + 1 <= k => g[i + 1] = h[i + 1]}
  <2>3. 0 \in T
    BY <1>2, <1>4, <2>2
  <2>4. ASSUME NEW i \in Nat, i \in T
        PROVE  i + 1 \in T
    <3> SUFFICES ASSUME i + 2 <= k
                 PROVE  g[i + 2] = h[i + 2]
      OBVIOUS
    <3>1. g[i + 1] = h[i + 1]
      BY <2>4
    <3>2. g[i + 2] = Cat(g[i + 1], F[i + 2])
      BY <1>2
    <3>3. h[i + 2] = Cat(h[i + 1], F[i + 2])
      BY <2>2
    <3> QED
      BY <3>1, <3>2, <3>3
  <2> HIDE DEF T
  <2>5. \A i \in Nat : i \in T
    BY <2>3, <2>4, FromOneBefore
  <2>6. k - 1 \in T /\ (k - 1) + 1 = k
    BY <1>4, <2>5
  <2>7. g[k] = h[k]
    BY <2>6 DEF T
  <2>8. g[k + 1] = Cat(g[k], F[k + 1])
    BY <1>2, <1>4
  <2> QED
    BY <1>1, <2>1, <2>7, <2>8
<1> QED
  BY <1>3, <1>4

-----------------------------------------------------------------------------
(* Digits.                                                                 *)

Chars == {"0", "1", "2", "3", "4", "5", "6", "7", "8", "9"}

Dotted == Chars \cup {"."}

LEMMA DigitNames ==
  \A k \in 0..9 : /\ Digit(k) \in Chars
                  /\ IsDigit(Digit(k))
                  /\ ValueOf(Digit(k)) = k
<1>1. \A i, j \in 1..10 : DigitName[i] \in Chars /\ (DigitName[i] = DigitName[j] => i = j)
  BY DEF DigitName, Chars
<1>2. DOMAIN DigitName = 1..10
  BY DEF DigitName
<1> SUFFICES ASSUME NEW k \in 0..9
             PROVE  /\ Digit(k) \in Chars
                    /\ IsDigit(Digit(k))
                    /\ ValueOf(Digit(k)) = k
  OBVIOUS
<1>3. k + 1 \in 1..10
  OBVIOUS
<1> QED
  BY <1>1, <1>2, <1>3 DEF Digit, IsDigit, ValueOf

LEMMA CharsAreCharacters ==
  /\ Chars \subseteq Character /\ "." \in Character /\ "," \in Character
  /\ "." \notin Chars /\ "," \notin Chars
<1>1. \A x \in Chars : \E i \in 1..10 : DigitName[i] = x
  <2>1. 1 \in 1..10 /\ 2 \in 1..10 /\ 3 \in 1..10 /\ 4 \in 1..10 /\ 5 \in 1..10
        /\ 6 \in 1..10 /\ 7 \in 1..10 /\ 8 \in 1..10 /\ 9 \in 1..10 /\ 10 \in 1..10
    OBVIOUS
  <2> QED
    BY <2>1 DEF Chars, DigitName
<1>2. DOMAIN DigitName = 1..10
  BY DEF DigitName
<1> QED
  BY <1>1, <1>2 DEF Character, Chars

LEMMA DotIsNoDigit ==
  ~ IsDigit(".") /\ ~ IsDigit(",")
<1>1. \A i \in 1..10 : DigitName[i] \in Chars
  BY DEF DigitName, Chars
<1>2. DOMAIN DigitName = 1..10
  BY DEF DigitName
<1> QED
  BY <1>1, <1>2, CharsAreCharacters DEF IsDigit

LEMMA Division ==
  ASSUME NEW n \in Nat
  PROVE  /\ n % 10 \in 0..9 /\ n \div 10 \in Nat /\ n = 10 * (n \div 10) + (n % 10)
         /\ n >= 10 => n \div 10 < n
         /\ n % 1000 \in 0..999 /\ n \div 1000 \in Nat
         /\ n = 1000 * (n \div 1000) + (n % 1000)
         /\ n >= 1000 => n \div 1000 < n /\ n \div 1000 # 0
  OBVIOUS

LEMMA OneDigit ==
  \A n \in Nat : /\ Digit(n % 10) \in Chars
                 /\ n < 10 => Digit(n) \in Chars
  BY Division, DigitNames

(* The digits of a number are those of its tenth, and one more.            *)
LEMMA DigitsUnfold ==
  /\ Digits \in [Nat -> Seq(Chars)]
  /\ \A n \in Nat : n < 10 => Digits[n] = One(Digit(n))
  /\ \A n, q, r \in Nat :
       ~ (n < 10) /\ q = n \div 10 /\ r = n % 10 => Digits[n] = Cat(Digits[q], One(Digit(r)))
<1> DEFINE m == [n \in Nat |-> n]
           base == [n \in Nat |-> IF n < 10 THEN One(Digit(n)) ELSE Nil]
           down == [n \in Nat |-> n \div 10]
           step == [n \in Nat |-> [v \in Seq(Chars) |-> Cat(v, One(Digit(n % 10)))]]
           Stop == 0..9
<1>1. PICK f \in [Nat -> Seq(Chars)] : Recurs(f, Nat, Stop, base, down, step)
  <2>1. m \in [Nat -> Nat] /\ Stop \in SUBSET Nat /\ down \in [Nat -> Nat]
    BY Division
  <2>2. base \in [Nat -> Seq(Chars)]
    BY OneDigit, Typed
  <2>3. step \in [Nat -> [Seq(Chars) -> Seq(Chars)]]
    BY OneDigit, Typed
  <2>4. \A n \in Nat \ Stop : m[down[n]] < m[n]
    BY Division
  <2> HIDE DEF m, Stop, base, down, step
  <2>5. Descends(Nat, Seq(Chars), m, Stop, base, down, step)
    BY <2>1, <2>2, <2>3, <2>4 DEF Descends
  <2> QED
    BY <2>5, RecursionExists
<1>2. ASSUME NEW n \in Nat
      PROVE  f[n] = IF n < 10 THEN One(Digit(n)) ELSE Cat(f[n \div 10], One(Digit(n % 10)))
  <2>1. n \div 10 \in Nat /\ f[n \div 10] \in Seq(Chars)
    BY Division
  <2>2. n \in Stop <=> n < 10
    OBVIOUS
  <2> QED
    BY <1>1, <2>1, <2>2 DEF Recurs
<1>3. f = [n \in Nat |-> IF n < 10 THEN <<Digit(n)>> ELSE f[n \div 10] \o <<Digit(n % 10)>>]
  BY <1>2, Zenon DEF One, Cat
<1>4. Digits = [n \in Nat |-> IF n < 10 THEN <<Digit(n)>> ELSE Digits[n \div 10] \o <<Digit(n % 10)>>]
  BY <1>3 DEF Digits
<1>5. Digits = [n \in Nat |-> IF n < 10 THEN One(Digit(n)) ELSE Cat(Digits[n \div 10], One(Digit(n % 10)))]
  BY <1>4 DEF One, Cat
<1>6. ASSUME NEW n \in Nat
      PROVE  Digits[n] = IF n < 10 THEN One(Digit(n)) ELSE Cat(Digits[n \div 10], One(Digit(n % 10)))
  BY <1>5, Zenon
<1>7. \A n \in Nat : Digits[n] \in Seq(Chars)
  <2> DEFINE T == {k \in Nat : Digits[k] \in Seq(Chars)}
  <2>1. ASSUME NEW n \in Nat, \A k \in Nat : k < n => k \in T
        PROVE  n \in T
    <3>1. CASE n < 10
      BY <1>6, <3>1, OneDigit, Typed
    <3>2. CASE ~ (n < 10)
      <4>1. n \div 10 \in Nat /\ n \div 10 < n
        BY <3>2, Division
      <4>2. Digits[n \div 10] \in Seq(Chars) /\ Digit(n % 10) \in Chars
        BY <2>1, <4>1, OneDigit
      <4> QED
        BY <1>6, <3>2, <4>2, Typed
    <3> QED
      BY <3>1, <3>2
  <2> HIDE DEF T
  <2>2. \A n \in Nat : n \in T
    BY <2>1, FromSmaller
  <2> QED
    BY <2>2 DEF T
<1>8. Digits \in [Nat -> Seq(Chars)]
  BY <1>5, <1>7
<1> QED
  BY <1>6, <1>8

(* The digits of a number of thousands and more.                           *)
Hundreds(n) ==
  Cat(Cat(One(Digit((n \div 100) % 10)), One(Digit((n \div 10) % 10))), One(Digit(n % 10)))

LEMMA HundredsTyped ==
  \A n \in Nat : Hundreds(n) \in Seq(Chars)
<1> TAKE n \in Nat
<1>1. n \div 10 \in Nat /\ n \div 100 \in Nat
  OBVIOUS
<1>2. Digit((n \div 100) % 10) \in Chars /\ Digit((n \div 10) % 10) \in Chars
      /\ Digit(n % 10) \in Chars
  BY <1>1, OneDigit
<1> QED
  BY <1>2, Typed DEF Hundreds

LEMMA LastThree ==
  \A n \in Nat : ~ (n < 1000) => Digits[n] = Cat(Digits[n \div 1000], Hundreds(n))
<1> TAKE n \in Nat
<1> HAVE ~ (n < 1000)
<1> DEFINE t == n \div 10
           h == n \div 100
           k == n \div 1000
           a == h % 10
           b == t % 10
           c == n % 10
<1>1. /\ t \in Nat /\ ~ (t < 10) /\ h = t \div 10
      /\ h \in Nat /\ ~ (h < 10) /\ k = h \div 10
      /\ k \in Nat /\ ~ (n < 10) /\ t = n \div 10
      /\ a \in Nat /\ b \in Nat /\ c \in Nat /\ a = h % 10 /\ b = t % 10 /\ c = n % 10
  OBVIOUS
<1>2. Digit(a) \in Chars /\ Digit(b) \in Chars /\ Digit(c) \in Chars
  BY <1>1, OneDigit
<1>3. Hundreds(n) = Cat(Cat(One(Digit(a)), One(Digit(b))), One(Digit(c)))
  BY Zenon DEF Hundreds
<1> HIDE DEF t, h, k, a, b, c
<1>4. Digits[n] = Cat(Digits[t], One(Digit(c)))
  BY <1>1, DigitsUnfold
<1>5. Digits[t] = Cat(Digits[h], One(Digit(b)))
  BY <1>1, DigitsUnfold
<1>6. Digits[h] = Cat(Digits[k], One(Digit(a)))
  BY <1>1, DigitsUnfold
<1>7. Digits[k] \in Seq(Chars)
  BY <1>1, DigitsUnfold
<1>8. One(Digit(a)) \in Seq(Chars) /\ One(Digit(b)) \in Seq(Chars) /\ One(Digit(c)) \in Seq(Chars)
  BY <1>2, Typed
<1>9. Digits[n] = Cat(Digits[k], Cat(Cat(One(Digit(a)), One(Digit(b))), One(Digit(c))))
  <2> DEFINE d == Digits[k]
             x == One(Digit(a))
             y == One(Digit(b))
             z == One(Digit(c))
  <2>1. d \in Seq(Chars) /\ x \in Seq(Chars) /\ y \in Seq(Chars) /\ z \in Seq(Chars)
    BY <1>7, <1>8
  <2>2. Digits[n] = Cat(Cat(Cat(d, x), y), z)
    BY <1>4, <1>5, <1>6
  <2> HIDE DEF d, x, y, z
  <2>3. Cat(Cat(d, x), y) = Cat(d, Cat(x, y)) /\ Cat(x, y) \in Seq(Chars)
    BY <2>1, Together, Typed
  <2>4. Cat(Cat(d, Cat(x, y)), z) = Cat(d, Cat(Cat(x, y), z))
    BY <2>1, <2>3, Together
  <2> QED
    BY <2>2, <2>3, <2>4 DEF d, x, y, z
<1> QED
  BY <1>3, <1>9 DEF k

LastDigits(n) == Tail(Digits[1000 + (n % 1000)])

LEMMA ThousandAndRest ==
  \A n \in Nat : LastDigits(n) = Hundreds(n)
<1> TAKE n \in Nat
<1> DEFINE k == 1000 + (n % 1000)
<1>1. k \in Nat /\ ~ (k < 1000) /\ k \div 1000 = 1
  OBVIOUS
<1>2. (k \div 100) % 10 = (n \div 100) % 10 /\ (k \div 10) % 10 = (n \div 10) % 10
      /\ k % 10 = n % 10
  OBVIOUS
<1> HIDE DEF k
<1>3. Digits[k] = Cat(Digits[k \div 1000], Hundreds(k))
  BY <1>1, LastThree
<1>4. Hundreds(k) = Hundreds(n)
  BY <1>2 DEF Hundreds
<1>5. Digits[1] = One(Digit(1)) /\ Digit(1) \in Chars
  <2>1. 1 \in Nat /\ 1 < 10 /\ 1 \in 0..9
    OBVIOUS
  <2> QED
    BY <2>1, DigitsUnfold, DigitNames
<1>6. \A x \in Chars, h \in Seq(Chars) : Tail(Cat(One(x), h)) = h
  BY DEF Cat, One
<1>7. Digits[k] = Cat(One(Digit(1)), Hundreds(n))
  BY <1>1, <1>3, <1>4, <1>5
<1> QED
  BY <1>5, <1>6, <1>7, HundredsTyped DEF k, LastDigits

(* The amount by hand is that of its thousands, and three digits more.     *)
LEMMA ByHandUnfold ==
  /\ ByHand \in [Nat -> Seq(Dotted)]
  /\ \A n \in Nat : n < 1000 => ByHand[n] = Digits[n]
  /\ \A n \in Nat :
       ~ (n < 1000) => ByHand[n] = Cat(Cat(ByHand[n \div 1000], One(".")), Hundreds(n))
<1> DEFINE V == Seq(Dotted)
           m == [n \in Nat |-> n]
           base == [n \in Nat |-> Digits[n]]
           down == [n \in Nat |-> n \div 1000]
           step == [n \in Nat |-> [v \in V |-> Cat(Cat(v, One(".")), Hundreds(n))]]
           Stop == 0..999
<1>1. ASSUME NEW n \in Nat
      PROVE  Digits[n] \in V /\ Hundreds(n) \in V
  <2>1. Digits[n] \in Seq(Chars) /\ Hundreds(n) \in Seq(Chars)
    BY DigitsUnfold, HundredsTyped
  <2> QED
    BY <2>1, SeqMonotonic DEF Dotted
<1>2. ASSUME NEW n \in Nat, NEW v \in V
      PROVE  Cat(Cat(v, One(".")), Hundreds(n)) \in V
  BY <1>1, Typed DEF Dotted
<1>3. PICK f \in [Nat -> V] : Recurs(f, Nat, Stop, base, down, step)
  <2>1. m \in [Nat -> Nat] /\ Stop \in SUBSET Nat /\ down \in [Nat -> Nat]
    BY Division
  <2>2. base \in [Nat -> V]
    BY <1>1
  <2>3. step \in [Nat -> [V -> V]]
    <3> HIDE DEF V
    <3> QED BY <1>2
  <2>4. \A n \in Nat \ Stop : m[down[n]] < m[n]
    BY Division
  <2> HIDE DEF V, m, Stop, base, down, step
  <2>5. Descends(Nat, V, m, Stop, base, down, step)
    BY <2>1, <2>2, <2>3, <2>4 DEF Descends
  <2> QED
    BY <2>5, RecursionExists
<1>4. ASSUME NEW n \in Nat
      PROVE  f[n] = IF n < 1000 THEN Digits[n]
                    ELSE Cat(Cat(f[n \div 1000], One(".")), Hundreds(n))
  <2> HIDE DEF V
  <2>1. n \div 1000 \in Nat /\ f[n \div 1000] \in V
    BY Division
  <2>2. n \in Stop <=> n < 1000
    OBVIOUS
  <2>3. base[n] = Digits[n] /\ down[n] = n \div 1000
    OBVIOUS
  <2>4. step[n][f[n \div 1000]] = Cat(Cat(f[n \div 1000], One(".")), Hundreds(n))
    BY <2>1
  <2> HIDE DEF base, step, down, Stop
  <2>5. f[n] = IF n \in Stop THEN base[n] ELSE step[n][f[down[n]]]
    BY <1>3 DEF Recurs
  <2> QED
    BY ONLY <2>2, <2>3, <2>4, <2>5
<1>5. f = [n \in Nat |-> IF n < 1000 THEN Digits[n]
                        ELSE f[n \div 1000] \o <<".">> \o Tail(Digits[1000 + (n % 1000)])]
  <2> HIDE DEF V
  <2> DEFINE thousands(n) == Cat(Cat(f[n \div 1000], One(".")), LastDigits(n))
  <2>1. ASSUME NEW n \in Nat
        PROVE  f[n] = IF n < 1000 THEN Digits[n] ELSE thousands(n)
    BY <1>4, ThousandAndRest
  <2> HIDE DEF thousands
  <2>2. f = [n \in Nat |-> f[n]]
    BY <1>3, Zenon
  <2>3. f = [n \in Nat |-> IF n < 1000 THEN Digits[n] ELSE thousands(n)]
    BY <2>1, <2>2, Zenon
  <2> QED
    BY <2>3, Zenon DEF thousands, Cat, One, LastDigits
<1>6. ByHand = [n \in Nat |-> IF n < 1000 THEN Digits[n]
                        ELSE ByHand[n \div 1000] \o <<".">> \o Tail(Digits[1000 + (n % 1000)])]
  <2> DEFINE Rule(g) == g = [n \in Nat |-> IF n < 1000 THEN Digits[n]
                        ELSE g[n \div 1000] \o <<".">> \o Tail(Digits[1000 + (n % 1000)])]
  <2>1. Rule(f)
    BY ONLY <1>5, Zenon
  <2>2. ByHand = CHOOSE g : Rule(g)
    BY ONLY Zenon DEF ByHand
  <2> HIDE DEF Rule
  <2>3. Rule(ByHand)
    BY ONLY <2>1, <2>2, Zenon
  <2> QED
    BY ONLY <2>3, Zenon DEF Rule
<1>7. ByHand = [n \in Nat |-> IF n < 1000 THEN Digits[n]
                        ELSE Cat(Cat(ByHand[n \div 1000], One(".")), LastDigits(n))]
  BY <1>6, Zenon DEF Cat, One, LastDigits
<1>8. ASSUME NEW n \in Nat
      PROVE  ByHand[n] = IF n < 1000 THEN Digits[n]
                         ELSE Cat(Cat(ByHand[n \div 1000], One(".")), Hundreds(n))
  BY <1>7, ThousandAndRest
<1>9. \A n \in Nat : ByHand[n] \in V
  <2> DEFINE T == {k \in Nat : ByHand[k] \in V}
  <2>1. ASSUME NEW n \in Nat, \A k \in Nat : k < n => k \in T
        PROVE  n \in T
    <3> HIDE DEF V
    <3>1. CASE n < 1000
      BY <1>1, <1>8, <3>1
    <3>2. CASE ~ (n < 1000)
      <4>1. ByHand[n \div 1000] \in V
        BY <2>1, <3>2, Division
      <4> QED
        BY <1>2, <1>8, <3>2, <4>1
    <3> QED
      BY <3>1, <3>2
  <2> HIDE DEF T
  <2>2. \A n \in Nat : n \in T
    BY <2>1, FromSmaller
  <2> QED
    BY <2>2 DEF T
<1>10. ByHand \in [Nat -> V]
  <2> HIDE DEF V
  <2> QED BY <1>7, <1>9
<1> QED
  BY <1>8, <1>10

(* The loop agrees: the pieces of the thousands are those of the whole,    *)
(* and three pieces with one dot are left.                                 *)
PieceAt(d, i) ==
  IF i > 1 /\ (Len(d) - (i - 1)) % 3 = 0 THEN <<".", d[i]>> ELSE <<d[i]>>

GroupPieces(d) == [i \in 1..Len(d) |-> PieceAt(d, i)]

LEMMA GroupedJoins ==
  ASSUME NEW n \in Nat
  PROVE  Grouped(n) = Joined(GroupPieces(Digits[n]), Len(Digits[n]))
<1> DEFINE d == Digits[n]
           F == GroupPieces(d)
<1>1. F = [i \in 1..Len(d) |-> F[i]]
  BY Zenon DEF GroupPieces
<1>2. Grouped(n) = FlattenSeq(F)
  BY Zenon DEF Grouped, GroupPieces, PieceAt
<1> HIDE DEF F, d
<1>3. FlattenSeq(F) = FlattenSeq([i \in 1..Len(d) |-> F[i]])
  BY <1>1
<1> QED
  BY <1>2, <1>3, Zenon DEF Joined, F, d

LEMMA PiecesTyped ==
  ASSUME NEW d \in Seq(Chars), NEW i \in 1..Len(d)
  PROVE  /\ d[i] \in Chars
         /\ GroupPieces(d)[i] \in Seq(Dotted)
         /\ GroupPieces(d)[i] =
              IF i > 1 /\ (Len(d) - (i - 1)) % 3 = 0 THEN Cat(One("."), One(d[i])) ELSE One(d[i])
<1>1. d[i] \in Chars
  OBVIOUS
<1>2. GroupPieces(d)[i] = IF i > 1 /\ (Len(d) - (i - 1)) % 3 = 0 THEN <<".", d[i]>> ELSE <<d[i]>>
  BY Zenon DEF GroupPieces, PieceAt
<1>3. \A x, y \in Dotted : <<x, y>> = Cat(One(x), One(y))
  BY Two, Zenon
<1>4. "." \in Dotted /\ d[i] \in Dotted
  BY <1>1 DEF Dotted
<1>5. <<".", d[i]>> = Cat(One("."), One(d[i]))
  BY <1>3, <1>4, Zenon
<1>6. GroupPieces(d)[i] =
        IF i > 1 /\ (Len(d) - (i - 1)) % 3 = 0 THEN Cat(One("."), One(d[i])) ELSE One(d[i])
  BY ONLY <1>2, <1>5, Zenon DEF One
<1>7. One(".") \in Seq(Dotted) /\ One(d[i]) \in Seq(Dotted)
      /\ Cat(One("."), One(d[i])) \in Seq(Dotted)
  BY <1>4, Typed
<1> QED
  BY <1>1, <1>6, <1>7

LEMMA Singles ==
  ASSUME NEW S, NEW s \in Seq(S), NEW F, \A i \in 1..Len(s) : F[i] = One(s[i])
  PROVE  Joined(F, Len(s)) = s
<1> DEFINE G(t) == [i \in 1..Len(t) |-> One(t[i])]
           T == {t \in Seq(S) : Joined(G(t), Len(t)) = t}
<1>1. Nil \in T
  BY OnePart, JoinedNone, Typed
<1>2. ASSUME NEW t \in Seq(S), NEW x \in S, t \in T
      PROVE  Cat(t, One(x)) \in T
  <2> DEFINE u == Cat(t, One(x))
             k == Len(t)
  <2>1. /\ k \in Nat /\ Len(u) = k + 1 /\ u[k + 1] = x /\ u \in Seq(S)
        /\ \A i \in 1..k : u[i] = t[i] /\ t[i] \in S
    BY LastPart, Typed
  <2> HIDE DEF u
  <2>2. \A i \in 1..(k + 1) : u[i] \in S /\ G(u)[i] = One(u[i])
    BY <2>1
  <2>3. \A i \in 1..k : G(u)[i] = G(t)[i]
    BY <2>1
  <2> HIDE DEF G, k
  <2>4. \A i \in 1..(k + 1) : G(u)[i] \in Seq(S)
    BY <2>2, Typed
  <2>5. Joined(G(u), k + 1) = Cat(Joined(G(u), k), G(u)[k + 1])
    BY <2>1, <2>4, JoinedOneMore
  <2>6. Joined(G(u), k) = Joined(G(t), k)
    BY <2>1, <2>3, JoinedSame
  <2>7. Joined(G(t), k) = t
    BY <1>2 DEF k
  <2>8. G(u)[k + 1] = One(x)
    BY <2>1, <2>2
  <2>9. Joined(G(u), Len(u)) = u
    BY <2>1, <2>5, <2>6, <2>7, <2>8 DEF u
  <2> QED
    BY <2>1, <2>9 DEF u
<1> HIDE DEF T
<1>3. s \in T
  BY <1>1, <1>2, FromFront
<1>4. Joined(F, Len(s)) = Joined(G(s), Len(s))
  <2>1. Len(s) \in Nat /\ \A i \in 1..Len(s) : F[i] = G(s)[i]
    OBVIOUS
  <2> HIDE DEF G
  <2> QED
    BY <2>1, JoinedSame
<1> QED
  BY <1>3, <1>4 DEF T

LEMMA LongerByOne ==
  \A n \in Nat : /\ n < 10 => Len(Digits[n]) = 1
                 /\ ~ (n < 10) => Len(Digits[n]) = Len(Digits[n \div 10]) + 1
<1>1. ASSUME NEW n \in Nat, n < 10
      PROVE  Len(Digits[n]) = 1
  BY <1>1, DigitsUnfold, OnePart
<1>2. ASSUME NEW n \in Nat, ~ (n < 10)
      PROVE  Len(Digits[n]) = Len(Digits[n \div 10]) + 1
  <2> DEFINE q == n \div 10
             r == n % 10
  <2>1. q \in Nat /\ r \in Nat /\ q = n \div 10 /\ r = n % 10 /\ Digit(r) \in Chars
    BY OneDigit
  <2> HIDE DEF q, r
  <2>2. Digits[n] = Cat(Digits[q], One(Digit(r))) /\ Digits[q] \in Seq(Chars)
    BY <1>2, <2>1, DigitsUnfold
  <2>3. Len(Cat(Digits[q], One(Digit(r)))) = Len(Digits[q]) + 1
    BY <2>1, <2>2, LastPart
  <2> QED
    BY <2>1, <2>2, <2>3
<1> QED
  BY <1>1, <1>2

LEMMA SomeDigits ==
  \A n \in Nat : Len(Digits[n]) \in Nat /\ Len(Digits[n]) # 0
<1> TAKE n \in Nat
<1>1. \A k \in Nat : Len(Digits[k]) \in Nat
  <2> SUFFICES ASSUME NEW k \in Nat
               PROVE  Len(Digits[k]) \in Nat
    OBVIOUS
  <2>1. Digits[k] \in Seq(Chars)
    BY DigitsUnfold
  <2> QED
    BY <2>1
<1>2. CASE n < 10
  BY <1>2, LongerByOne
<1>3. CASE ~ (n < 10)
  <2>1. n \div 10 \in Nat
    OBVIOUS
  <2> QED
    BY <1>1, <1>3, <2>1, LongerByOne
<1> QED
  BY <1>2, <1>3

LEMMA FewDigits ==
  \A n \in Nat : n < 1000 => Len(Digits[n]) \in 1..3
<1>1. ASSUME NEW n \in Nat, n < 100
      PROVE  Len(Digits[n]) \in 1..2
  <2>1. CASE n < 10
    BY <2>1, LongerByOne
  <2>2. CASE ~ (n < 10)
    <3>1. n \div 10 \in Nat /\ n \div 10 < 10
      BY <1>1
    <3>2. Len(Digits[n \div 10]) = 1
      BY <3>1, LongerByOne
    <3>3. Len(Digits[n]) = Len(Digits[n \div 10]) + 1
      BY <2>2, LongerByOne
    <3>4. Len(Digits[n]) = 1 + 1
      BY ONLY <3>2, <3>3
    <3> QED
      BY <3>4
  <2> QED
    BY <2>1, <2>2
<1> TAKE n \in Nat
<1> HAVE n < 1000
<1>2. CASE n < 100
  BY <1>1, <1>2
<1>3. CASE ~ (n < 100)
  <2>1. n \div 10 \in Nat /\ n \div 10 < 100 /\ ~ (n < 10)
    BY <1>3
  <2>2. Len(Digits[n \div 10]) \in 1..2
    BY <1>1, <2>1
  <2>3. Len(Digits[n]) = Len(Digits[n \div 10]) + 1
    BY <2>1, LongerByOne
  <2> DEFINE l == Len(Digits[n \div 10])
  <2>4. l \in 1..2 /\ Len(Digits[n]) = l + 1
    BY <2>2, <2>3
  <2> HIDE DEF l
  <2> QED
    BY <2>4
<1> QED
  BY <1>2, <1>3

LEMMA GroupedSmall ==
  ASSUME NEW n \in Nat, n < 1000
  PROVE  Grouped(n) = Digits[n]
<1> DEFINE d == Digits[n]
<1>1. d \in Seq(Chars) /\ Len(d) \in 1..3
  BY DigitsUnfold, FewDigits
<1>2. Grouped(n) = Joined(GroupPieces(d), Len(d))
  BY GroupedJoins
<1> HIDE DEF d
<1>3. ASSUME NEW i \in 1..Len(d)
      PROVE  GroupPieces(d)[i] = One(d[i])
  <2>1. ~ (i > 1 /\ (Len(d) - (i - 1)) % 3 = 0)
    <3>1. i > 1 => Len(d) - (i - 1) = 1 \/ Len(d) - (i - 1) = 2
      <4> DEFINE l == Len(d)
      <4>1. l \in 1..3 /\ i \in 1..l
        BY <1>1
      <4> HIDE DEF l
      <4>2. i > 1 => l - (i - 1) = 1 \/ l - (i - 1) = 2
        BY <4>1
      <4> QED
        BY <4>2 DEF l
    <3>2. 1 % 3 # 0 /\ 2 % 3 # 0
      OBVIOUS
    <3> QED
      BY <3>1, <3>2
  <2> QED
    BY <1>1, <2>1, PiecesTyped
<1>4. Joined(GroupPieces(d), Len(d)) = d
  BY <1>1, <1>3, Singles
<1> QED
  BY <1>2, <1>4 DEF d

LEMMA GroupedBig ==
  ASSUME NEW n \in Nat, ~ (n < 1000)
  PROVE  Grouped(n) = Cat(Cat(Grouped(n \div 1000), One(".")), Hundreds(n))
<1> DEFINE k == n \div 1000
           d == Digits[n]
           e == Digits[k]
           a == Digit((n \div 100) % 10)
           b == Digit((n \div 10) % 10)
           c == Digit(n % 10)
           L == Len(e)
<1>1. k \in Nat /\ d \in Seq(Chars) /\ e \in Seq(Chars)
  <2>1. k \in Nat
    OBVIOUS
  <2> QED
    BY <2>1, DigitsUnfold
<1>2. a \in Chars /\ b \in Chars /\ c \in Chars
  <2>1. n \div 10 \in Nat /\ n \div 100 \in Nat
    OBVIOUS
  <2> QED
    BY <2>1, OneDigit
<1>3. Hundreds(n) = Cat(Cat(One(a), One(b)), One(c))
  BY Zenon DEF Hundreds
<1>4. d = Cat(e, Hundreds(n))
  BY LastThree
<1>5. Grouped(n) = Joined(GroupPieces(d), Len(d)) /\ Grouped(k) = Joined(GroupPieces(e), L)
  BY <1>1, GroupedJoins
<1>6. L \in Nat /\ L # 0
  BY <1>1, SomeDigits
<1> HIDE DEF k, d, e, a, b, c, L
<1>7. d = Cat(Cat(Cat(e, One(a)), One(b)), One(c))
  <2> DEFINE x == One(a)
             y == One(b)
             z == One(c)
  <2>1. e \in Seq(Chars) /\ x \in Seq(Chars) /\ y \in Seq(Chars) /\ z \in Seq(Chars)
        /\ Cat(x, y) \in Seq(Chars)
    BY <1>1, <1>2, Typed
  <2>2. d = Cat(e, Cat(Cat(x, y), z))
    BY <1>3, <1>4
  <2> HIDE DEF x, y, z
  <2>3. Cat(Cat(e, x), y) = Cat(e, Cat(x, y))
    BY <2>1, Together
  <2>4. Cat(Cat(e, Cat(x, y)), z) = Cat(e, Cat(Cat(x, y), z))
    BY <2>1, Together
  <2> QED
    BY <2>2, <2>3, <2>4 DEF x, y, z
<1>8. /\ Len(d) = L + 3
      /\ \A i \in 1..L : d[i] = e[i]
      /\ d[L + 1] = a /\ d[L + 2] = b /\ d[L + 3] = c
  <2> DEFINE f == Cat(e, One(a))
             g == Cat(f, One(b))
  <2>1. f \in Seq(Chars) /\ g \in Seq(Chars)
    BY <1>1, <1>2, Typed
  <2>2. Len(f) = L + 1 /\ f[L + 1] = a /\ \A i \in 1..L : f[i] = e[i]
    BY <1>1, <1>2, LastPart DEF L
  <2>3. d = Cat(g, One(c))
    BY <1>7
  <2> HIDE DEF f
  <2>4. Len(g) = Len(f) + 1 /\ g[Len(f) + 1] = b /\ \A i \in 1..Len(f) : g[i] = f[i]
    BY <1>2, <2>1, LastPart
  <2> HIDE DEF g
  <2>5. Len(d) = Len(g) + 1 /\ d[Len(g) + 1] = c /\ \A i \in 1..Len(g) : d[i] = g[i]
    BY <1>2, <2>1, <2>3, LastPart
  <2> QED
    BY <1>6, <2>2, <2>4, <2>5
<1> DEFINE P == GroupPieces(d)
           Q == GroupPieces(e)
<1>9. ASSUME NEW i \in 1..(L + 3)
      PROVE  P[i] \in Seq(Dotted)
  BY <1>1, <1>8, PiecesTyped
<1>10. ASSUME NEW i \in 1..L
       PROVE  P[i] = Q[i]
  <2>1. i \in 1..Len(d) /\ i \in 1..Len(e) /\ d[i] = e[i]
        /\ Len(e) = L /\ Len(d) = L + 3
    BY <1>6, <1>8 DEF L
  <2>2. (L + 3 - (i - 1)) % 3 = 0 <=> (L - (i - 1)) % 3 = 0
    BY <1>6
  <2>3. P[i] = IF i > 1 /\ (L + 3 - (i - 1)) % 3 = 0 THEN Cat(One("."), One(d[i])) ELSE One(d[i])
    <3>1. P[i] = IF i > 1 /\ (Len(d) - (i - 1)) % 3 = 0
                 THEN Cat(One("."), One(d[i])) ELSE One(d[i])
      BY <1>1, <2>1, PiecesTyped
    <3> HIDE DEF P
    <3> QED
      BY <2>1, <3>1
  <2>4. Q[i] = IF i > 1 /\ (L - (i - 1)) % 3 = 0 THEN Cat(One("."), One(e[i])) ELSE One(e[i])
    BY <1>1, <2>1, PiecesTyped
  <2> HIDE DEF P, Q
  <2> QED
    BY <2>1, <2>2, <2>3, <2>4
<1>11. P[L + 1] = Cat(One("."), One(a)) /\ P[L + 2] = One(b) /\ P[L + 3] = One(c)
  <2>1. L + 1 \in 1..Len(d) /\ L + 2 \in 1..Len(d) /\ L + 3 \in 1..Len(d)
    BY <1>6, <1>8
  <2>2. /\ L + 1 > 1 /\ (Len(d) - ((L + 1) - 1)) % 3 = 0
        /\ (Len(d) - ((L + 2) - 1)) % 3 # 0 /\ (Len(d) - ((L + 3) - 1)) % 3 # 0
    BY <1>6, <1>8
  <2> HIDE DEF P
  <2>3. P[L + 1] = Cat(One("."), One(d[L + 1]))
    BY <1>1, <2>1, <2>2, PiecesTyped DEF P
  <2>4. P[L + 2] = One(d[L + 2])
    BY <1>1, <2>1, <2>2, PiecesTyped DEF P
  <2>5. P[L + 3] = One(d[L + 3])
    BY <1>1, <2>1, <2>2, PiecesTyped DEF P
  <2> QED
    BY <1>8, <2>3, <2>4, <2>5
<1> HIDE DEF P, Q
<1>12. Joined(P, L) = Joined(Q, L) /\ Joined(P, L) \in Seq(Dotted)
  <2>1. \A i \in 1..L : P[i] \in Seq(Dotted)
    BY <1>6, <1>9
  <2> QED
    BY <1>6, <1>10, <2>1, JoinedSame, JoinedTyped
<1>13. Joined(P, L + 1) = Cat(Joined(P, L), P[L + 1])
  <2>1. \A i \in 1..(L + 1) : P[i] \in Seq(Dotted)
    BY <1>6, <1>9
  <2> QED
    BY <1>6, <2>1, JoinedOneMore
<1>14. Joined(P, L + 2) = Cat(Joined(P, L + 1), P[L + 2])
  <2>1. (L + 1) + 1 = L + 2 /\ L + 1 \in Nat
    BY <1>6
  <2>2. \A i \in 1..((L + 1) + 1) : P[i] \in Seq(Dotted)
    BY <1>6, <1>9
  <2>3. Joined(P, (L + 1) + 1) = Cat(Joined(P, L + 1), P[(L + 1) + 1])
    BY <2>1, <2>2, JoinedOneMore
  <2> QED
    BY <2>1, <2>3
<1>15. Joined(P, L + 3) = Cat(Joined(P, L + 2), P[L + 3])
  <2>1. (L + 2) + 1 = L + 3 /\ L + 2 \in Nat
    BY <1>6
  <2>2. \A i \in 1..((L + 2) + 1) : P[i] \in Seq(Dotted)
    BY <1>6, <1>9
  <2>3. Joined(P, (L + 2) + 1) = Cat(Joined(P, L + 2), P[(L + 2) + 1])
    BY <2>1, <2>2, JoinedOneMore
  <2> QED
    BY <2>1, <2>3
<1> DEFINE J == Joined(Q, L)
           o == One(".")
           x == One(a)
           y == One(b)
           z == One(c)
<1>16. Joined(P, L + 3) = Cat(Cat(Cat(J, Cat(o, x)), y), z)
  BY <1>11, <1>12, <1>13, <1>14, <1>15
<1>17. /\ J \in Seq(Dotted) /\ o \in Seq(Dotted) /\ x \in Seq(Dotted)
       /\ y \in Seq(Dotted) /\ z \in Seq(Dotted)
  <2>1. a \in Dotted /\ b \in Dotted /\ c \in Dotted /\ "." \in Dotted
    BY <1>2 DEF Dotted
  <2> QED
    BY <1>12, <2>1, Typed
<1> HIDE DEF J, o, x, y, z
<1>18. Cat(Cat(Cat(J, Cat(o, x)), y), z) = Cat(Cat(J, o), Cat(Cat(x, y), z))
  <2>1. Cat(J, o) \in Seq(Dotted) /\ Cat(x, y) \in Seq(Dotted)
    BY <1>17, Typed
  <2>2. Cat(J, Cat(o, x)) = Cat(Cat(J, o), x)
    BY <1>17, Together
  <2>3. Cat(Cat(Cat(J, o), x), y) = Cat(Cat(J, o), Cat(x, y))
    BY <1>17, <2>1, Together
  <2>4. Cat(Cat(Cat(J, o), Cat(x, y)), z) = Cat(Cat(J, o), Cat(Cat(x, y), z))
    BY <1>17, <2>1, Together
  <2> QED
    BY <2>2, <2>3, <2>4
<1> QED
  BY <1>3, <1>5, <1>8, <1>16, <1>18 DEF J, o, x, y, z, P, Q, k

LEMMA GroupedIsByHand ==
  \A n \in Nat : Grouped(n) = ByHand[n]
<1> DEFINE T == {n \in Nat : Grouped(n) = ByHand[n]}
<1>1. ASSUME NEW n \in Nat, \A k \in Nat : k < n => k \in T
      PROVE  n \in T
  <2>1. CASE n < 1000
    <3>1. Grouped(n) = Digits[n]
      BY <2>1, GroupedSmall
    <3>2. ByHand[n] = Digits[n]
      BY <2>1, ByHandUnfold
    <3> QED
      BY <3>1, <3>2
  <2>2. CASE ~ (n < 1000)
    <3>1. n \div 1000 \in Nat /\ n \div 1000 < n
      BY <2>2
    <3>2. Grouped(n \div 1000) = ByHand[n \div 1000]
      BY <1>1, <3>1
    <3> QED
      BY <2>2, <3>2, GroupedBig, ByHandUnfold
  <2> QED
    BY <2>1, <2>2
<1> HIDE DEF T
<1>2. \A n \in Nat : n \in T
  BY <1>1, FromSmaller
<1> QED
  BY <1>2 DEF T

(* Reading from the left, a digit makes ten times as much of what was      *)
(* read before, and all else counts for nothing.                           *)
LEMMA NumbersRead ==
  /\ NumberIn[Nil] = 0
  /\ \A s \in Seq(Character) : NumberIn[s] \in Nat
  /\ \A s \in Seq(Character), x \in Character :
       /\ IsDigit(x) => NumberIn[Cat(s, One(x))] = 10 * NumberIn[s] + ValueOf(x)
       /\ ~ IsDigit(x) => NumberIn[Cat(s, One(x))] = NumberIn[s]
<1> DEFINE D == Seq(Character)
           m == [s \in D |-> Len(s)]
           base == [s \in D |-> 0]
           down == [s \in D |-> IF s = Nil THEN Nil ELSE Front(s)]
           step == [s \in D |-> [v \in Nat |->
                     IF IsDigit(Last(s)) THEN 10 * v + ValueOf(Last(s)) ELSE v]]
           Stop == {Nil}
<1>1. \A x : IsDigit(x) => ValueOf(x) \in Nat
  BY DEF IsDigit, ValueOf, DigitName
<1>2. \A s \in D : Len(s) \in Nat
  OBVIOUS
<1>3. PICK f \in [D -> Nat] : Recurs(f, D, Stop, base, down, step)
  <2>1. m \in [D -> Nat] /\ base \in [D -> Nat]
    BY <1>2
  <2>2. Stop \in SUBSET D
    BY Typed
  <2>3. down \in [D -> D]
    BY LastApart, Typed
  <2>4. step \in [D -> [Nat -> Nat]]
    BY <1>1
  <2>5. ASSUME NEW s \in D \ Stop
        PROVE  m[down[s]] < m[s]
    <3>1. s # Nil /\ s \in Seq(Character)
      OBVIOUS
    <3>2. down[s] = Front(s) /\ Front(s) \in D /\ Len(Front(s)) = Len(s) - 1
      BY <3>1, LastApart
    <3> QED
      BY <1>2, <3>2
  <2> HIDE DEF D, m, Stop, base, down, step
  <2>6. Descends(D, Nat, m, Stop, base, down, step)
    BY <2>1, <2>2, <2>3, <2>4, <2>5 DEF Descends
  <2> QED
    BY <2>6, RecursionExists
<1>4. ASSUME NEW s \in D
      PROVE  f[s] = IF s = <<>> THEN 0
                    ELSE IF IsDigit(Last(s)) THEN 10 * f[Front(s)] + ValueOf(Last(s))
                    ELSE f[Front(s)]
  <2> HIDE DEF D
  <2>1. CASE s = Nil
    BY <1>3, <2>1 DEF Recurs, Nil
  <2>2. CASE s # Nil
    <3>1. Front(s) \in D
      BY <2>2, LastApart DEF D
    <3>2. f[Front(s)] \in Nat
      BY <3>1
    <3>3. f[s] = step[s][f[Front(s)]]
      BY <1>3, <2>2 DEF Recurs
    <3>4. s # <<>>
      BY <2>2 DEF Nil
    <3>5. step[s][f[Front(s)]] = IF IsDigit(Last(s)) THEN 10 * f[Front(s)] + ValueOf(Last(s))
                                 ELSE f[Front(s)]
      BY <3>2
    <3> HIDE DEF step
    <3> QED
      BY <3>3, <3>4, <3>5, Zenon
  <2> QED
    BY <2>1, <2>2
<1>5. f = [s \in D |-> IF s = <<>> THEN 0
                      ELSE IF IsDigit(Last(s)) THEN 10 * f[Front(s)] + ValueOf(Last(s))
                      ELSE f[Front(s)]]
  <2> HIDE DEF D
  <2> QED BY <1>4, Zenon
<1>6. NumberIn = [s \in D |-> IF s = <<>> THEN 0
                      ELSE IF IsDigit(Last(s)) THEN 10 * NumberIn[Front(s)] + ValueOf(Last(s))
                      ELSE NumberIn[Front(s)]]
  BY <1>5 DEF NumberIn
<1>7. ASSUME NEW s \in D
      PROVE  NumberIn[s] = IF s = Nil THEN 0
                      ELSE IF IsDigit(Last(s)) THEN 10 * NumberIn[Front(s)] + ValueOf(Last(s))
                      ELSE NumberIn[Front(s)]
  <2> HIDE DEF D
  <2> QED BY <1>6, Zenon DEF Nil
<1> HIDE DEF m, base, down, step, Stop
<1>8. ASSUME NEW s \in D, NEW x \in Character
      PROVE  /\ Cat(s, One(x)) \in D
             /\ IsDigit(x) => NumberIn[Cat(s, One(x))] = 10 * NumberIn[s] + ValueOf(x)
             /\ ~ IsDigit(x) => NumberIn[Cat(s, One(x))] = NumberIn[s]
  <2>1. /\ Cat(s, One(x)) \in D /\ Cat(s, One(x)) # Nil
        /\ Front(Cat(s, One(x))) = s /\ Last(Cat(s, One(x))) = x
    BY OneMore, Typed
  <2> HIDE DEF D
  <2>2. NumberIn[Cat(s, One(x))] = IF IsDigit(x) THEN 10 * NumberIn[s] + ValueOf(x)
                                   ELSE NumberIn[s]
    BY <1>7, <2>1
  <2> QED
    BY <2>1, <2>2
<1>9. Nil \in D /\ NumberIn[Nil] = 0
  BY <1>7, Typed
<1>10. \A s \in D : NumberIn[s] \in Nat
  <2> DEFINE T == {t \in D : NumberIn[t] \in Nat}
  <2>1. Nil \in T
    BY <1>9
  <2>2. ASSUME NEW s \in D, NEW x \in Character, s \in T
        PROVE  Cat(s, One(x)) \in T
    <3> HIDE DEF D
    <3> QED BY <1>1, <1>8, <2>2
  <2>3. \A s \in D : s \in T
    <3> HIDE DEF T
    <3> QED BY <2>1, <2>2, FromFront
  <2> QED
    BY <2>3
<1> QED
  BY <1>8, <1>9, <1>10
LEMMA DottedAreCharacters ==
  /\ Dotted \subseteq Character /\ Seq(Chars) \subseteq Seq(Character)
  /\ Seq(Dotted) \subseteq Seq(Character) /\ "," \notin Dotted /\ "," \in Character
<1>1. Chars \subseteq Character /\ Dotted \subseteq Character
  BY CharsAreCharacters DEF Dotted
<1>2. "," \notin Dotted /\ "," \in Character
  BY CharsAreCharacters DEF Dotted
<1> QED
  BY <1>1, <1>2, SeqMonotonic

LEMMA WrittenInCharacters ==
  \A n \in Nat : Digits[n] \in Seq(Character) /\ ByHand[n] \in Seq(Character)
                 /\ ByHand[n] \in Seq(Dotted)
<1> TAKE n \in Nat
<1>1. Digits[n] \in Seq(Chars)
  BY DigitsUnfold
<1>2. ByHand[n] \in Seq(Dotted)
  BY ByHandUnfold
<1> QED
  BY <1>1, <1>2, DottedAreCharacters, Zenon

(* What is written reads back.                                             *)
LEMMA DigitRead ==
  \A s \in Seq(Character), k \in 0..9 :
    NumberIn[Cat(s, One(Digit(k)))] = 10 * NumberIn[s] + k
<1> TAKE s \in Seq(Character), k \in 0..9
<1>1. Digit(k) \in Character /\ IsDigit(Digit(k)) /\ ValueOf(Digit(k)) = k
  BY DigitNames, CharsAreCharacters
<1> QED
  BY <1>1, NumbersRead

LEMMA DigitsRead ==
  \A n \in Nat : NumberIn[Digits[n]] = n
<1> DEFINE T == {n \in Nat : NumberIn[Digits[n]] = n}
<1>1. ASSUME NEW n \in Nat, \A k \in Nat : k < n => k \in T
      PROVE  n \in T
  <2>1. CASE n < 10
    <3>1. n \in 0..9 /\ Digits[n] = One(Digit(n))
      BY <2>1, DigitsUnfold
    <3>2. Nil \in Seq(Character) /\ One(Digit(n)) \in Seq(Chars)
      BY <3>1, DigitNames, Typed
    <3>3. Cat(Nil, One(Digit(n))) = One(Digit(n))
      BY <3>2, NothingMore
    <3>4. NumberIn[Cat(Nil, One(Digit(n)))] = 10 * NumberIn[Nil] + n
      BY <3>1, <3>2, DigitRead
    <3>5. NumberIn[Nil] = 0
      BY NumbersRead
    <3>6. NumberIn[Digits[n]] = n
      BY <3>1, <3>3, <3>4, <3>5
    <3> QED
      BY <3>6
  <2>2. CASE ~ (n < 10)
    <3> DEFINE q == n \div 10
               r == n % 10
    <3>1. q \in Nat /\ q < n /\ r \in 0..9 /\ r \in Nat /\ n = 10 * q + r
          /\ q = n \div 10 /\ r = n % 10
      BY <2>2, Division
    <3> HIDE DEF q, r
    <3>2. Digits[n] = Cat(Digits[q], One(Digit(r))) /\ Digits[q] \in Seq(Character)
      BY <2>2, <3>1, DigitsUnfold, DottedAreCharacters
    <3>3. NumberIn[Digits[q]] = q
      BY <1>1, <3>1
    <3>4. NumberIn[Cat(Digits[q], One(Digit(r)))] = 10 * NumberIn[Digits[q]] + r
      BY <3>1, <3>2, DigitRead
    <3>5. NumberIn[Digits[n]] = n
      BY <3>1, <3>2, <3>3, <3>4
    <3> QED
      BY <3>5
  <2> QED
    BY <2>1, <2>2
<1> HIDE DEF T
<1>2. \A n \in Nat : n \in T
  BY <1>1, FromSmaller
<1> QED
  BY <1>2 DEF T

BelowThousand(n) == 100 * ((n \div 100) % 10) + 10 * ((n \div 10) % 10) + (n % 10)

LEMMA HundredsRead ==
  ASSUME NEW n \in Nat, NEW s \in Seq(Character)
  PROVE  NumberIn[Cat(s, Hundreds(n))] = 1000 * NumberIn[s] + BelowThousand(n)
<1> DEFINE a == (n \div 100) % 10
           b == (n \div 10) % 10
           c == n % 10
           x == One(Digit(a))
           y == One(Digit(b))
           z == One(Digit(c))
<1>1. a \in 0..9 /\ b \in 0..9 /\ c \in 0..9
  OBVIOUS
<1>2. Hundreds(n) = Cat(Cat(x, y), z)
  BY Zenon DEF Hundreds
<1> HIDE DEF a, b, c
<1>3. Digit(a) \in Character /\ Digit(b) \in Character /\ Digit(c) \in Character
  BY <1>1, DigitNames, CharsAreCharacters
<1>4. x \in Seq(Character) /\ y \in Seq(Character) /\ z \in Seq(Character)
      /\ Cat(x, y) \in Seq(Character)
  BY <1>3, Typed
<1>5. Cat(s, x) \in Seq(Character) /\ Cat(Cat(s, x), y) \in Seq(Character)
  BY <1>4, Typed
<1>6. Cat(s, Hundreds(n)) = Cat(Cat(Cat(s, x), y), z)
  <2> HIDE DEF x, y, z
  <2>1. Cat(Cat(s, x), y) = Cat(s, Cat(x, y))
    BY <1>4, Together
  <2>2. Cat(Cat(s, Cat(x, y)), z) = Cat(s, Cat(Cat(x, y), z))
    BY <1>4, Together
  <2> QED
    BY <1>2, <2>1, <2>2
<1>7. NumberIn[Cat(Cat(Cat(s, x), y), z)] = 10 * NumberIn[Cat(Cat(s, x), y)] + c
  BY <1>1, <1>5, DigitRead
<1>8. NumberIn[Cat(Cat(s, x), y)] = 10 * NumberIn[Cat(s, x)] + b
  BY <1>1, <1>5, DigitRead
<1>9. NumberIn[Cat(s, x)] = 10 * NumberIn[s] + a
  BY <1>1, <1>5, DigitRead
<1>10. NumberIn[s] \in Nat /\ a \in Int /\ b \in Int /\ c \in Int
  BY <1>1, NumbersRead
<1> HIDE DEF x, y, z
<1> DEFINE v == NumberIn[s]
<1>11. NumberIn[Cat(s, Hundreds(n))] = 10 * (10 * (10 * v + a) + b) + c
  BY <1>6, <1>7, <1>8, <1>9
<1>12. v \in Nat
  BY <1>10
<1> HIDE DEF v
<1>13. 10 * (10 * (10 * v + a) + b) + c = 1000 * v + (100 * a + 10 * b + c)
  BY <1>10, <1>12
<1>14. BelowThousand(n) = 100 * a + 10 * b + c
  BY DEF BelowThousand, a, b, c
<1>15. NumberIn[Cat(s, Hundreds(n))] = 1000 * v + BelowThousand(n)
  BY ONLY <1>11, <1>13, <1>14
<1> QED
  BY <1>15 DEF v

LEMMA ThreeDigits ==
  \A n \in Nat : /\ BelowThousand(n) \in Nat
                 /\ n = 1000 * (n \div 1000) + BelowThousand(n)
<1> TAKE n \in Nat
<1> DEFINE t == n \div 10
           h == n \div 100
           k == n \div 1000
           a == h % 10
           b == t % 10
           c == n % 10
<1>1. t \in Nat /\ c \in Nat /\ n = 10 * t + c /\ h = t \div 10 /\ k = h \div 10
      /\ b = t % 10 /\ a = h % 10
  OBVIOUS
<1>2. BelowThousand(n) = 100 * a + 10 * b + c
  BY DEF BelowThousand
<1> HIDE DEF t, h, k, a, b, c
<1>3. h \in Nat /\ b \in Nat /\ t = 10 * h + b
  BY <1>1, Division
<1>4. k \in Nat /\ a \in Nat /\ h = 10 * k + a
  BY <1>1, <1>3, Division
<1>5. n = 1000 * k + (100 * a + 10 * b + c) /\ 100 * a + 10 * b + c \in Nat
  BY <1>1, <1>3, <1>4
<1>6. n = 1000 * k + BelowThousand(n) /\ BelowThousand(n) \in Nat
  BY ONLY <1>2, <1>5
<1> QED
  BY <1>6 DEF k

LEMMA ByHandReads ==
  \A n \in Nat : NumberIn[ByHand[n]] = n
<1> DEFINE T == {n \in Nat : NumberIn[ByHand[n]] = n}
<1>1. ASSUME NEW n \in Nat, \A k \in Nat : k < n => k \in T
      PROVE  n \in T
  <2>1. CASE n < 1000
    <3>1. ByHand[n] = Digits[n] /\ NumberIn[Digits[n]] = n
      BY <2>1, ByHandUnfold, DigitsRead
    <3> QED
      BY <3>1
  <2>2. CASE ~ (n < 1000)
    <3> DEFINE k == n \div 1000
               B == ByHand[k]
    <3>1. k \in Nat /\ k < n
      BY <2>2
    <3>2. B \in Seq(Character)
      BY <3>1, WrittenInCharacters
    <3>3. ByHand[n] = Cat(Cat(B, One(".")), Hundreds(n))
      BY <2>2, ByHandUnfold
    <3>4. NumberIn[B] = k
      BY <1>1, <3>1
    <3>5. n = 1000 * k + BelowThousand(n)
      BY ThreeDigits
    <3> HIDE DEF k, B
    <3>6. "." \in Character /\ ~ IsDigit(".")
      BY CharsAreCharacters, DotIsNoDigit
    <3>7. NumberIn[Cat(B, One("."))] = NumberIn[B] /\ Cat(B, One(".")) \in Seq(Character)
      BY <3>2, <3>6, NumbersRead, Typed
    <3>8. NumberIn[Cat(Cat(B, One(".")), Hundreds(n))]
            = 1000 * NumberIn[Cat(B, One("."))] + BelowThousand(n)
      BY <3>7, HundredsRead
    <3>9. NumberIn[ByHand[n]] = n
      BY ONLY <3>3, <3>4, <3>5, <3>7, <3>8
    <3> QED
      BY <3>9
  <2> QED
    BY <2>1, <2>2
<1> HIDE DEF T
<1>2. \A n \in Nat : n \in T
  BY <1>1, FromSmaller
<1> QED
  BY <1>2 DEF T

-----------------------------------------------------------------------------
(* The amount in a letter.                                                 *)

Behind(c) == IF c < 10 THEN Cat(One("0"), Digits[c]) ELSE Digits[c]

LEMMA CentsWritten ==
  ASSUME NEW c \in 0..100
  PROVE  /\ c = 0 => CentsText(c) = Nil
         /\ c # 0 => CentsText(c) = Cat(One(","), Behind(c))
         /\ Behind(c) \in Seq(Character) /\ NumberIn[Behind(c)] = c
         /\ c # 0 => Len(Behind(c)) = IF c = 100 THEN 3 ELSE 2
<1>1. /\ c \in Nat /\ Digits[c] \in Seq(Character) /\ "," \in Character
      /\ NumberIn[Digits[c]] = c
  <2>1. c \in Nat
    OBVIOUS
  <2> QED
    BY <2>1, WrittenInCharacters, DottedAreCharacters, DigitsRead
<1>2. "0" = Digit(0) /\ "0" \in Character
  <2>1. "0" = Digit(0)
    BY DEF Digit, DigitName
  <2>2. "0" \in Chars
    BY DEF Chars
  <2> QED
    BY <2>1, <2>2, CharsAreCharacters
<1>3. One("0") \in Seq(Character) /\ One(",") \in Seq(Character)
  BY <1>1, <1>2, Typed
<1>4. CASE c < 10
  <2>1. c \in 0..9 /\ c \in Nat
    BY <1>4
  <2>2. Digits[c] = One(Digit(c)) /\ Digit(c) \in Character
    BY <1>4, <2>1, DigitsUnfold, DigitNames, CharsAreCharacters
  <2>3. Behind(c) = Cat(One("0"), One(Digit(c)))
    BY <1>4, <2>2, Zenon DEF Behind
  <2>4. c = 0 => CentsText(c) = Nil
    BY DEF CentsText, Nil
  <2>5. c # 0 => CentsText(c) = Cat(One(","), Behind(c))
    <3> SUFFICES ASSUME c # 0
                 PROVE  CentsText(c) = Cat(One(","), Behind(c))
      OBVIOUS
    <3>1. c \in 1..9 /\ ~ (c = 0)
      BY <2>1
    <3>2. CentsText(c) = <<",", "0">> \o Digits[c]
      BY <3>1, Zenon DEF CentsText
    <3>3. <<",", "0">> = Cat(One(","), One("0"))
      BY <1>1, <1>2, Two, Zenon
    <3>4. CentsText(c) = Cat(Cat(One(","), One("0")), Digits[c])
      BY ONLY <3>2, <3>3, Zenon DEF Cat
    <3>5. Cat(Cat(One(","), One("0")), Digits[c]) = Cat(One(","), Cat(One("0"), Digits[c]))
      <4> DEFINE x == One(",")
                 y == One("0")
                 z == Digits[c]
      <4>1. x \in Seq(Character) /\ y \in Seq(Character) /\ z \in Seq(Character)
        BY <1>1, <1>3
      <4> HIDE DEF x, y, z
      <4>2. Cat(Cat(x, y), z) = Cat(x, Cat(y, z))
        BY ONLY <4>1, Together
      <4> QED
        BY <4>2 DEF x, y, z
    <3>6. Behind(c) = Cat(One("0"), Digits[c])
      BY <1>4, Zenon DEF Behind
    <3> QED
      BY ONLY <3>4, <3>5, <3>6
  <2>6. Behind(c) \in Seq(Character)
    BY <1>3, <2>2, <2>3, Typed
  <2>7. NumberIn[One("0")] = 0
    <3>1. Nil \in Seq(Character) /\ 0 \in 0..9
      BY Typed
    <3>2. NumberIn[Cat(Nil, One(Digit(0)))] = 10 * NumberIn[Nil] + 0
      BY <3>1, DigitRead
    <3>3. Cat(Nil, One(Digit(0))) = One("0") /\ NumberIn[Nil] = 0
      BY <1>2, <1>3, NothingMore, NumbersRead
    <3> QED
      BY <3>2, <3>3
  <2>8. NumberIn[Behind(c)] = c
    <3>1. NumberIn[Cat(One("0"), One(Digit(c)))] = 10 * NumberIn[One("0")] + c
      BY <1>3, <2>1, DigitRead
    <3> QED
      BY <2>3, <2>7, <3>1
  <2>9. Len(Behind(c)) = 2
    <3>1. Len(Cat(One("0"), One(Digit(c)))) = Len(One("0")) + 1
      BY <1>3, <2>2, LastPart
    <3>2. Len(One("0")) = 1
      BY OnePart
    <3>3. Len(Behind(c)) = 1 + 1
      BY ONLY <2>3, <3>1, <3>2
    <3> QED
      BY <3>3
  <2>10. c # 100
    BY <2>1
  <2> QED
    BY <2>4, <2>5, <2>6, <2>8, <2>9, <2>10
<1>5. CASE ~ (c < 10)
  <2>1. c # 0 /\ c \notin 1..9
    BY <1>5
  <2>2. Behind(c) = Digits[c]
    BY <1>5 DEF Behind
  <2>3. CentsText(c) = <<",">> \o Digits[c]
    BY <2>1, Zenon DEF CentsText
  <2>4. CentsText(c) = Cat(One(","), Behind(c))
    BY ONLY <2>2, <2>3, Zenon DEF Cat, One
  <2>5. Len(Digits[c]) = Len(Digits[c \div 10]) + 1
    BY <1>1, <1>5, LongerByOne
  <2>6. Len(Digits[c \div 10]) = IF c = 100 THEN 2 ELSE 1
    <3>1. CASE c = 100
      <4>1. c \div 10 = 10 /\ 10 \in Nat /\ ~ (10 < 10) /\ 10 \div 10 = 1 /\ 1 \in Nat /\ 1 < 10
        BY <3>1
      <4>2. Len(Digits[1]) = 1
        BY <4>1, LongerByOne
      <4>3. Len(Digits[10]) = Len(Digits[10 \div 10]) + 1
        BY <4>1, LongerByOne
      <4>4. Len(Digits[c \div 10]) = 1 + 1
        BY ONLY <4>1, <4>2, <4>3
      <4> QED
        BY <3>1, <4>4
    <3>2. CASE c # 100
      <4>1. c \div 10 \in Nat /\ c \div 10 < 10
        BY <3>2
      <4> QED
        BY <3>2, <4>1, LongerByOne
    <3> QED
      BY <3>1, <3>2
  <2>7. Len(Digits[c]) = IF c = 100 THEN 3 ELSE 2
    BY ONLY <2>5, <2>6
  <2> QED
    BY <1>1, <2>1, <2>2, <2>4, <2>7
<1> QED
  BY <1>4, <1>5

(* The cents of every fraction of a rupiah.                                *)
Thousandths == 0..999

CentsUpToHundred(m) == Cents(m) \in 0..100
HundredFrom995(m) == Cents(m) = 100 <=> m >= 995
WholeCentsStay(m) == m % 10 = 0 => Cents(m) = m \div 10 /\ Cents(m) # 100

LEMMA CentsInRange ==
  ASSUME NEW m \in Thousandths
  PROVE  CentsUpToHundred(m) /\ HundredFrom995(m) /\ WholeCentsStay(m)
<1>0. m \in 0..999
  BY DEF Thousandths
<1>1. m \div 10 \in 0..99 /\ m % 10 \in 0..9 /\ m = 10 * (m \div 10) + (m % 10)
      /\ (m \div 10 = 99 => (m \div 10) % 2 = 1)
  <2> DEFINE q == m \div 10
             r == m % 10
  <2>3. q \in Nat /\ r \in 0..9 /\ m = 10 * q + r
    BY <1>0, Division
  <2>1. q \in 0..99 /\ r \in 0..9 /\ m = 10 * q + r
    <3> HIDE DEF q, r
    <3> QED BY <1>0, <2>3
  <2>2. q = 99 => q % 2 = 1
    <3> HIDE DEF q
    <3>1. 99 % 2 = 1
      OBVIOUS
    <3> QED BY <3>1
  <2> QED
    BY <2>1, <2>2
<1>2. Cents(m) = IF m % 10 > 5 \/ (m % 10 = 5 /\ (m \div 10) % 2 = 1)
                 THEN m \div 10 + 1 ELSE m \div 10
  BY DEF Cents
<1> DEFINE q == m \div 10
           r == m % 10
<1>3. q \in 0..99 /\ r \in 0..9 /\ m = 10 * q + r
      /\ (q = 99 => q % 2 = 1)
      /\ Cents(m) = IF r > 5 \/ (r = 5 /\ q % 2 = 1) THEN q + 1 ELSE q
  BY <1>1, <1>2
<1> HIDE DEF q, r
<1>4. Cents(m) \in 0..100 /\ (Cents(m) = 100 <=> m >= 995)
  BY <1>3
<1>5. r = 0 => Cents(m) = q /\ Cents(m) # 100
  BY <1>3
<1> QED
  BY <1>4, <1>5 DEF q, r, CentsUpToHundred, HundredFrom995, WholeCentsStay

(* What stands before the comma, and what behind.                          *)
LEMMA AmountParts ==
  ASSUME NEW n \in Nat, NEW m \in Thousandths
  PROVE  /\ WholePart(FormatSalaryIdr(n, m)) = ByHand[n]
         /\ CentsPart(FormatSalaryIdr(n, m)) = IF Cents(m) = 0 THEN Nil ELSE Behind(Cents(m))
<1> DEFINE w == FormatSalaryIdr(n, m)
           s == ByHand[n]
           c == Cents(m)
           t == Behind(c)
<1>1. c \in 0..100
  BY CentsInRange DEF CentsUpToHundred
<1>2. w = Cat(s, CentsText(c))
  <2>1. Grouped(n) = ByHand[n]
    BY GroupedIsByHand
  <2> QED
    BY <2>1, Zenon DEF FormatSalaryIdr, Cat
<1>3. s \in Seq(Dotted) /\ s \in Seq(Character) /\ "," \in Character /\ Without(s, ",")
  BY WrittenInCharacters, DottedAreCharacters, Elsewhere
<1>4. CommaAt(w) = Find(w, ",")
  BY Zenon DEF CommaAt, Find
<1>5. t \in Seq(Character)
  BY <1>1, CentsWritten
<1>6. /\ WholePart(w) = IF CommaAt(w) = 0 THEN w ELSE Before(w, CommaAt(w))
      /\ CentsPart(w) = IF CommaAt(w) = 0 THEN Nil ELSE After(w, CommaAt(w))
  BY Zenon DEF WholePart, CentsPart, Before, After, Nil
<1>7. CASE c = 0
  <2>1. CentsText(c) = Nil
    BY <1>1, <1>7, CentsWritten
  <2> HIDE DEF w, s, c, t
  <2>2. w = s
    BY <1>2, <1>3, <2>1, NothingMore
  <2>3. Find(w, ",") = 0
    BY <1>3, <2>2, FindNone
  <2> QED
    BY <1>4, <1>6, <1>7, <2>2, <2>3 DEF w, s, c, t
<1>8. CASE c # 0
  <2>1. CentsText(c) = Cat(One(","), t)
    BY <1>1, <1>8, CentsWritten
  <2> HIDE DEF w, s, c, t
  <2>2. w = Cat(s, Cat(One(","), t))
    BY <1>2, <2>1
  <2>3. /\ Find(w, ",") # 0
        /\ Before(w, Find(w, ",")) = s /\ After(w, Find(w, ",")) = t
    <3>1. s \in Seq(Character) /\ "," \in Character /\ Without(s, ",")
      BY <1>3
    <3> QED
      <4> DEFINE comma == ","
      <4>1. s \in Seq(Character) /\ comma \in Character /\ Without(s, comma)
            /\ w = Cat(s, Cat(One(comma), t))
        BY <3>1, <2>2
      <4> HIDE DEF comma
      <4>2. /\ Find(w, comma) # 0
            /\ Before(w, Find(w, comma)) = s /\ After(w, Find(w, comma)) = t
        BY ONLY <4>1, <1>5, FindAt
      <4> QED
        BY <4>2 DEF comma
  <2>4. WholePart(w) = s /\ CentsPart(w) = t
    BY ONLY <1>4, <1>6, <2>3
  <2> QED
    BY ONLY <1>8, <2>4, Zenon DEF w, s, c, t
<1> QED
  BY <1>7, <1>8

-----------------------------------------------------------------------------
(* The walk through the inputs stays among them.                           *)

LetterTypeOK ==
  /\ template \in Seq(Piece)
  /\ salaried \in BOOLEAN /\ dated \in BOOLEAN
  /\ rupiah \in Starts /\ mills \in 0..999

(* Types: templates are made of pieces, salaries are amounts of rupiah and *)
(* thousandths (format_salary_idr's Decimal).                              *)
THEOREM LetterTypes == Spec => []LetterTypeOK
<1>1. Init => LetterTypeOK
  BY DEF Init, LetterTypeOK
<1>2. LetterTypeOK /\ [Next]_vars => LetterTypeOK'
  <2> SUFFICES ASSUME LetterTypeOK, [Next]_vars
               PROVE  LetterTypeOK'
    OBVIOUS
  <2>1. CASE Write
    BY <2>1 DEF Write, LetterTypeOK
  <2>2. CASE Raise
    BY <2>2 DEF Raise, LetterTypeOK
  <2>3. CASE UNCHANGED vars
    BY <2>3 DEF vars, LetterTypeOK
  <2> QED
    BY <2>1, <2>2, <2>3 DEF Next
<1> QED
  BY <1>1, <1>2, PTL DEF Spec

LEMMA LetterNumbers ==
  ASSUME LetterTypeOK
  PROVE  rupiah \in Nat /\ mills \in Thousandths
BY LetterAssumption DEF LetterTypeOK, Thousandths

(* The grouping loop of format_salary_idr, which counts digits from the    *)
(* left, writes every amount the way one writes it by hand.                *)
THEOREM DotsForThousands == Spec => []GroupedByThousands
<1>1. LetterTypeOK => GroupedByThousands
  <2> SUFFICES ASSUME LetterTypeOK
               PROVE  GroupedByThousands
    OBVIOUS
  <2>1. rupiah \in Nat /\ mills \in Thousandths
    BY LetterNumbers
  <2> QED
    BY <2>1, AmountParts DEF GroupedByThousands
<1> QED
  BY <1>1, LetterTypes, PTL

(* Every amount in whole cents reads back from what format_salary_idr      *)
(* wrote of it.                                                            *)
THEOREM CentsReadBack == Spec => []ReadsBackInCents
<1>1. LetterTypeOK => ReadsBackInCents
  <2> SUFFICES ASSUME LetterTypeOK, mills % 10 = 0
               PROVE  LET text == FormatSalaryIdr(rupiah, mills) IN
                      /\ NumberIn[WholePart(text)] = rupiah
                      /\ NumberIn[CentsPart(text)] = mills \div 10
                      /\ Len(CentsPart(text)) \in {0, 2}
    BY Zenon DEF ReadsBackInCents
  <2> DEFINE text == FormatSalaryIdr(rupiah, mills)
             c == Cents(mills)
  <2>1. rupiah \in Nat /\ mills \in Thousandths
    BY LetterNumbers
  <2>2. c \in 0..100 /\ c = mills \div 10 /\ c # 100
    <3>1. CentsUpToHundred(mills) /\ WholeCentsStay(mills)
      BY <2>1, CentsInRange
    <3> QED
      BY <3>1 DEF CentsUpToHundred, WholeCentsStay
  <2>3. WholePart(text) = ByHand[rupiah] /\ CentsPart(text) = IF c = 0 THEN Nil ELSE Behind(c)
    BY <2>1, AmountParts
  <2>4. NumberIn[ByHand[rupiah]] = rupiah
    BY <2>1, ByHandReads
  <2> HIDE DEF text, c
  <2>5. /\ NumberIn[Nil] = 0 /\ Len(Nil) = 0
        /\ NumberIn[Behind(c)] = c /\ (c # 0 => Len(Behind(c)) = 2)
    BY <2>2, CentsWritten, NumbersRead, OnePart
  <2>6. NumberIn[CentsPart(text)] = c /\ Len(CentsPart(text)) \in {0, 2}
    BY <2>3, <2>5
  <2> QED
    BY <2>2, <2>3, <2>4, <2>6 DEF text
<1> QED
  BY <1>1, LetterTypes, PTL

(* Where the written form goes wrong: "pad to two digits" is kept exactly  *)
(* by the amounts whose fraction is below .995; all others are written     *)
(* with three digits behind the comma.                                     *)
THEOREM CommaForCentsBelow == Spec => [](CommaForCents <=> mills < 995)
<1>1. LetterTypeOK => (CommaForCents <=> mills < 995)
  <2> SUFFICES ASSUME LetterTypeOK
               PROVE  CommaForCents <=> mills < 995
    OBVIOUS
  <2> DEFINE text == FormatSalaryIdr(rupiah, mills)
             c == Cents(mills)
  <2>1. rupiah \in Nat /\ mills \in Thousandths
    BY LetterNumbers
  <2>2. c \in 0..100 /\ (c = 100 <=> mills >= 995)
    <3>1. CentsUpToHundred(mills) /\ HundredFrom995(mills)
      BY <2>1, CentsInRange
    <3> QED
      BY <3>1 DEF CentsUpToHundred, HundredFrom995
  <2>3. CentsPart(text) = IF c = 0 THEN Nil ELSE Behind(c)
    BY <2>1, AmountParts
  <2>4. CommaForCents <=> Len(CentsPart(text)) \in {0, 2}
    BY DEF CommaForCents
  <2> HIDE DEF text, c
  <2>5. Len(Nil) = 0 /\ (c # 0 => Len(Behind(c)) = IF c = 100 THEN 3 ELSE 2)
    BY <2>2, CentsWritten, OnePart
  <2>6. Len(CentsPart(text)) = IF c = 0 THEN 0 ELSE IF c = 100 THEN 3 ELSE 2
    BY ONLY <2>3, <2>5
  <2>7. CommaForCents <=> c # 100
    BY ONLY <2>4, <2>6
  <2>8. mills \in Int
    BY <2>1 DEF Thousandths
  <2> QED
    BY <2>2, <2>7, <2>8
<1> QED
  BY <1>1, LetterTypes, PTL

-----------------------------------------------------------------------------
(* What trimming leaves.                                                   *)
FirstOther(s, z) == SelectInSeq(s, LAMBDA c : c # z)
LastOther(s, z)  == SelectLastInSeq(s, LAMBDA c : c # z)

LEMMA OthersNone ==
  ASSUME NEW S, NEW s \in Seq(S), NEW z, Only(s, z)
  PROVE  FirstOther(s, z) = 0 /\ LastOther(s, z) = 0
<1>1. {i \in 1..Len(s) : s[i] # z} = {}
  BY DEF Only
<1> QED
  BY <1>1, Zenon DEF FirstOther, LastOther, SelectInSeq, SelectLastInSeq

LEMMA FirstOtherAt ==
  ASSUME NEW S, NEW a \in Seq(S), NEW b \in Seq(S), NEW x \in S, NEW z, Only(a, z), x # z,
         NEW w, w = Cat(a, Cat(One(x), b))
  PROVE  /\ FirstOther(w, z) = Len(a) + 1 /\ FirstOther(w, z) # 0
         /\ SubSeq(w, FirstOther(w, z), Len(w)) = Cat(One(x), b)
<1>1. w = a \o (<<x>> \o b)
  BY DEF Cat, One
<1>2. /\ Len(a) \in Nat /\ Len(b) \in Nat /\ Len(w) = Len(a) + 1 + Len(b)
      /\ \A i \in 1..Len(a) : w[i] = a[i]
      /\ w[Len(a) + 1] = x
  BY <1>1
<1>3. SubSeq(w, Len(a) + 1, Len(w)) = <<x>> \o b
  BY <1>1, <1>2
<1> DEFINE I == {i \in 1..Len(w) : w[i] # z}
           k == Len(a) + 1
<1>4. k \in I /\ k \in Nat /\ k # 0 /\ \A i \in I : i \in Nat /\ k <= i
  BY <1>2 DEF Only
<1>5. FirstOther(w, z) = IF I # {} THEN Min(I) ELSE 0
  BY Zenon DEF SelectInSeq, FirstOther
<1> HIDE DEF I, k
<1>7. Min(I) = k
  <2>1. \A i \in I : (\A j \in I : i <= j) => i = k
    BY <1>4
  <2>2. \E i \in I : \A j \in I : i <= j
    BY <1>4
  <2> QED
    BY <2>1, <2>2 DEF Min
<1>8. FirstOther(w, z) = k
  BY <1>4, <1>5, <1>7
<1> QED
  BY <1>3, <1>4, <1>8, Zenon DEF Cat, One, k

LEMMA LastOtherAt ==
  ASSUME NEW S, NEW f \in Seq(S), NEW b \in Seq(S), NEW z, Only(b, z),
         f # Nil, Last(f) # z,
         NEW w, w = Cat(f, b)
  PROVE  SubSeq(w, 1, LastOther(w, z)) = f
<1>2. Len(f) \in 1..Len(f) /\ f[Len(f)] # z
  BY DEF Nil, Last
<1>3. w = f \o b
  BY DEF Cat
<1>4. /\ Len(f) \in Nat /\ Len(b) \in Nat /\ Len(w) = Len(f) + Len(b)
      /\ \A i \in 1..Len(f) : w[i] = f[i]
      /\ \A i \in 1..Len(b) : w[Len(f) + i] = b[i]
  BY Parts
<1>5. SubSeq(w, 1, Len(f)) = f
  BY <1>3
<1> DEFINE I == {i \in 1..Len(w) : w[i] # z}
           k == Len(f)
<1>6. k \in I /\ k \in Nat
  BY <1>2, <1>4
<1>7. ASSUME NEW i \in I
      PROVE  i \in Nat /\ k >= i
  <2>1. i \in 1..Len(w) /\ w[i] # z
    OBVIOUS
  <2>2. ASSUME ~ (k >= i)
        PROVE  FALSE
    <3>1. i - Len(f) \in 1..Len(b) /\ Len(f) + (i - Len(f)) = i
      BY <2>1, <2>2, <1>4
    <3>2. w[i] = b[i - Len(f)]
      BY <3>1, <1>4
    <3> QED
      BY <2>1, <3>1, <3>2 DEF Only
  <2> QED
    BY <2>1, <2>2
<1>8. LastOther(w, z) = IF I # {} THEN Max(I) ELSE 0
  BY Zenon DEF SelectLastInSeq, LastOther
<1> HIDE DEF I, k
<1>10. Max(I) = k
  <2>1. \A i \in I : (\A j \in I : i >= j) => i = k
    BY <1>6, <1>7
  <2>2. \E i \in I : \A j \in I : i >= j
    BY <1>6, <1>7
  <2> QED
    BY <2>1, <2>2 DEF Max
<1>11. LastOther(w, z) = k
  BY <1>6, <1>8, <1>10
<1> QED
  BY <1>5, <1>11 DEF k
LEMMA TrimIs ==
  \A s : /\ TrimStart(s) = IF FirstOther(s, Space) = 0 THEN Nil
                            ELSE SubSeq(s, FirstOther(s, Space), Len(s))
         /\ TrimEnd(s) = SubSeq(s, 1, LastOther(s, Space))
  BY Zenon DEF TrimStart, TrimEnd, FirstOther, LastOther, Nil, Space

LEMMA TrimNone ==
  ASSUME NEW S, NEW s \in Seq(S), Blank(s)
  PROVE  TrimStart(s) = Nil /\ TrimEnd(s) = Nil
<1>1. FirstOther(s, Space) = 0 /\ LastOther(s, Space) = 0
  BY OthersNone DEF Blank
<1>2. SubSeq(s, 1, 0) = Nil
  BY DEF Nil
<1> QED
  BY <1>1, <1>2, TrimIs, Zenon

LEMMA TrimStartAt ==
  ASSUME NEW S, NEW a \in Seq(S), NEW b \in Seq(S), NEW x \in S, Blank(a), x # Space
  PROVE  TrimStart(Cat(a, Cat(One(x), b))) = Cat(One(x), b)
<1> DEFINE w == Cat(a, Cat(One(x), b))
<1>1. /\ FirstOther(w, Space) # 0
      /\ SubSeq(w, FirstOther(w, Space), Len(w)) = Cat(One(x), b)
  BY FirstOtherAt DEF Blank
<1> QED
  BY <1>1, TrimIs, Zenon

LEMMA TrimEndAt ==
  ASSUME NEW S, NEW a \in Seq(S), NEW b \in Seq(S), NEW x \in S, Blank(b), x # Space
  PROVE  TrimEnd(Cat(a, Cat(One(x), b))) = Cat(a, One(x))
<1>1. One(x) \in Seq(S) /\ Cat(a, One(x)) \in Seq(S)
  BY Typed
<1>2. Cat(Cat(a, One(x)), b) = Cat(a, Cat(One(x), b))
  BY <1>1, Together
<1>3. Cat(a, One(x)) # Nil /\ Last(Cat(a, One(x))) = x
  BY OneMore
<1> DEFINE f == Cat(a, One(x))
<1>4. f \in Seq(S) /\ f # Nil /\ Last(f) = x
  BY <1>1, <1>3
<1> HIDE DEF f
<1>5. SubSeq(Cat(f, b), 1, LastOther(Cat(f, b), Space)) = f
  BY <1>4, LastOtherAt DEF Blank
<1> QED
  BY <1>2, <1>5, TrimIs, Zenon DEF f

(* Every text is blank, or stands between its blanks.                      *)
LEMMA TrimTyped ==
  ASSUME NEW S, NEW s \in Seq(S)
  PROVE  TrimStart(s) \in Seq(S) /\ TrimEnd(s) \in Seq(S) /\ Trim(s) \in Seq(S)
<1>1. \A t \in Seq(S) : TrimStart(t) \in Seq(S)
  <2> TAKE t \in Seq(S)
  <2>1. CASE Blank(t)
    BY <2>1, TrimNone, Typed
  <2>2. CASE ~ Blank(t)
    <3>1. PICK a, b \in Seq(S), x \in S : Blank(a) /\ x # Space /\ t = Cat(a, Cat(One(x), b))
      BY <2>2, AroundFirst
    <3>2. One(x) \in Seq(S) /\ Cat(One(x), b) \in Seq(S)
      BY Typed
    <3> QED
      BY <3>1, <3>2, TrimStartAt
  <2> QED
    BY <2>1, <2>2
<1>2. TrimEnd(s) \in Seq(S)
  <2>1. CASE Blank(s)
    BY <2>1, TrimNone, Typed
  <2>2. CASE ~ Blank(s)
    <3>1. PICK a, b \in Seq(S), x \in S : Blank(b) /\ x # Space /\ s = Cat(a, Cat(One(x), b))
      BY <2>2, AroundLast
    <3>2. One(x) \in Seq(S) /\ Cat(a, One(x)) \in Seq(S)
      BY Typed
    <3> QED
      BY <3>1, <3>2, TrimEndAt
  <2> QED
    BY <2>1, <2>2
<1> QED
  BY <1>1, <1>2 DEF Trim

(* Blanks in front and behind make no difference to it, and what stands    *)
(* behind a symbol is trimmed at the end apart from it.                    *)
LEMMA TrimStartPast ==
  ASSUME NEW S, NEW r \in Seq(S), NEW s \in Seq(S), Blank(r)
  PROVE  TrimStart(Cat(r, s)) = TrimStart(s)
<1>1. CASE Blank(s)
  <2>1. Cat(r, s) \in Seq(S) /\ Blank(Cat(r, s))
    BY <1>1, Typed, BlankBoth
  <2> QED
    BY <1>1, <2>1, TrimNone
<1>2. CASE ~ Blank(s)
  <2>1. PICK a, b \in Seq(S), x \in S : Blank(a) /\ x # Space /\ s = Cat(a, Cat(One(x), b))
    BY <1>2, AroundFirst
  <2>2. One(x) \in Seq(S) /\ Cat(One(x), b) \in Seq(S) /\ Cat(r, a) \in Seq(S)
        /\ Blank(Cat(r, a))
    BY <2>1, Typed, BlankBoth
  <2>3. Cat(r, s) = Cat(Cat(r, a), Cat(One(x), b))
    BY <2>1, <2>2, Together
  <2>4. TrimStart(Cat(Cat(r, a), Cat(One(x), b))) = Cat(One(x), b)
    BY <2>1, <2>2, TrimStartAt
  <2>5. TrimStart(s) = Cat(One(x), b)
    BY <2>1, TrimStartAt
  <2> QED
    BY <2>3, <2>4, <2>5
<1> QED
  BY <1>1, <1>2

LEMMA TrimEndUpTo ==
  ASSUME NEW S, NEW s \in Seq(S), NEW u \in Seq(S), Blank(u)
  PROVE  TrimEnd(Cat(s, u)) = TrimEnd(s)
<1>1. CASE Blank(s)
  <2>1. Cat(s, u) \in Seq(S) /\ Blank(Cat(s, u))
    BY <1>1, Typed, BlankBoth
  <2> QED
    BY <1>1, <2>1, TrimNone
<1>2. CASE ~ Blank(s)
  <2>1. PICK a, b \in Seq(S), x \in S : Blank(b) /\ x # Space /\ s = Cat(a, Cat(One(x), b))
    BY <1>2, AroundLast
  <2>2. One(x) \in Seq(S) /\ Cat(One(x), b) \in Seq(S) /\ Cat(b, u) \in Seq(S)
        /\ Blank(Cat(b, u))
    BY <2>1, Typed, BlankBoth
  <2>3. Cat(Cat(a, Cat(One(x), b)), u) = Cat(a, Cat(Cat(One(x), b), u))
    BY <2>2, Together
  <2>4. Cat(Cat(One(x), b), u) = Cat(One(x), Cat(b, u))
    BY <2>2, Together
  <2>5. TrimEnd(Cat(a, Cat(One(x), Cat(b, u)))) = Cat(a, One(x))
    BY <2>1, <2>2, TrimEndAt
  <2>6. TrimEnd(s) = Cat(a, One(x))
    BY <2>1, TrimEndAt
  <2> QED
    BY <2>1, <2>3, <2>4, <2>5, <2>6
<1> QED
  BY <1>1, <1>2

LEMMA TrimEndBehind ==
  ASSUME NEW S, NEW a \in Seq(S), NEW x \in S, NEW t \in Seq(S), x # Space
  PROVE  TrimEnd(Cat(a, Cat(One(x), t))) = Cat(a, Cat(One(x), TrimEnd(t)))
<1>0. One(x) \in Seq(S) /\ Nil \in Seq(S)
  BY Typed
<1>1. CASE Blank(t)
  <2>1. TrimEnd(t) = Nil /\ TrimEnd(Cat(a, Cat(One(x), t))) = Cat(a, One(x))
    BY <1>1, TrimNone, TrimEndAt
  <2>2. Cat(One(x), Nil) = One(x)
    BY <1>0, NothingMore
  <2> QED
    BY <2>1, <2>2
<1>2. CASE ~ Blank(t)
  <2>1. PICK c, d \in Seq(S), y \in S : Blank(d) /\ y # Space /\ t = Cat(c, Cat(One(y), d))
    BY <1>2, AroundLast
  <2>2. TrimEnd(t) = Cat(c, One(y))
    BY <2>1, TrimEndAt
  <2> DEFINE e == Cat(a, Cat(One(x), c))
             f == Cat(One(y), d)
  <2>3. /\ One(y) \in Seq(S) /\ f \in Seq(S) /\ Cat(One(x), c) \in Seq(S) /\ e \in Seq(S)
        /\ Cat(c, f) \in Seq(S) /\ Cat(c, One(y)) \in Seq(S)
    BY <1>0, Typed
  <2>4. TrimEnd(Cat(e, f)) = Cat(e, One(y))
    <3> HIDE DEF e
    <3> QED BY <2>1, <2>3, TrimEndAt
  <2>5. \A g \in Seq(S) : Cat(e, g) = Cat(a, Cat(One(x), Cat(c, g)))
    <3> TAKE g \in Seq(S)
    <3>1. Cat(Cat(a, Cat(One(x), c)), g) = Cat(a, Cat(Cat(One(x), c), g))
      BY <2>3, Together
    <3>2. Cat(Cat(One(x), c), g) = Cat(One(x), Cat(c, g))
      BY <1>0, Together
    <3> QED
      BY <3>1, <3>2
  <2> HIDE DEF e
  <2> QED
    BY <2>1, <2>2, <2>3, <2>4, <2>5
<1> QED
  BY <1>1, <1>2

(* Wording between blanks, trimmed at both ends in either way that render  *)
(* trims it, is the wording trimmed; a symbol between blanks is itself.    *)
LEMMA TrimBetween ==
  ASSUME NEW S, NEW r \in Seq(S), NEW f \in Seq(S), NEW u \in Seq(S), Blank(r), Blank(u)
  PROVE  TrimStart(TrimEnd(Cat(r, Cat(f, u)))) = Trim(f)
<1>1. Cat(r, f) \in Seq(S) /\ Cat(Cat(r, f), u) = Cat(r, Cat(f, u))
  BY Typed, Together
<1>2. TrimEnd(Cat(r, Cat(f, u))) = TrimEnd(Cat(r, f))
  BY <1>1, TrimEndUpTo
<1>3. CASE Blank(f)
  <2>1. Blank(Cat(r, f))
    BY <1>3, BlankBoth
  <2>2. TrimEnd(Cat(r, f)) = Nil /\ TrimEnd(f) = Nil
    BY <1>1, <1>3, <2>1, TrimNone
  <2> QED
    BY <1>2, <2>2 DEF Trim
<1>4. CASE ~ Blank(f)
  <2>1. PICK a, b \in Seq(S), x \in S : Blank(b) /\ x # Space /\ f = Cat(a, Cat(One(x), b))
    BY <1>4, AroundLast
  <2>2. TrimEnd(f) = Cat(a, One(x))
    BY <2>1, TrimEndAt
  <2>3. /\ One(x) \in Seq(S) /\ Cat(One(x), b) \in Seq(S) /\ Cat(r, a) \in Seq(S)
        /\ Cat(a, One(x)) \in Seq(S)
    BY Typed
  <2>4. Cat(r, f) = Cat(Cat(r, a), Cat(One(x), b))
    BY <2>1, <2>3, Together
  <2>5. TrimEnd(Cat(r, f)) = Cat(Cat(r, a), One(x))
    BY <2>1, <2>3, <2>4, TrimEndAt
  <2>6. Cat(Cat(r, a), One(x)) = Cat(r, Cat(a, One(x)))
    BY <2>3, Together
  <2>7. TrimStart(Cat(r, Cat(a, One(x)))) = TrimStart(Cat(a, One(x)))
    BY <2>3, TrimStartPast
  <2> QED
    BY <1>2, <2>2, <2>5, <2>6, <2>7 DEF Trim
<1> QED
  BY <1>3, <1>4

LEMMA TrimSymbol ==
  ASSUME NEW S, NEW r \in Seq(S), NEW x \in S, NEW u \in Seq(S), Blank(r), Blank(u), x # Space
  PROVE  Trim(Cat(r, Cat(One(x), u))) = One(x)
<1>1. One(x) \in Seq(S) /\ Nil \in Seq(S) /\ Cat(One(x), Nil) = One(x)
  BY Typed, NothingMore
<1>2. TrimEnd(Cat(r, Cat(One(x), u))) = Cat(r, Cat(One(x), Nil))
  BY <1>1, TrimEndAt
<1>3. TrimStart(Cat(r, Cat(One(x), Nil))) = Cat(One(x), Nil)
  BY <1>1, TrimStartAt
<1> QED
  BY <1>1, <1>2, <1>3 DEF Trim

-----------------------------------------------------------------------------
(* A text and its first token.                                             *)

Opening == "{{"
Closing == "}}"
Bar     == "|"

LEMMA Marks ==
  /\ Opening \in Symbol /\ Closing \in Symbol /\ Bar \in Symbol /\ Space \in Symbol
  /\ Opening # Closing /\ Opening # Bar /\ Opening # Space
  /\ Closing # Bar /\ Closing # Space /\ Bar # Space
  BY SymbolAssumption DEF Opening, Closing, Bar, Space

Ahead(s)   == Before(s, Find(s, Opening))
Inner(s)   == After(s, Find(s, Opening))
Token(s)   == Before(Inner(s), Find(Inner(s), Closing))
Following(s) == After(Inner(s), Find(Inner(s), Closing))
Literal(s) == Find(s, Opening) = 0 \/ Find(Inner(s), Closing) = 0

LEMMA LiteralWithout ==
  ASSUME NEW s \in Seq(Symbol), Without(s, Opening)
  PROVE  Literal(s)
  BY FindNone DEF Literal

LEMMA LiteralUnclosed ==
  ASSUME NEW a \in Seq(Symbol), NEW b \in Seq(Symbol), Without(a, Opening), Without(b, Closing)
  PROVE  Literal(Cat(a, Cat(One(Opening), b)))
<1> DEFINE w == Cat(a, Cat(One(Opening), b))
<1>1. After(w, Find(w, Opening)) = b
  <2> HIDE DEF w
  <2>1. w = Cat(a, Cat(One(Opening), b)) /\ Opening \in Symbol
    BY Marks DEF w
  <2> QED
    BY <2>1, FindAt
<1>2. Find(b, Closing) = 0
  BY FindNone
<1> HIDE DEF w
<1>3. Literal(w)
  BY <1>1, <1>2 DEF Literal, Inner
<1> QED
  BY <1>3 DEF w

LEMMA TokenAt ==
  ASSUME NEW a \in Seq(Symbol), NEW mid \in Seq(Symbol), NEW rest \in Seq(Symbol),
         Without(a, Opening), Without(mid, Closing),
         NEW w, w = Cat(a, Cat(One(Opening), Cat(mid, Cat(One(Closing), rest))))
  PROVE  ~ Literal(w) /\ Ahead(w) = a /\ Token(w) = mid /\ Following(w) = rest
<1>1. /\ Opening \in Symbol /\ Closing \in Symbol /\ One(Closing) \in Seq(Symbol)
      /\ Cat(One(Closing), rest) \in Seq(Symbol)
      /\ Cat(mid, Cat(One(Closing), rest)) \in Seq(Symbol)
  BY Marks, Typed
<1> DEFINE b == Cat(mid, Cat(One(Closing), rest))
<1>2. /\ Find(b, Closing) # 0
      /\ Before(b, Find(b, Closing)) = mid /\ After(b, Find(b, Closing)) = rest
  <2>1. b \in Seq(Symbol)
    BY <1>1
  <2>2. b = Cat(mid, Cat(One(Closing), rest))
    OBVIOUS
  <2> HIDE DEF b
  <2> QED BY <1>1, <2>1, <2>2, FindAt
<1>3. b \in Seq(Symbol) /\ w = Cat(a, Cat(One(Opening), b))
  BY <1>1
<1> HIDE DEF b
<1>4. Find(w, Opening) # 0 /\ Before(w, Find(w, Opening)) = a /\ After(w, Find(w, Opening)) = b
  BY <1>1, <1>3, FindAt
<1> QED
  BY <1>2, <1>4, Zenon DEF Literal, Ahead, Inner, Token, Following

LEMMA TokenSplit ==
  ASSUME NEW s \in Seq(Symbol), ~ Literal(s)
  PROVE  /\ Ahead(s) \in Seq(Symbol) /\ Token(s) \in Seq(Symbol) /\ Following(s) \in Seq(Symbol)
         /\ Without(Ahead(s), Opening) /\ Without(Token(s), Closing)
         /\ s = Cat(Ahead(s), Cat(One(Opening), Cat(Token(s), Cat(One(Closing), Following(s)))))
         /\ Len(Following(s)) < Len(s) /\ Len(s) \in Nat
<1>0. Opening \in Symbol /\ Closing \in Symbol
  BY Marks
<1>1. PICK a, b \in Seq(Symbol) :
        Without(a, Opening) /\ s = Cat(a, Cat(One(Opening), b)) /\ Len(b) < Len(s)
  BY <1>0, LiteralWithout, Around
<1>2. ~ Without(b, Closing)
  BY <1>1, LiteralUnclosed
<1>3. PICK mid, rest \in Seq(Symbol) :
        Without(mid, Closing) /\ b = Cat(mid, Cat(One(Closing), rest)) /\ Len(rest) < Len(b)
  BY <1>0, <1>2, Around
<1>4. Ahead(s) = a /\ Token(s) = mid /\ Following(s) = rest
  BY <1>1, <1>3, TokenAt
<1>5. Len(rest) \in Nat /\ Len(b) \in Nat /\ Len(s) \in Nat
  OBVIOUS
<1> QED
  BY <1>1, <1>3, <1>4, <1>5

-----------------------------------------------------------------------------
(* Rendering, one token at a time.                                         *)

(* The variables that render is given.                                     *)
Variables(v) == \A n \in DOMAIN v : v[n] \in Seq(Symbol) \cup {Null}

LEMMA FallbackTyped ==
  ASSUME NEW t \in Seq(Symbol), HasFallback(t)
  PROVE  FallbackIn(t) \in Seq(Symbol)
<1>1. Find(t, Bar) # 0 /\ FallbackIn(t) = TrimStart(After(t, Find(t, Bar)))
  BY Zenon DEF HasFallback, FallbackIn, Bar
<1>2. Bar \in Symbol /\ ~ Without(t, Bar)
  BY <1>1, Marks, FindNone
<1>3. PICK a, b \in Seq(Symbol) : Without(a, Bar) /\ t = Cat(a, Cat(One(Bar), b))
  BY <1>2, Around
<1>4. After(t, Find(t, Bar)) = b
  BY <1>2, <1>3, FindAt
<1> QED
  BY <1>1, <1>4, TrimTyped

LEMMA ReplaceTyped ==
  ASSUME NEW v, Variables(v), NEW t \in Seq(Symbol)
  PROVE  Replace(v, t) \in Seq(Symbol)
<1> DEFINE name == NameIn(t)
           braced == <<"{{">> \o t \o <<"}}">>
           value == v[name[1]]
<1>1. Replace(v, t) = IF Known(v, name) /\ value # Null THEN value
                      ELSE IF HasFallback(t) THEN FallbackIn(t)
                      ELSE IF Known(v, name) THEN Nil ELSE braced
  BY Zenon DEF Replace, Nil
<1>2. Known(v, name) => value \in Seq(Symbol) \cup {Null}
  BY DEF Known, Variables
<1>3. braced \in Seq(Symbol) /\ Nil \in Seq(Symbol)
  <2>1. braced = Cat(Cat(One(Opening), t), One(Closing))
    BY Zenon DEF Cat, One, Opening, Closing
  <2> HIDE DEF braced
  <2> QED
    BY <2>1, Marks, Typed
<1>4. HasFallback(t) => FallbackIn(t) \in Seq(Symbol)
  BY FallbackTyped
<1> HIDE DEF name, braced, value
<1> QED
  BY <1>1, <1>2, <1>3, <1>4

RenderRule(v, g) ==
  g = [s \in Seq(Symbol) |->
         IF Literal(s) THEN s
         ELSE Cat(Cat(Ahead(s), Replace(v, Trim(Token(s)))), g[Following(s)])]

LEMMA RenderExists ==
  ASSUME NEW v, Variables(v)
  PROVE  \E g \in [Seq(Symbol) -> Seq(Symbol)] : RenderRule(v, g)
<1> DEFINE D == Seq(Symbol)
           m == [s \in D |-> Len(s)]
           Stop == {s \in D : Literal(s)}
           base == [s \in D |-> s]
           down == [s \in D |-> IF Literal(s) THEN s ELSE Following(s)]
           front(s) == Cat(Ahead(s), Replace(v, Trim(Token(s))))
           step == [s \in D |-> [t \in D |-> IF Literal(s) THEN t ELSE Cat(front(s), t)]]
<1>1. ASSUME NEW s \in D, ~ Literal(s)
      PROVE  front(s) \in D /\ Following(s) \in D /\ Len(Following(s)) < Len(s)
  <2>1. /\ Ahead(s) \in Seq(Symbol) /\ Token(s) \in Seq(Symbol) /\ Following(s) \in Seq(Symbol)
        /\ Len(Following(s)) < Len(s)
    BY <1>1, TokenSplit
  <2>2. Trim(Token(s)) \in Seq(Symbol)
    BY <2>1, TrimTyped
  <2>3. Replace(v, Trim(Token(s))) \in Seq(Symbol)
    BY <2>2, ReplaceTyped
  <2> QED
    BY <2>1, <2>3, Typed
<1> HIDE DEF front
<1>2. PICK g \in [D -> D] : Recurs(g, D, Stop, base, down, step)
  <2>1. m \in [D -> Nat] /\ Stop \in SUBSET D /\ base \in [D -> D]
    OBVIOUS
  <2>2. down \in [D -> D]
    <3> HIDE DEF D
    <3> QED BY <1>1
  <2>3. step \in [D -> [D -> D]]
    <3>1. \A s, t \in D : (IF Literal(s) THEN t ELSE Cat(front(s), t)) \in D
      BY <1>1, Typed
    <3> HIDE DEF D
    <3> QED BY <3>1
  <2>4. \A s \in D \ Stop : m[down[s]] < m[s]
    <3> HIDE DEF D
    <3>1. \A s \in D \ Stop : ~ Literal(s) /\ s \in D
      OBVIOUS
    <3>2. \A s \in D \ Stop : down[s] = Following(s) /\ Following(s) \in D /\ m[s] = Len(s)
      BY <1>1
    <3>3. \A s \in D : m[s] = Len(s)
      OBVIOUS
    <3> HIDE DEF down, m, Stop
    <3> QED BY <1>1, <3>1, <3>2, <3>3
  <2> HIDE DEF D, m, Stop, base, down, step
  <2>5. Descends(D, D, m, Stop, base, down, step)
    BY <2>1, <2>2, <2>3, <2>4 DEF Descends
  <2> QED
    BY <2>5, RecursionExists
<1>3. ASSUME NEW s \in D
      PROVE  g[s] = IF Literal(s) THEN s ELSE Cat(front(s), g[Following(s)])
  <2> HIDE DEF D
  <2>1. g[s] = IF s \in Stop THEN base[s] ELSE step[s][g[down[s]]]
    BY <1>2 DEF Recurs
  <2>2. base[s] = s /\ (s \in Stop <=> Literal(s))
    OBVIOUS
  <2>3. ASSUME ~ Literal(s)
        PROVE  down[s] = Following(s) /\ g[Following(s)] \in D
               /\ step[s][g[Following(s)]] = Cat(front(s), g[Following(s)])
    <3>1. Following(s) \in D
      BY <1>1, <2>3
    <3>2. g[Following(s)] \in D
      BY <3>1
    <3> QED
      BY <2>3, <3>1, <3>2
  <2> HIDE DEF base, step, down, Stop
  <2> QED
    BY ONLY <2>1, <2>2, <2>3
<1>4. g = [s \in D |-> IF Literal(s) THEN s ELSE Cat(front(s), g[Following(s)])]
  <2> HIDE DEF D
  <2>1. g = [s \in D |-> g[s]]
    BY <1>2, Zenon
  <2> QED
    BY <1>3, <2>1, Zenon
<1>5. RenderRule(v, g)
  BY ONLY <1>4, Zenon DEF RenderRule, D, front
<1> QED
  BY <1>2, <1>5

LEMMA RenderUnfold ==
  ASSUME NEW v, Variables(v), NEW s \in Seq(Symbol)
  PROVE  /\ Render(v, s) \in Seq(Symbol)
         /\ Render(v, s) = IF Literal(s) THEN s
                           ELSE Cat(Cat(Ahead(s), Replace(v, Trim(Token(s)))), Render(v, Following(s)))
<1> DEFINE D == Seq(Symbol)
           front(x) == Cat(Ahead(x), Replace(v, Trim(Token(x))))
           asWritten(g, rest) ==
             LET open  == Find(rest, "{{")
                 inner == After(rest, open)
                 close == Find(inner, "}}")
             IN IF open = 0 THEN rest
                ELSE IF close = 0 THEN Unterminated(rest, open)
                ELSE Before(rest, open) \o Replace(v, Trim(Before(inner, close)))
                       \o g[After(inner, close)]
           Rule(g) == g = [rest \in Seq(Symbol) |-> asWritten(g, rest)]
           R == CHOOSE g : Rule(g)
<1>1. \A x \in D : Render(v, x) = R[x]
  BY ONLY Zenon DEF Render
<1>2. ASSUME NEW g, NEW x
      PROVE  asWritten(g, x) = IF Literal(x) THEN x ELSE Cat(front(x), g[Following(x)])
  <2>1. CASE Find(x, Opening) = 0
    BY <2>1, Zenon DEF Literal, Opening
  <2>2. CASE Find(x, Opening) # 0 /\ Find(Inner(x), Closing) = 0
    BY <2>2, Zenon DEF Literal, Inner, Opening, Closing, Unterminated
  <2>3. CASE Find(x, Opening) # 0 /\ Find(Inner(x), Closing) # 0
    <3>1. ~ Literal(x)
      BY <2>3, Zenon DEF Literal
    <3>2. asWritten(g, x) = Cat(front(x), g[Following(x)])
      BY <2>3, Zenon DEF Inner, Ahead, Token, Following, Opening, Closing, Cat
    <3> QED
      BY <3>1, <3>2, Zenon
  <2> QED
    BY <2>1, <2>2, <2>3, Zenon
<1> HIDE DEF asWritten
<1>3. \A g : Rule(g) <=> RenderRule(v, g)
  <2> TAKE g
  <2>1. [x \in D |-> asWritten(g, x)]
          = [x \in D |-> IF Literal(x) THEN x ELSE Cat(front(x), g[Following(x)])]
    BY <1>2, Zenon
  <2> QED
    BY <2>1, Zenon DEF RenderRule
<1>4. \E g : Rule(g)
  BY <1>3, RenderExists, Zenon
<1> HIDE DEF Rule
<1>5. Rule(R)
  BY <1>4, Zenon
<1>6. R = [x \in D |-> IF Literal(x) THEN x ELSE Cat(front(x), R[Following(x)])]
  BY <1>3, <1>5, Zenon DEF RenderRule
<1> HIDE DEF R
<1>7. \A x \in D : R[x] = IF Literal(x) THEN x ELSE Cat(front(x), R[Following(x)])
  <2> HIDE DEF D, front
  <2> QED BY <1>6
<1>8. \A x \in D : ~ Literal(x) => Following(x) \in D /\ front(x) \in D /\ Len(Following(x)) < Len(x)
  <2> TAKE x \in D
  <2> SUFFICES ASSUME ~ Literal(x)
               PROVE  Following(x) \in D /\ front(x) \in D /\ Len(Following(x)) < Len(x)
    OBVIOUS
  <2>1. /\ Ahead(x) \in Seq(Symbol) /\ Token(x) \in Seq(Symbol) /\ Following(x) \in Seq(Symbol)
        /\ Len(Following(x)) < Len(x)
    BY TokenSplit
  <2>2. Replace(v, Trim(Token(x))) \in Seq(Symbol)
    BY <2>1, TrimTyped, ReplaceTyped
  <2> QED
    BY <2>1, <2>2, Typed
<1>9. \A x \in D : R[x] \in D
  <2> DEFINE T == {x \in D : R[x] \in D}
             m == [x \in D |-> Len(x)]
  <2>1. m \in [D -> Nat] /\ \A x \in D : m[x] = Len(x)
    OBVIOUS
  <2>2. \A x \in D : (\A y \in D : m[y] < m[x] => y \in T) => x \in T
    <3> HIDE DEF m
    <3> TAKE x \in D
    <3> SUFFICES ASSUME \A y \in D : m[y] < m[x] => y \in T
                 PROVE  R[x] \in D
      OBVIOUS
    <3>1. CASE Literal(x)
      BY <1>7, <3>1
    <3>2. CASE ~ Literal(x)
      <4>1. Following(x) \in D /\ front(x) \in D /\ m[Following(x)] < m[x]
        BY <1>8, <2>1, <3>2
      <4>2. R[Following(x)] \in D
        BY <4>1
      <4>3. Cat(front(x), R[Following(x)]) \in D
        BY <4>1, <4>2, Typed
      <4> QED
        BY <1>7, <3>2, <4>3
    <3> QED
      BY <3>1, <3>2
  <2> HIDE DEF T, m, D
  <2>3. \A x \in D : x \in T
    BY ONLY <2>1, <2>2, MeasureInduction
  <2> QED
    BY <2>3 DEF T
<1> HIDE DEF front
<1>10. R[s] \in D /\ Render(v, s) = R[s]
  BY <1>1, <1>9
<1>11. ~ Literal(s) => Render(v, Following(s)) = R[Following(s)]
  BY <1>1, <1>8
<1>12. Render(v, s) = IF Literal(s) THEN s ELSE Cat(front(s), Render(v, Following(s)))
  BY <1>7, <1>10, <1>11
<1> QED
  BY <1>10, <1>12 DEF front

(* Text that opens no token is kept, whatever stands behind it; a token is *)
(* replaced, and what stands behind it is rendered on its own.             *)
LEMMA TextKept ==
  ASSUME NEW v, Variables(v), NEW a \in Seq(Symbol), NEW s \in Seq(Symbol), Without(a, Opening)
  PROVE  Render(v, Cat(a, s)) = Cat(a, Render(v, s))
<1>1. /\ Opening \in Symbol /\ Closing \in Symbol /\ Cat(a, s) \in Seq(Symbol)
      /\ One(Opening) \in Seq(Symbol) /\ One(Closing) \in Seq(Symbol)
  BY Marks, Typed
<1>2. CASE Literal(s)
  <2>1. Literal(Cat(a, s))
    <3>1. CASE Without(s, Opening)
      BY <1>1, <3>1, WithoutBoth, LiteralWithout
    <3>2. CASE ~ Without(s, Opening)
      <4>1. PICK c, b \in Seq(Symbol) : Without(c, Opening) /\ s = Cat(c, Cat(One(Opening), b))
        BY <1>1, <3>2, Around
      <4>2. Without(b, Closing)
        <5>1. SUFFICES ASSUME ~ Without(b, Closing)
                       PROVE  FALSE
          OBVIOUS
        <5>2. PICK mid, rest \in Seq(Symbol) : Without(mid, Closing) /\ b = Cat(mid, Cat(One(Closing), rest))
          BY <1>1, <5>1, Around
        <5>3. ~ Literal(s)
          BY <4>1, <5>2, TokenAt
        <5> QED
          BY <1>2, <5>3
      <4>3. /\ Cat(One(Opening), b) \in Seq(Symbol) /\ Cat(a, c) \in Seq(Symbol)
            /\ Without(Cat(a, c), Opening)
        BY <1>1, <4>1, Typed, WithoutBoth
      <4>4. Cat(a, s) = Cat(Cat(a, c), Cat(One(Opening), b))
        BY <4>1, <4>3, Together
      <4> QED
        BY <4>2, <4>3, <4>4, LiteralUnclosed
    <3> QED
      BY <3>1, <3>2
  <2> QED
    BY <1>1, <1>2, <2>1, RenderUnfold
<1>3. CASE ~ Literal(s)
  <2> DEFINE h == Ahead(s)
             tail == Cat(One(Opening), Cat(Token(s), Cat(One(Closing), Following(s))))
             r == Replace(v, Trim(Token(s)))
             R == Render(v, Following(s))
  <2>1. /\ h \in Seq(Symbol) /\ Token(s) \in Seq(Symbol) /\ Following(s) \in Seq(Symbol)
        /\ Without(h, Opening) /\ Without(Token(s), Closing) /\ s = Cat(h, tail)
    BY <1>3, TokenSplit
  <2>2. tail \in Seq(Symbol)
    BY <1>1, <2>1, Typed
  <2>3. Cat(a, h) \in Seq(Symbol) /\ Without(Cat(a, h), Opening)
    <3> HIDE DEF h
    <3> QED BY <2>1, Typed, WithoutBoth
  <2>4. Cat(a, s) = Cat(Cat(a, h), tail)
    <3> HIDE DEF h, tail
    <3> QED BY <2>1, <2>2, Together
  <2>5. /\ ~ Literal(Cat(a, s)) /\ Ahead(Cat(a, s)) = Cat(a, h)
        /\ Token(Cat(a, s)) = Token(s) /\ Following(Cat(a, s)) = Following(s)
    <3> HIDE DEF h
    <3> QED BY <2>1, <2>3, <2>4, TokenAt
  <2>6. r \in Seq(Symbol) /\ R \in Seq(Symbol)
    BY <2>1, TrimTyped, ReplaceTyped, RenderUnfold
  <2>7. Render(v, s) = Cat(Cat(h, r), R)
    BY <1>3, RenderUnfold
  <2>8. Render(v, Cat(a, s)) = Cat(Cat(Cat(a, h), r), R)
    BY <1>1, <2>5, RenderUnfold
  <2> HIDE DEF h, tail, r, R
  <2>9. /\ Cat(h, r) \in Seq(Symbol)
        /\ Cat(Cat(a, h), r) = Cat(a, Cat(h, r))
        /\ Cat(Cat(a, Cat(h, r)), R) = Cat(a, Cat(Cat(h, r), R))
    <3>1. Cat(h, r) \in Seq(Symbol)
      BY <2>1, <2>6, Typed
    <3> QED
      BY <2>1, <2>6, <3>1, Together
  <2> QED
    BY <2>7, <2>8, <2>9
<1> QED
  BY <1>2, <1>3

LEMMA TokenReplaced ==
  ASSUME NEW v, Variables(v), NEW mid \in Seq(Symbol), NEW rest \in Seq(Symbol), Without(mid, Closing)
  PROVE  Render(v, Cat(One(Opening), Cat(mid, Cat(One(Closing), rest))))
           = Cat(Replace(v, Trim(mid)), Render(v, rest))
<1> DEFINE w == Cat(One(Opening), Cat(mid, Cat(One(Closing), rest)))
           r == Replace(v, Trim(mid))
<1>1. w \in Seq(Symbol) /\ Nil \in Seq(Symbol) /\ Without(Nil, Opening)
  BY Marks, Typed, WithoutNone
<1>2. w = Cat(Nil, w)
  <2> HIDE DEF w
  <2> QED BY <1>1, NothingMore
<1>3. ~ Literal(w) /\ Ahead(w) = Nil /\ Token(w) = mid /\ Following(w) = rest
  <2> DEFINE x == Cat(Nil, Cat(One(Opening), Cat(mid, Cat(One(Closing), rest))))
  <2>1. w = x
    BY <1>2
  <2>2. ~ Literal(x) /\ Ahead(x) = Nil /\ Token(x) = mid /\ Following(x) = rest
    BY <1>1, TokenAt
  <2> HIDE DEF w, x
  <2> QED
    BY <2>1, <2>2
<1> HIDE DEF w
<1>4. Render(v, w) = Cat(Cat(Nil, r), Render(v, rest))
  BY <1>1, <1>3, RenderUnfold
<1>5. r \in Seq(Symbol)
  BY TrimTyped, ReplaceTyped
<1> HIDE DEF r
<1>6. Cat(Nil, r) = r
  BY <1>5, NothingMore
<1> QED
  BY <1>4, <1>6 DEF w, r

(* What replaces a token.                                                  *)
Word(x) == x \in Symbol /\ x # Opening /\ x # Closing /\ x # Bar /\ x # Space

LEMMA KnownWord ==
  \A v, x : Known(v, One(x)) <=> x \in DOMAIN v
  BY OnePart DEF Known

LEMMA PlainReplaced ==
  ASSUME NEW v, NEW x, Word(x)
  PROVE  Replace(v, One(x)) = IF x \in DOMAIN v /\ v[x] # Null THEN v[x]
                              ELSE IF x \in DOMAIN v THEN Nil
                              ELSE Cat(Cat(One(Opening), One(x)), One(Closing))
<1> DEFINE t == One(x)
<1>1. t \in Seq(Symbol) /\ Without(t, Bar) /\ t[1] = x
  BY Typed, WithoutOne, OnePart DEF Word
<1>2. Known(v, t) <=> x \in DOMAIN v
  BY KnownWord
<1> HIDE DEF t
<1>3. Find(t, Bar) = 0
  BY <1>1, FindNone
<1>4. NameIn(t) = t /\ ~ HasFallback(t)
  BY <1>3, Zenon DEF NameIn, HasFallback, Bar
<1>5. Replace(v, t) = IF Known(v, t) /\ v[t[1]] # Null THEN v[t[1]]
                      ELSE IF Known(v, t) THEN Nil
                      ELSE Cat(Cat(One(Opening), t), One(Closing))
  BY <1>4, Zenon DEF Replace, Nil, Cat, One, Opening, Closing
<1> QED
  BY <1>1, <1>2, <1>5, Zenon DEF t

LEMMA WordedReplaced ==
  ASSUME NEW v, NEW x, Word(x), NEW q \in Seq(Symbol), Blank(q), NEW f \in Seq(Symbol)
  PROVE  Replace(v, Cat(Cat(One(x), q), Cat(One(Bar), f)))
           = IF x \in DOMAIN v /\ v[x] # Null THEN v[x] ELSE TrimStart(f)
<1> DEFINE head == Cat(One(x), q)
           t == Cat(head, Cat(One(Bar), f))
<1>1. x \in Symbol /\ Bar \in Symbol /\ One(x) \in Seq(Symbol) /\ head \in Seq(Symbol)
  BY Marks, Typed DEF Word
<1>2. Without(head, Bar)
  <2>1. Without(One(x), Bar) /\ Without(q, Bar)
    BY WithoutOne, BlankWithout, Marks DEF Word
  <2> QED
    BY <1>1, <2>1, WithoutBoth
<1>3. Trim(head) = One(x)
  <2>1. Nil \in Seq(Symbol) /\ Blank(Nil) /\ x # Space
    BY Typed, BlankNone DEF Word
  <2>2. Trim(Cat(Nil, Cat(One(x), q))) = One(x)
    BY <1>1, <2>1, TrimSymbol
  <2>3. Cat(Nil, head) = head
    <3> HIDE DEF head
    <3> QED BY <1>1, NothingMore
  <2> QED
    BY <2>2, <2>3
<1>4. t = Cat(head, Cat(One(Bar), f))
  OBVIOUS
<1> HIDE DEF head, t
<1>5. /\ Find(t, Bar) # 0 /\ Before(t, Find(t, Bar)) = head /\ After(t, Find(t, Bar)) = f
  BY <1>1, <1>2, <1>4, FindAt
<1>6. NameIn(t) = Trim(head) /\ HasFallback(t) /\ FallbackIn(t) = TrimStart(f)
  BY <1>5, Zenon DEF NameIn, HasFallback, FallbackIn, Bar
<1>7. NameIn(t) = One(x) /\ One(x)[1] = x /\ (Known(v, One(x)) <=> x \in DOMAIN v)
  BY <1>3, <1>6, KnownWord, OnePart
<1>8. Replace(v, t) = IF Known(v, NameIn(t)) /\ v[NameIn(t)[1]] # Null THEN v[NameIn(t)[1]]
                      ELSE FallbackIn(t)
  BY <1>6, Zenon DEF Replace
<1>9. Replace(v, t) = IF x \in DOMAIN v /\ v[x] # Null THEN v[x] ELSE TrimStart(f)
  BY <1>6, <1>7, <1>8, Zenon
<1> QED
  BY <1>9, Zenon DEF t, head

(* What stands between the braces of a token, as it is written.            *)
PlainToken(pad, x)     == Cat(pad, Cat(One(x), Cat(pad, pad)))
WordedToken(pad, x, f) == Cat(pad, Cat(One(x), Cat(pad, Cat(One(Bar), Cat(pad, Cat(f, pad))))))
Padding(pad)           == pad \in Seq(Symbol) /\ Blank(pad)

LEMMA PlainTrimmed ==
  ASSUME NEW pad, Padding(pad), NEW x, Word(x)
  PROVE  /\ PlainToken(pad, x) \in Seq(Symbol) /\ Without(PlainToken(pad, x), Closing)
         /\ Trim(PlainToken(pad, x)) = One(x)
<1>1. /\ x \in Symbol /\ x # Space /\ pad \in Seq(Symbol) /\ Blank(pad)
      /\ One(x) \in Seq(Symbol) /\ Cat(pad, pad) \in Seq(Symbol) /\ Blank(Cat(pad, pad))
  BY Typed, BlankBoth DEF Word, Padding
<1> DEFINE u == Cat(pad, pad)
           e == Cat(One(x), u)
<1>2. Without(One(x), Closing) /\ Without(pad, Closing) /\ Without(u, Closing)
  BY <1>1, WithoutOne, BlankWithout, Marks DEF Word
<1>3. u \in Seq(Symbol) /\ Blank(u)
  BY <1>1
<1> HIDE DEF u
<1>4. e \in Seq(Symbol) /\ Without(e, Closing)
  BY <1>1, <1>2, <1>3, Typed, WithoutBoth
<1>5. Trim(Cat(pad, e)) = One(x)
  BY <1>1, <1>3, TrimSymbol
<1> HIDE DEF e
<1>6. Cat(pad, e) \in Seq(Symbol) /\ Without(Cat(pad, e), Closing)
  BY <1>1, <1>2, <1>4, Typed, WithoutBoth
<1> QED
  BY <1>5, <1>6 DEF PlainToken, e, u

LEMMA WordedTrimmed ==
  ASSUME NEW pad, Padding(pad), NEW x, Word(x), NEW f \in Seq(Symbol), Without(f, Closing)
  PROVE  /\ WordedToken(pad, x, f) \in Seq(Symbol) /\ Without(WordedToken(pad, x, f), Closing)
         /\ Trim(WordedToken(pad, x, f))
              = Cat(Cat(One(x), pad), Cat(One(Bar), TrimEnd(Cat(pad, Cat(f, pad)))))
<1> DEFINE o == One(x)
           bar == One(Bar)
           u == Cat(pad, Cat(f, pad))
           e == Cat(pad, Cat(o, pad))
<1>1. /\ x \in Symbol /\ x # Space /\ Bar \in Symbol /\ Bar # Space
      /\ pad \in Seq(Symbol) /\ Blank(pad) /\ o \in Seq(Symbol) /\ bar \in Seq(Symbol)
  BY Typed, Marks DEF Word, Padding
<1>2. Without(o, Closing) /\ Without(pad, Closing) /\ Without(bar, Closing)
  BY <1>1, WithoutOne, BlankWithout, Marks DEF Word
<1>3. u \in Seq(Symbol) /\ Without(u, Closing)
  <2>1. Cat(f, pad) \in Seq(Symbol) /\ Without(Cat(f, pad), Closing)
    BY <1>1, <1>2, Typed, WithoutBoth
  <2> QED
    BY <1>1, <1>2, <2>1, Typed, WithoutBoth
<1>4. e \in Seq(Symbol) /\ Without(e, Closing) /\ Cat(o, pad) \in Seq(Symbol)
  <2> HIDE DEF o
  <2>1. Cat(o, pad) \in Seq(Symbol) /\ Without(Cat(o, pad), Closing)
    BY <1>1, <1>2, Typed, WithoutBoth
  <2> QED
    BY <1>1, <1>2, <2>1, Typed, WithoutBoth
<1>5. \A g \in Seq(Symbol) :
        Cat(e, Cat(bar, g)) = Cat(pad, Cat(o, Cat(pad, Cat(bar, g))))
  <2> HIDE DEF o, bar
  <2> TAKE g \in Seq(Symbol)
  <2>1. Cat(bar, g) \in Seq(Symbol)
    BY <1>1, Typed
  <2>2. Cat(Cat(pad, Cat(o, pad)), Cat(bar, g)) = Cat(pad, Cat(Cat(o, pad), Cat(bar, g)))
    BY <1>1, <1>4, <2>1, Together
  <2>3. Cat(Cat(o, pad), Cat(bar, g)) = Cat(o, Cat(pad, Cat(bar, g)))
    BY <1>1, <2>1, Together
  <2> QED
    BY <2>2, <2>3
<1>6. WordedToken(pad, x, f) = Cat(e, Cat(bar, u))
  <2>1. WordedToken(pad, x, f) = Cat(pad, Cat(o, Cat(pad, Cat(bar, u))))
    BY Zenon DEF WordedToken
  <2> HIDE DEF u, e, o, bar
  <2> QED
    BY <1>3, <1>5, <2>1
<1> HIDE DEF u
<1>7. Cat(e, Cat(bar, u)) \in Seq(Symbol) /\ Without(Cat(e, Cat(bar, u)), Closing)
  <2> HIDE DEF e, bar
  <2>1. Cat(bar, u) \in Seq(Symbol) /\ Without(Cat(bar, u), Closing)
    BY <1>1, <1>2, <1>3, Typed, WithoutBoth
  <2> QED
    BY <1>4, <2>1, Typed, WithoutBoth
<1>8. TrimEnd(u) \in Seq(Symbol)
  BY <1>3, TrimTyped
<1>9. TrimEnd(Cat(e, Cat(bar, u))) = Cat(e, Cat(bar, TrimEnd(u)))
  <2> HIDE DEF e
  <2> QED BY <1>1, <1>3, <1>4, TrimEndBehind
<1> DEFINE g == Cat(pad, Cat(bar, TrimEnd(u)))
<1>10. g \in Seq(Symbol) /\ Cat(e, Cat(bar, TrimEnd(u))) = Cat(pad, Cat(o, g))
       /\ Cat(Cat(o, pad), Cat(bar, TrimEnd(u))) = Cat(o, g)
  <2> HIDE DEF e, o, bar
  <2>1. Cat(bar, TrimEnd(u)) \in Seq(Symbol)
    BY <1>1, <1>8, Typed
  <2> QED
    BY <1>1, <1>5, <1>8, <2>1, Typed, Together
<1> HIDE DEF g
<1>11. TrimStart(Cat(pad, Cat(o, g))) = Cat(o, g)
  BY <1>1, <1>10, TrimStartAt
<1>12. Trim(Cat(e, Cat(bar, u))) = Cat(Cat(o, pad), Cat(bar, TrimEnd(u)))
  <2> HIDE DEF e, o, bar
  <2> QED BY <1>9, <1>10, <1>11 DEF Trim
<1> HIDE DEF e
<1> QED
  BY <1>6, <1>7, <1>12 DEF u

-----------------------------------------------------------------------------
(* The variables of a letter.                                              *)

LEMMA SalaryTyped ==
  ASSUME NEW n \in Nat, NEW m \in Thousandths
  PROVE  FormatSalaryIdr(n, m) \in Seq(Symbol)
<1> DEFINE c == Cents(m)
           t == CentsText(c)
<1>1. c \in 0..100
  BY CentsInRange DEF CentsUpToHundred
<1> HIDE DEF c
<1>2. /\ c = 0 => t = Nil
      /\ c # 0 => t = Cat(One(","), Behind(c))
      /\ Behind(c) \in Seq(Character)
  BY <1>1, CentsWritten
<1> HIDE DEF t
<1>3. "," \in Character
  BY CharsAreCharacters
<1>4. t \in Seq(Character)
  <2> DEFINE comma == ","
  <2>1. comma \in Character /\ (c # 0 => t = Cat(One(comma), Behind(c)))
    BY <1>2, <1>3
  <2> HIDE DEF comma
  <2>2. One(comma) \in Seq(Character) /\ Nil \in Seq(Character)
    BY <2>1, Typed
  <2>3. Cat(One(comma), Behind(c)) \in Seq(Character)
    BY <1>2, <2>2, Typed
  <2> QED
    BY <1>2, <2>1, <2>2, <2>3
<1>5. ByHand[n] \in Seq(Character) /\ Grouped(n) = ByHand[n]
  BY WrittenInCharacters, GroupedIsByHand
<1>6. FormatSalaryIdr(n, m) = Cat(Grouped(n), t)
  BY Zenon DEF FormatSalaryIdr, Cat, t, c
<1>7. FormatSalaryIdr(n, m) \in Seq(Character)
  BY <1>4, <1>5, <1>6, Typed
<1> QED
  BY <1>7, FactAssumption, SeqMonotonic

Unwritten == "note"

Given ==
  [name \in DOMAIN LetterVars \cup {Unwritten} |->
     IF name = Unwritten THEN Null ELSE LetterVars[name]]

LEMMA FactsTyped ==
  ASSUME LetterTypeOK
  PROVE  /\ \A x \in DOMAIN LetterVars : LetterVars[x] \in Seq(Symbol)
         /\ Unwritten \notin DOMAIN LetterVars
<1> DEFINE salary  == FormatSalaryIdr(rupiah, mills)
           facts   == [candidate_first_name |-> FirstName,
                       position_title       |-> Title,
                       proposed_salary      |-> salary,
                       start_date           |-> StartDate]
           unknown == (IF salaried THEN {} ELSE {"proposed_salary"})
                        \cup (IF dated THEN {} ELSE {"start_date"})
<1>1. salary \in Seq(Symbol)
  BY SalaryTyped, LetterNumbers
<1> HIDE DEF salary
<1>2. /\ \A x \in DOMAIN facts : facts[x] \in Seq(Symbol)
      /\ "note" \notin DOMAIN facts
  BY <1>1, FactAssumption
<1>3. LetterVars = [name \in DOMAIN facts \ unknown |-> facts[name]]
  BY Zenon DEF LetterVars, salary
<1> HIDE DEF facts, unknown
<1> QED
  BY <1>2, <1>3 DEF Unwritten

LEMMA GivenTyped ==
  ASSUME LetterTypeOK
  PROVE  /\ Variables(Given)
         /\ \A x : x \in DOMAIN Given <=> x \in DOMAIN LetterVars \/ x = Unwritten
         /\ \A x \in DOMAIN LetterVars :
              Given[x] = LetterVars[x] /\ LetterVars[x] # Null /\ LetterVars[x] \in Seq(Symbol)
         /\ Given[Unwritten] = Null
         /\ Unwritten \notin DOMAIN LetterVars
<1>1. \A x \in DOMAIN LetterVars : LetterVars[x] \in Seq(Symbol) /\ x # Unwritten
  BY FactsTyped
<1>2. \A x : x \in DOMAIN Given <=> x \in DOMAIN LetterVars \/ x = Unwritten
  BY DEF Given
<1>3. Given[Unwritten] = Null
  BY DEF Given
<1>4. \A x \in DOMAIN LetterVars : Given[x] = LetterVars[x]
  BY <1>1 DEF Given
<1> QED
  BY <1>1, <1>2, <1>3, <1>4, NullAssumption DEF Variables

-----------------------------------------------------------------------------
(* The pieces of a template.                                               *)

LEMMA PlainJoined ==
  ASSUME NEW S, NEW o \in Seq(S), NEW p \in Seq(S), NEW x \in Seq(S), NEW c \in Seq(S)
  PROVE  Cat(Cat(Cat(Cat(Cat(Cat(o, p), x), p), Nil), p), c)
           = Cat(o, Cat(Cat(p, Cat(x, Cat(p, p))), c))
<1> DEFINE e == Cat(Cat(o, p), x)
<1>1. /\ Cat(o, p) \in Seq(S) /\ e \in Seq(S) /\ Cat(p, p) \in Seq(S)
      /\ Cat(x, Cat(p, p)) \in Seq(S) /\ Cat(p, Cat(x, Cat(p, p))) \in Seq(S)
  BY Typed
<1>2. e = Cat(o, Cat(p, x))
  BY Together
<1>3. Cat(p, x) \in Seq(S)
  BY Typed
<1> HIDE DEF e
<1>4. Cat(e, p) \in Seq(S) /\ Cat(Cat(e, p), Nil) = Cat(e, p)
  BY <1>1, Typed, NothingMore
<1>5. Cat(Cat(e, p), p) = Cat(e, Cat(p, p))
  BY <1>1, Together
<1>6. Cat(Cat(o, Cat(p, x)), Cat(p, p)) = Cat(o, Cat(Cat(p, x), Cat(p, p)))
  BY <1>1, <1>3, Together
<1>7. Cat(Cat(p, x), Cat(p, p)) = Cat(p, Cat(x, Cat(p, p)))
  BY <1>1, Together
<1>8. Cat(Cat(o, Cat(p, Cat(x, Cat(p, p)))), c) = Cat(o, Cat(Cat(p, Cat(x, Cat(p, p))), c))
  BY <1>1, Together
<1> QED
  BY <1>2, <1>4, <1>5, <1>6, <1>7, <1>8 DEF e

LEMMA WordedJoined ==
  ASSUME NEW S, NEW o \in Seq(S), NEW p \in Seq(S), NEW x \in Seq(S), NEW c \in Seq(S),
         NEW b \in Seq(S), NEW f \in Seq(S)
  PROVE  Cat(Cat(Cat(Cat(Cat(Cat(o, p), x), p), Cat(Cat(b, p), f)), p), c)
           = Cat(o, Cat(Cat(p, Cat(x, Cat(p, Cat(b, Cat(p, Cat(f, p)))))), c))
<1> DEFINE t == Cat(Cat(b, p), f)
           u == Cat(t, p)
           e == Cat(Cat(o, p), x)
<1>1. /\ Cat(o, p) \in Seq(S) /\ e \in Seq(S) /\ Cat(b, p) \in Seq(S) /\ t \in Seq(S)
      /\ Cat(f, p) \in Seq(S) /\ Cat(p, x) \in Seq(S)
  BY Typed
<1>2. e = Cat(o, Cat(p, x))
  BY Together
<1>3. u = Cat(b, Cat(p, Cat(f, p)))
  <2>1. Cat(Cat(Cat(b, p), f), p) = Cat(Cat(b, p), Cat(f, p))
    BY <1>1, Together
  <2>2. Cat(Cat(b, p), Cat(f, p)) = Cat(b, Cat(p, Cat(f, p)))
    BY <1>1, Together
  <2> QED
    BY <2>1, <2>2
<1> HIDE DEF t
<1>4. u \in Seq(S)
  BY <1>1, Typed
<1> HIDE DEF e
<1>5. Cat(e, p) \in Seq(S) /\ Cat(Cat(Cat(e, p), t), p) = Cat(Cat(e, p), u)
  <2>1. Cat(e, p) \in Seq(S)
    BY <1>1, Typed
  <2> QED
    BY <1>1, <2>1, Together
<1> HIDE DEF u
<1>6. Cat(p, u) \in Seq(S) /\ Cat(x, Cat(p, u)) \in Seq(S) /\ Cat(p, Cat(x, Cat(p, u))) \in Seq(S)
  <2>1. Cat(p, u) \in Seq(S)
    BY <1>4, Typed
  <2>2. Cat(x, Cat(p, u)) \in Seq(S)
    BY <2>1, Typed
  <2> QED
    BY <2>1, <2>2, Typed
<1>7. Cat(Cat(e, p), u) = Cat(e, Cat(p, u))
  BY <1>1, <1>4, Together
<1>8. Cat(Cat(o, Cat(p, x)), Cat(p, u)) = Cat(o, Cat(Cat(p, x), Cat(p, u)))
  BY <1>1, <1>6, Together
<1>9. Cat(Cat(p, x), Cat(p, u)) = Cat(p, Cat(x, Cat(p, u)))
  BY <1>6, Together
<1>10. Cat(Cat(o, Cat(p, Cat(x, Cat(p, u)))), c) = Cat(o, Cat(Cat(p, Cat(x, Cat(p, u))), c))
  BY <1>6, Together
<1>11. Cat(Cat(Cat(Cat(e, p), t), p), c) = Cat(o, Cat(Cat(p, Cat(x, Cat(p, u))), c))
  BY <1>2, <1>5, <1>7, <1>8, <1>9, <1>10
<1> QED
  BY <1>3, <1>11 DEF e, t

PadOf(p) == IF p.padded THEN One(Space) ELSE Nil

LEMMA PadIsPadding ==
  \A p : Padding(PadOf(p))
  BY Typed, BlankNone, Marks DEF Padding, PadOf

Worded(p) == "fallback" \in DOMAIN p

LEMMA PieceForms ==
  ASSUME NEW p \in Piece
  PROVE  \/ IsText(p) /\ p.text \in Seq(Symbol) /\ Without(p.text, Opening)
         \/ ~ IsText(p) /\ ~ Worded(p) /\ Word(p.name)
         \/ ~ IsText(p) /\ Worded(p) /\ Word(p.name)
            /\ p.fallback \in Seq(Symbol) /\ Without(p.fallback, Closing)
<1>1. CASE p \in [text: Texts]
  <2>1. IsText(p) /\ p.text \in Texts
    BY <1>1 DEF IsText
  <2>2. Texts \subseteq Seq(Symbol \ {Opening}) /\ Opening \notin Symbol \ {Opening}
    BY PieceAssumption DEF Opening
  <2>3. p.text \in Seq(Symbol \ {Opening})
    BY <2>1, <2>2
  <2>4. Without(p.text, Opening)
    BY <2>2, <2>3, Elsewhere
  <2>5. p.text \in Seq(Symbol)
    BY <2>3, SeqMonotonic
  <2> QED
    BY <2>1, <2>4, <2>5
<1>2. \A x \in Names : Word(x)
  BY PieceAssumption DEF Word, Opening, Closing, Bar, Space
<1>3. CASE p \in [name: Names, padded: BOOLEAN]
  <2>1. p.name \in Names /\ ~ IsText(p) /\ ~ Worded(p)
    BY <1>3 DEF IsText, Worded
  <2> QED
    BY <1>2, <2>1
<1>4. CASE p \in [name: Names, padded: BOOLEAN, fallback: Fallbacks]
  <2>1. p.name \in Names /\ ~ IsText(p) /\ Worded(p) /\ p.fallback \in Fallbacks
    BY <1>4 DEF IsText, Worded
  <2>2. Fallbacks \subseteq Seq(Symbol \ {Closing}) /\ Closing \notin Symbol \ {Closing}
    BY PieceAssumption DEF Closing
  <2>3. p.fallback \in Seq(Symbol \ {Closing})
    BY <2>1, <2>2
  <2>4. Without(p.fallback, Closing)
    BY <2>2, <2>3, Elsewhere
  <2>5. p.fallback \in Seq(Symbol)
    BY <2>3, SeqMonotonic
  <2> QED
    BY <1>2, <2>1, <2>4, <2>5
<1> QED
  BY <1>1, <1>3, <1>4 DEF Piece

LEMMA SourceForms ==
  ASSUME NEW p \in Piece
  PROVE  /\ IsText(p) => Source(p) = p.text
         /\ ~ IsText(p) /\ ~ Worded(p) =>
              Source(p) = Cat(One(Opening), Cat(PlainToken(PadOf(p), p.name), One(Closing)))
         /\ ~ IsText(p) /\ Worded(p) =>
              Source(p) = Cat(One(Opening),
                              Cat(WordedToken(PadOf(p), p.name, p.fallback), One(Closing)))
<1> DEFINE pad == PadOf(p)
           x == One(p.name)
           o == One(Opening)
           c == One(Closing)
           b == One(Bar)
<1>1. IsText(p) => Source(p) = p.text
  BY Zenon DEF Source
<1>2. pad \in Seq(Symbol) /\ o \in Seq(Symbol) /\ c \in Seq(Symbol) /\ b \in Seq(Symbol)
  BY PadIsPadding, Marks, Typed DEF Padding
<1>3. ~ IsText(p) => x \in Seq(Symbol)
  BY PieceForms, Typed DEF Word
<1>4. pad = IF p.padded THEN <<" ">> ELSE <<>>
  BY Zenon DEF PadOf, One, Nil, Space
<1>5. ASSUME ~ IsText(p), ~ Worded(p)
      PROVE  Source(p) = Cat(Cat(Cat(Cat(Cat(Cat(o, pad), x), pad), Nil), pad), c)
  BY <1>4, <1>5, Zenon DEF Source, Worded, Cat, One, Nil, Opening, Closing
<1>6. ASSUME ~ IsText(p), Worded(p)
      PROVE  Source(p)
               = Cat(Cat(Cat(Cat(Cat(Cat(o, pad), x), pad), Cat(Cat(b, pad), p.fallback)), pad), c)
  BY <1>4, <1>6, Zenon DEF Source, Worded, Cat, One, Bar, Opening, Closing
<1> HIDE DEF pad, x, o, c, b
<1>7. ASSUME ~ IsText(p), ~ Worded(p)
      PROVE  Source(p) = Cat(o, Cat(Cat(pad, Cat(x, Cat(pad, pad))), c))
  BY <1>2, <1>3, <1>5, <1>7, PlainJoined
<1>8. ASSUME ~ IsText(p), Worded(p)
      PROVE  Source(p) = Cat(o, Cat(Cat(pad, Cat(x, Cat(pad, Cat(b, Cat(pad, Cat(p.fallback, pad)))))), c))
  <2> DEFINE f == p.fallback
  <2>1. f \in Seq(Symbol) /\ x \in Seq(Symbol)
    BY <1>3, <1>8, PieceForms
  <2>2. Source(p) = Cat(Cat(Cat(Cat(Cat(Cat(o, pad), x), pad), Cat(Cat(b, pad), f)), pad), c)
    BY <1>6, <1>8
  <2> HIDE DEF f
  <2>3. Source(p) = Cat(o, Cat(Cat(pad, Cat(x, Cat(pad, Cat(b, Cat(pad, Cat(f, pad)))))), c))
    BY ONLY <1>2, <2>1, <2>2, WordedJoined
  <2> QED
    BY <2>3 DEF f
<1> QED
  BY <1>1, <1>7, <1>8, Zenon DEF PlainToken, WordedToken, pad, x, o, c, b

LEMMA Braced ==
  ASSUME NEW x \in Symbol
  PROVE  <<"{{", x, "}}">> = Cat(Cat(One(Opening), One(x)), One(Closing))
<1> DEFINE s == <<Opening, x, Closing>>
           t == (<<Opening>> \o <<x>>) \o <<Closing>>
<1>1. Opening \in Symbol /\ Closing \in Symbol
  BY Marks
<1>2. s \in Seq(Symbol) /\ Len(s) = 3 /\ s[1] = Opening /\ s[2] = x /\ s[3] = Closing
  BY <1>1
<1>3. t \in Seq(Symbol) /\ Len(t) = 3 /\ t[1] = Opening /\ t[2] = x /\ t[3] = Closing
  BY <1>1
<1> HIDE DEF s, t
<1>4. s = t
  BY <1>2, <1>3
<1> QED
  BY <1>4, Zenon DEF s, t, Cat, One, Opening, Closing

LEMMA MeaningForms ==
  ASSUME LetterTypeOK, NEW p \in Piece
  PROVE  /\ IsText(p) => Meaning(p) = p.text
         /\ ~ IsText(p) /\ ~ Worded(p) => Meaning(p) = Replace(Given, One(p.name))
         /\ ~ IsText(p) /\ Worded(p) =>
              Meaning(p) = Replace(Given, Cat(Cat(One(p.name), PadOf(p)),
                             Cat(One(Bar), TrimEnd(Cat(PadOf(p), Cat(p.fallback, PadOf(p)))))))
<1> DEFINE x == p.name
           f == p.fallback
           pad == PadOf(p)
           wording == TrimEnd(Cat(pad, Cat(f, pad)))
           unknown == Cat(Cat(One(Opening), One(x)), One(Closing))
<1>1. /\ x \in DOMAIN Given <=> x \in DOMAIN LetterVars \/ x = Unwritten
      /\ x \in DOMAIN LetterVars => Given[x] = LetterVars[x] /\ LetterVars[x] # Null
      /\ Given[Unwritten] = Null /\ Unwritten \notin DOMAIN LetterVars
  BY GivenTyped
<1>2. IsText(p) => Meaning(p) = p.text
  BY Zenon DEF Meaning
<1>3. pad \in Seq(Symbol) /\ Blank(pad)
  BY PadIsPadding DEF Padding
<1>4. ASSUME ~ IsText(p)
      PROVE  Word(x) /\ <<"{{", x, "}}">> = unknown
  BY <1>4, PieceForms, Braced DEF Word
<1>5. ASSUME ~ IsText(p)
      PROVE  Meaning(p) = IF x \in DOMAIN LetterVars THEN LetterVars[x]
                          ELSE IF Worded(p) THEN Trim(f)
                          ELSE IF x = Unwritten THEN Nil ELSE unknown
  BY <1>4, <1>5, Zenon DEF Meaning, Worded, Unwritten, Nil
<1>6. ASSUME ~ IsText(p), ~ Worded(p)
      PROVE  Meaning(p) = Replace(Given, One(x))
  <2>1. Replace(Given, One(x)) = IF x \in DOMAIN Given /\ Given[x] # Null THEN Given[x]
                                 ELSE IF x \in DOMAIN Given THEN Nil ELSE unknown
    BY <1>4, <1>6, PlainReplaced
  <2> HIDE DEF x, unknown
  <2> QED
    BY <1>1, <1>5, <1>6, <2>1
<1>7. ASSUME ~ IsText(p), Worded(p)
      PROVE  Meaning(p) = Replace(Given, Cat(Cat(One(x), pad), Cat(One(Bar), wording)))
  <2>1. f \in Seq(Symbol)
    BY <1>7, PieceForms
  <2>2. Cat(pad, Cat(f, pad)) \in Seq(Symbol)
    <3> HIDE DEF f, pad
    <3> QED BY <1>3, <2>1, Typed
  <2>3. wording \in Seq(Symbol)
    BY <2>2, TrimTyped
  <2>4. TrimStart(wording) = Trim(f)
    <3> HIDE DEF f, pad
    <3> QED BY <1>3, <2>1, TrimBetween
  <2> HIDE DEF wording
  <2>5. Replace(Given, Cat(Cat(One(x), pad), Cat(One(Bar), wording)))
          = IF x \in DOMAIN Given /\ Given[x] # Null THEN Given[x] ELSE TrimStart(wording)
    <3>1. Word(x)
      BY <1>4, <1>7
    <3> HIDE DEF x, pad
    <3> QED BY <1>3, <2>3, <3>1, WordedReplaced
  <2> HIDE DEF x, f, pad, unknown
  <2> QED
    BY <1>1, <1>5, <1>7, <2>4, <2>5
<1> QED
  BY <1>2, <1>6, <1>7

(* A piece comes out as what it means, and what stands behind it is        *)
(* rendered on its own.                                                    *)
LEMMA PieceRendered ==
  ASSUME LetterTypeOK, NEW p \in Piece
  PROVE  /\ Source(p) \in Seq(Symbol) /\ Meaning(p) \in Seq(Symbol)
         /\ \A rest \in Seq(Symbol) :
              Render(Given, Cat(Source(p), rest)) = Cat(Meaning(p), Render(Given, rest))
<1>1. Variables(Given)
  BY GivenTyped
<1>2. CASE IsText(p)
  <2>1. /\ Source(p) = p.text /\ Meaning(p) = p.text
        /\ p.text \in Seq(Symbol) /\ Without(p.text, Opening)
    BY <1>2, SourceForms, MeaningForms, PieceForms
  <2> DEFINE t == p.text
  <2> HIDE DEF t
  <2>2. t \in Seq(Symbol) /\ Without(t, Opening) /\ Source(p) = t /\ Meaning(p) = t
    BY <2>1 DEF t
  <2> QED
    BY <1>1, <2>2, TextKept
<1>3. ASSUME NEW mid \in Seq(Symbol), Without(mid, Closing),
             Source(p) = Cat(One(Opening), Cat(mid, One(Closing))),
             Meaning(p) = Replace(Given, Trim(mid))
      PROVE  /\ Source(p) \in Seq(Symbol) /\ Meaning(p) \in Seq(Symbol)
             /\ \A rest \in Seq(Symbol) :
                  Render(Given, Cat(Source(p), rest)) = Cat(Meaning(p), Render(Given, rest))
  <2>1. One(Opening) \in Seq(Symbol) /\ One(Closing) \in Seq(Symbol)
    BY Marks, Typed
  <2>2. Cat(mid, One(Closing)) \in Seq(Symbol)
    BY <2>1, Typed
  <2>3. Source(p) \in Seq(Symbol)
    BY <1>3, <2>1, <2>2, Typed
  <2>4. Meaning(p) \in Seq(Symbol)
    BY <1>1, <1>3, TrimTyped, ReplaceTyped
  <2>5. ASSUME NEW rest \in Seq(Symbol)
        PROVE  Cat(Source(p), rest) = Cat(One(Opening), Cat(mid, Cat(One(Closing), rest)))
    <3>1. Cat(Cat(One(Opening), Cat(mid, One(Closing))), rest)
            = Cat(One(Opening), Cat(Cat(mid, One(Closing)), rest))
      BY <2>1, <2>2, Together
    <3>2. Cat(Cat(mid, One(Closing)), rest) = Cat(mid, Cat(One(Closing), rest))
      BY <2>1, Together
    <3> QED
      BY <1>3, <3>1, <3>2
  <2>6. \A rest \in Seq(Symbol) :
          Render(Given, Cat(One(Opening), Cat(mid, Cat(One(Closing), rest))))
            = Cat(Replace(Given, Trim(mid)), Render(Given, rest))
    BY <1>1, <1>3, TokenReplaced
  <2> QED
    BY <1>3, <2>3, <2>4, <2>5, <2>6
<1>4. Padding(PadOf(p))
  BY PadIsPadding
<1>5. CASE ~ IsText(p) /\ ~ Worded(p)
  <2> DEFINE mid == PlainToken(PadOf(p), p.name)
  <2>1. Word(p.name)
    BY <1>5, PieceForms
  <2>2. mid \in Seq(Symbol) /\ Without(mid, Closing) /\ Trim(mid) = One(p.name)
    BY <1>4, <2>1, PlainTrimmed
  <2>3. Source(p) = Cat(One(Opening), Cat(mid, One(Closing)))
    BY <1>5, SourceForms
  <2>4. Meaning(p) = Replace(Given, Trim(mid))
    BY <1>5, <2>2, MeaningForms
  <2> HIDE DEF mid
  <2> QED
    BY <1>3, <2>2, <2>3, <2>4
<1>6. CASE ~ IsText(p) /\ Worded(p)
  <2> DEFINE f == p.fallback
             pad == PadOf(p)
             mid == WordedToken(pad, p.name, f)
             inside == Cat(Cat(One(p.name), pad), Cat(One(Bar), TrimEnd(Cat(pad, Cat(f, pad)))))
  <2>1. Word(p.name) /\ f \in Seq(Symbol) /\ Without(f, Closing)
    BY <1>6, PieceForms
  <2>2. mid \in Seq(Symbol) /\ Without(mid, Closing) /\ Trim(mid) = inside
    <3> HIDE DEF f, pad
    <3> QED BY <1>4, <2>1, WordedTrimmed DEF pad
  <2>3. Source(p) = Cat(One(Opening), Cat(mid, One(Closing)))
    BY <1>6, SourceForms
  <2>4. Meaning(p) = Replace(Given, inside)
    BY <1>6, MeaningForms
  <2> HIDE DEF mid, inside
  <2> QED
    BY <1>3, <2>2, <2>3, <2>4
<1> QED
  BY <1>2, <1>5, <1>6

-----------------------------------------------------------------------------
(* The whole letter.                                                       *)

Sources  == [i \in 1..Len(template) |-> Source(template[i])]
Meanings == [i \in 1..Len(template) |-> Meaning(template[i])]

LEMMA TemplateRendered ==
  ASSUME LetterTypeOK
  PROVE  /\ Written \in Seq(Symbol)
         /\ Letter(Written) = FlattenSeq([i \in DOMAIN template |-> Meaning(template[i])])
         /\ \A rest \in Seq(Symbol) :
              Letter(Cat(Written, rest)) = Cat(Letter(Written), Letter(rest))
<1> DEFINE n == Len(template)
           W(k) == Joined(Sources, k)
           M(k) == Joined(Meanings, k)
<1>1. n \in Nat /\ DOMAIN template = 1..n /\ \A i \in 1..n : template[i] \in Piece
  BY DEF LetterTypeOK
<1>2. ASSUME NEW i \in 1..n
      PROVE  /\ Sources[i] \in Seq(Symbol) /\ Meanings[i] \in Seq(Symbol)
             /\ \A rest \in Seq(Symbol) :
                  Render(Given, Cat(Sources[i], rest)) = Cat(Meanings[i], Render(Given, rest))
  <2>1. Sources[i] = Source(template[i]) /\ Meanings[i] = Meaning(template[i])
    BY <1>1 DEF Sources, Meanings
  <2>2. template[i] \in Piece
    BY <1>1
  <2> QED
    BY <2>1, <2>2, PieceRendered
<1>3. Variables(Given)
  BY GivenTyped
<1> DEFINE T == {k \in Nat : k <= n =>
                   /\ W(k) \in Seq(Symbol) /\ M(k) \in Seq(Symbol)
                   /\ \A rest \in Seq(Symbol) :
                        Render(Given, Cat(W(k), rest)) = Cat(M(k), Render(Given, rest))}
<1>4. 0 \in T
  <2>1. W(0) = Nil /\ M(0) = Nil /\ Nil \in Seq(Symbol)
    BY JoinedNone, Typed
  <2>2. \A rest \in Seq(Symbol) : Cat(Nil, rest) = rest /\ Cat(Nil, Render(Given, rest)) = Render(Given, rest)
    BY <1>3, NothingMore, RenderUnfold
  <2> HIDE DEF W, M
  <2> QED
    BY <2>1, <2>2
<1>5. ASSUME NEW k \in Nat, k \in T
      PROVE  k + 1 \in T
  <2> SUFFICES ASSUME k + 1 <= n
               PROVE  /\ W(k + 1) \in Seq(Symbol) /\ M(k + 1) \in Seq(Symbol)
                      /\ \A rest \in Seq(Symbol) :
                           Render(Given, Cat(W(k + 1), rest)) = Cat(M(k + 1), Render(Given, rest))
    OBVIOUS
  <2> DEFINE s == Sources[k + 1]
             m == Meanings[k + 1]
  <2>1. k + 1 \in 1..n /\ k <= n /\ \A i \in 1..(k + 1) : i \in 1..n
    BY <1>1
  <2>2. /\ s \in Seq(Symbol) /\ m \in Seq(Symbol)
        /\ \A rest \in Seq(Symbol) : Render(Given, Cat(s, rest)) = Cat(m, Render(Given, rest))
    BY <1>2, <2>1
  <2>3. /\ W(k) \in Seq(Symbol) /\ M(k) \in Seq(Symbol)
        /\ \A rest \in Seq(Symbol) : Render(Given, Cat(W(k), rest)) = Cat(M(k), Render(Given, rest))
    BY <1>5, <2>1
  <2>4. W(k + 1) = Cat(W(k), s)
    <3>1. \A i \in 1..(k + 1) : Sources[i] \in Seq(Symbol)
      BY <1>2, <2>1
    <3> QED
      BY ONLY <3>1, k \in Nat, JoinedOneMore DEF W, s
  <2>5. M(k + 1) = Cat(M(k), m)
    <3>1. \A i \in 1..(k + 1) : Meanings[i] \in Seq(Symbol)
      BY <1>2, <2>1
    <3> QED
      BY ONLY <3>1, k \in Nat, JoinedOneMore DEF M, m
  <2> HIDE DEF W, M, s, m
  <2>6. ASSUME NEW rest \in Seq(Symbol)
        PROVE  Render(Given, Cat(Cat(W(k), s), rest)) = Cat(Cat(M(k), m), Render(Given, rest))
    <3>1. Cat(s, rest) \in Seq(Symbol) /\ Render(Given, rest) \in Seq(Symbol)
      BY <1>3, <2>2, Typed, RenderUnfold
    <3>2. Cat(Cat(W(k), s), rest) = Cat(W(k), Cat(s, rest))
      BY <2>2, <2>3, Together
    <3>3. Render(Given, Cat(W(k), Cat(s, rest))) = Cat(M(k), Cat(m, Render(Given, rest)))
      BY <2>2, <2>3, <3>1
    <3>4. Cat(Cat(M(k), m), Render(Given, rest)) = Cat(M(k), Cat(m, Render(Given, rest)))
      BY <2>2, <2>3, <3>1, Together
    <3> QED
      BY <3>2, <3>3, <3>4
  <2> QED
    BY <2>2, <2>3, <2>4, <2>5, <2>6, Typed
<1>6. n \in T
  <2> HIDE DEF T
  <2>1. \A k \in Nat : k \in T
    BY <1>4, <1>5, FromOneBefore
  <2> QED
    BY <1>1, <2>1
<1>7. /\ W(n) \in Seq(Symbol) /\ M(n) \in Seq(Symbol)
      /\ \A rest \in Seq(Symbol) :
           Render(Given, Cat(W(n), rest)) = Cat(M(n), Render(Given, rest))
  BY <1>1, <1>6
<1>8. Written = W(n)
  <2>1. [i \in 1..n |-> Sources[i]] = [i \in DOMAIN template |-> Source(template[i])]
    BY <1>1 DEF Sources
  <2> QED
    BY <2>1, Zenon DEF Joined, Written
<1>9. FlattenSeq([i \in DOMAIN template |-> Meaning(template[i])]) = M(n)
  <2>1. [i \in 1..n |-> Meanings[i]] = [i \in DOMAIN template |-> Meaning(template[i])]
    BY <1>1 DEF Meanings
  <2> QED
    BY <2>1, Zenon DEF Joined
<1>10. \A text : Letter(text) = Render(Given, text)
  BY Zenon DEF Letter, Given, Unwritten
<1> HIDE DEF n, W, M
<1>11. Letter(Written) = M(n)
  <2>1. Nil \in Seq(Symbol) /\ Cat(W(n), Nil) = W(n) /\ Cat(M(n), Nil) = M(n)
    BY <1>7, Typed, NothingMore
  <2>2. Render(Given, Nil) = Nil
    BY <1>3, <2>1, WithoutNone, LiteralWithout, RenderUnfold
  <2>3. Render(Given, Cat(W(n), Nil)) = Cat(M(n), Render(Given, Nil))
    BY <1>7, <2>1
  <2> QED
    BY <1>8, <1>10, <2>1, <2>2, <2>3
<1> QED
  BY <1>7, <1>8, <1>9, <1>10, <1>11

(* Scanning the whole letter, from brace to brace, is rendering it piece   *)
(* by piece (render's loop), whatever the pieces and the facts hold.       *)
THEOREM LettersPieceByPiece == Spec => []RendersPieceByPiece
<1>1. LetterTypeOK => RendersPieceByPiece
  BY TemplateRendered DEF RendersPieceByPiece
<1> QED
  BY <1>1, LetterTypes, PTL

(* A token that is not terminated stays as it is written, and the letter   *)
(* before it is rendered (the branch of render that finds no closing       *)
(* braces).                                                                *)
THEOREM OpenTokensStay == Spec => []UnterminatedIsLiteral
<1>1. LetterTypeOK => UnterminatedIsLiteral
  <2> SUFFICES ASSUME LetterTypeOK, NEW wording \in Fallbacks
               PROVE  Letter(Written \o (<<"{{">> \o wording))
                        = Letter(Written) \o (<<"{{">> \o wording)
    BY Zenon DEF UnterminatedIsLiteral
  <2> DEFINE open == Cat(One(Opening), wording)
  <2>1. /\ wording \in Seq(Symbol) /\ Without(wording, Closing)
    <3>1. wording \in Seq(Symbol \ {Closing}) /\ Closing \notin Symbol \ {Closing}
      BY PieceAssumption DEF Closing
    <3> QED
      BY <3>1, Elsewhere, SeqMonotonic
  <2>2. open \in Seq(Symbol) /\ Nil \in Seq(Symbol) /\ Without(Nil, Opening)
    BY <2>1, Marks, Typed, WithoutNone
  <2>3. Literal(open)
    <3>1. Literal(Cat(Nil, open))
      BY <2>1, <2>2, LiteralUnclosed
    <3> HIDE DEF open
    <3>2. Cat(Nil, open) = open
      BY <2>2, NothingMore
    <3> QED
      BY <3>1, <3>2
  <2>4. Letter(open) = open
    <3> HIDE DEF open
    <3>1. Render(Given, open) = open
      BY <2>2, <2>3, GivenTyped, RenderUnfold
    <3>2. Letter(open) = Render(Given, open)
      BY Zenon DEF Letter, Given, Unwritten
    <3> QED
      BY <3>1, <3>2
  <2> HIDE DEF open
  <2>5. Letter(Cat(Written, open)) = Cat(Letter(Written), open)
    BY <2>2, <2>4, TemplateRendered
  <2> QED
    BY <2>5, Zenon DEF open, Cat, One, Opening
<1> QED
  BY <1>1, LetterTypes, PTL
=============================================================================
