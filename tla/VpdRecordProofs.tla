-------------------------- MODULE VpdRecordProofs --------------------------
(***************************************************************************)
(* For strings of any lengths and any numbers of items and calls: what is  *)
(* loaded is what was stored, what is packed fits, cached lengths are      *)
(* exact, the best offer wins, and user data has unique acronyms.          *)
(***************************************************************************)
EXTENDS VpdRecord, SequenceTheorems, WellFoundedInduction, TLAPS

-----------------------------------------------------------------------------
(* Induction.  The theorems of the library have predicates as parameters;  *)
(* here a predicate is the set of the numbers that satisfy it.             *)

\* A set of numbers has a least one.
LEMMA Least ==
    ASSUME NEW T \in SUBSET Nat, T # {}
    PROVE  \E x \in T : \A y \in T : x <= y
  <1>1. PICK x \in T : \A y \in T : <<y, x>> \notin OpToRel(<, Nat)
    BY NatLessThanWellFounded, WFMin
  <1>2. \A y \in T : ~(y < x)
    BY <1>1, Zenon DEF OpToRel
  <1>3. QED
    BY <1>2

\* A set with 0 and every successor below n has every number up to n.
LEMMA Induct ==
    ASSUME NEW n \in Nat, NEW T, 0 \in T, \A k \in 0 .. n - 1 : k \in T => k + 1 \in T
    PROVE  0 .. n \subseteq T
  <1> DEFINE B == {k \in 0 .. n : k \notin T}
  <1> SUFFICES ASSUME B # {} PROVE FALSE
    OBVIOUS
  <1>1. B \in SUBSET Nat
    OBVIOUS
  <1>2. PICK k \in B : \A j \in B : k <= j
    BY <1>1, Least
  <1>3. k - 1 \in 0 .. n - 1 /\ k - 1 \notin B
    BY <1>2
  <1>4. QED
    BY <1>2, <1>3

-----------------------------------------------------------------------------
(* Sums.                                                                   *)

\* f is the function of the partial sums of ns.
Sums(f, ns) ==
    /\ f \in [0 .. Len(ns) -> Nat] /\ f[0] = 0
    /\ \A n \in 1 .. Len(ns) : f[n] = f[n - 1] + ns[n]

LEMMA SumsExist ==
    ASSUME NEW ns \in Seq(Nat)
    PROVE  \E f : Sums(f, ns)
  <1> DEFINE P(f, k) == /\ f \in [0 .. k -> Nat] /\ f[0] = 0
                        /\ \A n \in 1 .. k : f[n] = f[n - 1] + ns[n]
             T == {k \in Nat : \E f : P(f, k)}
  <1>1. 0 \in T
    <2>1. P([n \in 0 .. 0 |-> 0], 0)
      OBVIOUS
    <2>2. QED
      BY <2>1
  <1>2. ASSUME NEW k \in 0 .. Len(ns) - 1, k \in T PROVE k + 1 \in T
    <2>1. PICK f : P(f, k)
      BY <1>2
    <2> DEFINE g == [n \in 0 .. k + 1 |-> IF n = k + 1 THEN f[k] + ns[n] ELSE f[n]]
    <2>2. k + 1 \in 1 .. Len(ns) /\ k + 1 \in Nat /\ k \in 0 .. k
      BY LenProperties
    <2>3. f[k] \in Nat /\ ns[k + 1] \in Nat
      BY <2>1, <2>2, ElementOfSeq
    <2>4. g \in [0 .. k + 1 -> Nat] /\ g[0] = 0
      BY <2>1, <2>2, <2>3
    <2>5. \A n \in 1 .. k + 1 : g[n] = g[n - 1] + ns[n]
      BY <2>1, <2>2
    <2>6. P(g, k + 1)
      BY <2>4, <2>5
    <2> HIDE DEF g, P
    <2>7. QED
      BY <2>2, <2>6
  <1> HIDE DEF T
  <1>3. 0 .. Len(ns) \subseteq T
    BY <1>1, <1>2, Induct, LenProperties
  <1>4. Len(ns) \in T
    BY <1>3, LenProperties
  <1>5. PICK f : P(f, Len(ns))
    BY <1>4 DEF T
  <1>6. QED
    BY <1>5 DEF Sums

LEMMA SumsUnique ==
    ASSUME NEW ns \in Seq(Nat), NEW f, Sums(f, ns), NEW g, Sums(g, ns)
    PROVE  f = g
  <1> DEFINE T == {n \in 0 .. Len(ns) : f[n] = g[n]}
  <1>1. 0 \in T
    BY LenProperties DEF Sums
  <1>2. ASSUME NEW n \in 0 .. Len(ns) - 1, n \in T PROVE n + 1 \in T
    <2>1. n + 1 \in 1 .. Len(ns) /\ (n + 1) - 1 = n
      BY LenProperties
    <2>2. QED
      BY <1>2, <2>1, LenProperties DEF Sums
  <1> HIDE DEF T
  <1>3. 0 .. Len(ns) \subseteq T
    BY <1>1, <1>2, Induct, LenProperties
  <1>4. \A n \in 0 .. Len(ns) : f[n] = g[n]
    BY <1>3 DEF T
  <1>5. f \in [0 .. Len(ns) -> Nat] /\ g \in [0 .. Len(ns) -> Nat]
    BY DEF Sums
  <1>6. QED
    BY <1>4, <1>5

\* The recursive function in Total is the function of the partial sums.
LEMMA TotalIs ==
    ASSUME NEW ns \in Seq(Nat), NEW f, Sums(f, ns)
    PROVE  Total(ns) = f[Len(ns)]
  <1> DEFINE F(g) == [n \in 0 .. Len(ns) |-> IF n = 0 THEN 0 ELSE g[n - 1] + ns[n]]
             s == CHOOSE g : g = F(g)
  <1>1. f = F(f)
    BY LenProperties DEF Sums
  <1>2. Total(ns) = s[Len(ns)]
    BY DEF Total
  <1> HIDE DEF F
  <1>3. s = F(s)
    BY <1>1
  <1> HIDE DEF s
  <1>4. s \in [0 .. Len(ns) -> Nat]
    <2> DEFINE T == {n \in 0 .. Len(ns) : s[n] \in Nat}
    <2>1. 0 \in T
      BY <1>3, LenProperties DEF F
    <2>2. ASSUME NEW n \in 0 .. Len(ns) - 1, n \in T PROVE n + 1 \in T
      <3>1. n + 1 \in 1 .. Len(ns) /\ (n + 1) - 1 = n
        BY LenProperties
      <3>2. s[n + 1] = s[n] + ns[n + 1]
        BY <1>3, <3>1 DEF F
      <3>3. QED
        BY <2>2, <3>1, <3>2, ElementOfSeq
    <2> HIDE DEF T
    <2>3. 0 .. Len(ns) \subseteq T
      BY <2>1, <2>2, Induct, LenProperties
    <2>4. QED
      BY <1>3, <2>3 DEF F, T
  <1>5. Sums(s, ns)
    <2>1. s[0] = 0
      BY <1>3, LenProperties DEF F
    <2>2. \A n \in 1 .. Len(ns) : s[n] = s[n - 1] + ns[n]
      <3> SUFFICES ASSUME NEW n \in 1 .. Len(ns) PROVE s[n] = s[n - 1] + ns[n]
        OBVIOUS
      <3>1. n \in 0 .. Len(ns) /\ n # 0
        BY LenProperties
      <3>2. QED
        BY <1>3, <3>1 DEF F
    <2>3. QED
      BY <1>4, <2>1, <2>2 DEF Sums
  <1>6. QED
    BY <1>2, <1>5, SumsUnique

LEMMA TotalConcat ==
    ASSUME NEW a \in Seq(Nat), NEW b \in Seq(Nat)
    PROVE  Total(a \o b) = Total(a) + Total(b)
  <1>1. PICK f : Sums(f, a)
    BY SumsExist
  <1>2. PICK g : Sums(g, b)
    BY SumsExist
  <1> DEFINE m == Len(a)
             n == Len(b)
             h == [i \in 0 .. m + n |-> IF i <= m THEN f[i] ELSE f[m] + g[i - m]]
  <1>3. /\ a \o b \in Seq(Nat) /\ Len(a \o b) = m + n /\ m \in Nat /\ n \in Nat
        /\ \A i \in 1 .. m + n : (a \o b)[i] = IF i <= m THEN a[i] ELSE b[i - m]
    BY ConcatProperties, LenProperties
  <1>4. Sums(h, a \o b)
    <2>1. h \in [0 .. m + n -> Nat] /\ h[0] = 0
      <3>1. \A i \in 0 .. m : f[i] \in Nat
        BY <1>1 DEF Sums
      <3>2. \A i \in 0 .. n : g[i] \in Nat
        BY <1>2 DEF Sums
      <3>3. ASSUME NEW i \in 0 .. m + n PROVE h[i] \in Nat
        <4>1. CASE i <= m
          BY <1>3, <3>1, <4>1
        <4>2. CASE ~(i <= m)
          <5>1. i - m \in 0 .. n /\ m \in 0 .. m
            BY <1>3, <4>2
          <5>2. f[m] \in Nat /\ g[i - m] \in Nat
            BY <3>1, <3>2, <5>1
          <5>3. QED
            BY <4>2, <5>2
        <4>3. QED
          BY <4>1, <4>2
      <3>4. QED
        BY <1>1, <1>3, <3>3 DEF Sums
    <2>2. ASSUME NEW i \in 1 .. m + n PROVE h[i] = h[i - 1] + (a \o b)[i]
      <3>1. CASE i <= m
        BY <1>1, <1>3, <3>1 DEF Sums
      <3>2. CASE i = m + 1
        BY <1>1, <1>2, <1>3, <3>2 DEF Sums
      <3>3. CASE i > m + 1
        <4>1. i - m \in 1 .. n /\ (i - m) - 1 = (i - 1) - m /\ i - 1 \in m + 1 .. m + n
          BY <1>3, <3>3
        <4>2. g[i - m] = g[(i - 1) - m] + b[i - m]
          BY <1>2, <4>1 DEF Sums
        <4>3. f[m] \in Nat /\ g[(i - 1) - m] \in Nat
          <5>1. m \in 0 .. m /\ (i - 1) - m \in 0 .. n
            BY <1>3, <4>1
          <5>2. QED
            BY <1>1, <1>2, <5>1 DEF Sums
        <4>4. b[i - m] \in Nat
          BY <4>1, ElementOfSeq
        <4>5. h[i] = f[m] + g[i - m] /\ h[i - 1] = f[m] + g[(i - 1) - m]
          BY <1>3, <3>3, <4>1
        <4>6. (a \o b)[i] = b[i - m]
          BY <1>3, <3>3
        <4> HIDE DEF h
        <4>7. h[i] = f[m] + (g[(i - 1) - m] + b[i - m])
          BY <4>2, <4>5, Zenon
        <4>8. h[i] = (f[m] + g[(i - 1) - m]) + b[i - m]
          BY <4>3, <4>4, <4>7
        <4>9. QED
          BY <4>5, <4>6, <4>8, Zenon
      <3>4. i <= m \/ i = m + 1 \/ i > m + 1
        BY <1>3
      <3>5. QED
        BY <3>1, <3>2, <3>3, <3>4, Zenon
    <2>3. QED
      BY <1>3, <2>1, <2>2 DEF Sums
  <1>5. Total(a) = f[m] /\ Total(b) = g[n] /\ Total(a \o b) = h[m + n]
    BY <1>1, <1>2, <1>3, <1>4, TotalIs
  <1>6. QED
    BY <1>1, <1>2, <1>3, <1>5 DEF Sums

\* Larger numbers have a larger sum.
LEMMA TotalMonotonic ==
    ASSUME NEW a \in Seq(Nat), NEW b \in Seq(Nat), Len(a) = Len(b),
           \A i \in 1 .. Len(a) : a[i] <= b[i]
    PROVE  Total(a) <= Total(b) /\ Total(a) \in Nat /\ Total(b) \in Nat
  <1>1. PICK f : Sums(f, a)
    BY SumsExist
  <1>2. PICK g : Sums(g, b)
    BY SumsExist
  <1> DEFINE T == {n \in 0 .. Len(a) : f[n] <= g[n]}
  <1>3. 0 \in T
    BY <1>1, <1>2, LenProperties DEF Sums
  <1>4. ASSUME NEW n \in 0 .. Len(a) - 1, n \in T PROVE n + 1 \in T
    <2>1. n + 1 \in 1 .. Len(a) /\ (n + 1) - 1 = n
      BY LenProperties
    <2>2. f[n + 1] = f[n] + a[n + 1] /\ g[n + 1] = g[n] + b[n + 1]
      BY <1>1, <1>2, <2>1 DEF Sums
    <2>3. f[n] \in Nat /\ g[n] \in Nat
      <3>1. n \in 0 .. Len(a) /\ n \in 0 .. Len(b)
        BY LenProperties
      <3>2. QED
        BY <1>1, <1>2, <3>1 DEF Sums
    <2>4. a[n + 1] \in Nat /\ b[n + 1] \in Nat
      BY <2>1, ElementOfSeq
    <2>5. a[n + 1] <= b[n + 1]
      BY <2>1
    <2>6. QED
      BY <1>4, <2>1, <2>2, <2>3, <2>4, <2>5
  <1> HIDE DEF T
  <1>5. 0 .. Len(a) \subseteq T
    BY <1>3, <1>4, Induct, LenProperties
  <1>6. Len(a) \in 0 .. Len(a)
    BY LenProperties
  <1>7. f[Len(a)] <= g[Len(a)] /\ f[Len(a)] \in Nat /\ g[Len(a)] \in Nat
    BY <1>1, <1>2, <1>5, <1>6 DEF Sums, T
  <1>8. QED
    BY <1>1, <1>2, <1>7, TotalIs

-----------------------------------------------------------------------------
(* Searches.                                                               *)

\* The place of x is the first one that holds x.
LEMMA PlaceIs ==
    ASSUME NEW S, NEW s \in Seq(S), NEW x, NEW n \in 1 .. Len(s),
           s[n] = x, \A m \in 1 .. n - 1 : s[m] # x
    PROVE  PlaceOf(x, s) = n
  <1> DEFINE I == {i \in 1 .. Len(s) : s[i] = x}
  <1>1. n \in I /\ \A i \in I : n <= i
    BY LenProperties
  <1>2. PlaceOf(x, s) = Min(I)
    BY <1>1 DEF PlaceOf, SelectInSeq
  <1>3. Min(I) \in I /\ \A i \in I : Min(I) <= i
    BY <1>1 DEF Min
  <1>4. n \in Int /\ Min(I) \in Int
    BY <1>3, LenProperties
  <1>5. QED
    BY <1>1, <1>2, <1>3, <1>4

\* What is there has a place.
LEMMA PlaceFound ==
    ASSUME NEW S, NEW s \in Seq(S), NEW x, x \in ToSet(s)
    PROVE  PlaceOf(x, s) \in 1 .. Len(s) /\ s[PlaceOf(x, s)] = x
  <1> DEFINE I == {i \in 1 .. Len(s) : s[i] = x}
  <1>1. I \in SUBSET Nat /\ I # {}
    BY LenProperties DEF ToSet
  <1>2. PICK n \in I : \A i \in I : n <= i
    BY <1>1, Least
  <1>3. \A m \in 1 .. n - 1 : s[m] # x
    BY <1>2, LenProperties
  <1>4. QED
    BY <1>2, <1>3, PlaceIs

-----------------------------------------------------------------------------
(* The encoding.                                                           *)

TextItem == [ac : Text, name : Text, value : Text]
Token == Text \cup Delimiters

LEMMA Thirds ==
    ASSUME NEW k \in Nat
    PROVE  /\ (3 * k) \div 3 = k /\ (3 * k + 1) \div 3 = k /\ (3 * k + 2) \div 3 = k
           /\ (3 * k) % 3 = 0 /\ (3 * k + 1) % 3 = 1 /\ (3 * k + 2) % 3 = 2
  OBVIOUS

\* PackItems writes three strings for every item, in the order of DataItem.
LEMMA PackedItems ==
    ASSUME NEW ds \in Seq(TextItem)
    PROVE  /\ PackItems(ds) \in Seq(Text) /\ Len(PackItems(ds)) = 3 * Len(ds)
           /\ \A k \in 1 .. Len(ds) : /\ PackItems(ds)[3 * k - 2] = ds[k].ac
                                      /\ PackItems(ds)[3 * k - 1] = ds[k].name
                                      /\ PackItems(ds)[3 * k] = ds[k].value
  <1> DEFINE n == Len(ds)
             At(k) == PackItem(ds[(k + 2) \div 3])[((k + 2) % 3) + 1]
  <1>1. n \in Nat /\ \A k \in 1 .. n : ds[k] \in TextItem
    BY LenProperties, ElementOfSeq
  <1>2. ASSUME NEW k \in 1 .. n
        PROVE  At(3 * k - 2) = ds[k].ac /\ At(3 * k - 1) = ds[k].name /\ At(3 * k) = ds[k].value
    <2>1. (3 * k - 2) + 2 = 3 * k /\ (3 * k - 1) + 2 = 3 * k + 1
      BY <1>1
    <2>2. k \in Nat
      BY <1>1
    <2>3. QED
      BY <2>1, <2>2, Thirds DEF PackItem
  <1>3. ASSUME NEW k \in 1 .. 3 * n PROVE At(k) \in Text
    <2>1. PICK q \in 1 .. n : k = 3 * q - 2 \/ k = 3 * q - 1 \/ k = 3 * q
      <3>1. (k + 2) \div 3 \in 1 .. n
        BY <1>1
      <3>2. \/ k = 3 * ((k + 2) \div 3) - 2 \/ k = 3 * ((k + 2) \div 3) - 1
            \/ k = 3 * ((k + 2) \div 3)
        BY <1>1
      <3>3. QED
        BY <3>1, <3>2
    <2>2. ds[q] \in TextItem
      BY <1>1
    <2>3. ds[q].ac \in Text /\ ds[q].name \in Text /\ ds[q].value \in Text
      BY <2>2 DEF TextItem
    <2>4. QED
      BY <1>2, <2>1, <2>3
  <1>4. PackItems(ds) = [k \in 1 .. 3 * n |-> At(k)]
    BY DEF PackItems
  <1> HIDE DEF At
  <1>5. PackItems(ds) \in Seq(Text) /\ Len(PackItems(ds)) = 3 * n
    BY <1>1, <1>3, <1>4
  <1>6. ASSUME NEW k \in 1 .. n
        PROVE  /\ PackItems(ds)[3 * k - 2] = At(3 * k - 2)
               /\ PackItems(ds)[3 * k - 1] = At(3 * k - 1)
               /\ PackItems(ds)[3 * k] = At(3 * k)
    <2>1. 3 * k - 2 \in 1 .. 3 * n /\ 3 * k - 1 \in 1 .. 3 * n /\ 3 * k \in 1 .. 3 * n
      BY <1>1
    <2>2. QED
      BY <1>4, <2>1
  <1>7. QED
    BY <1>2, <1>5, <1>6

\* Items reads what PackItems has written.
LEMMA ItemsOfPacked ==
    ASSUME NEW ds \in Seq(TextItem)
    PROVE  Items(PackItems(ds)) = ds
  <1> DEFINE ts == PackItems(ds)
             n == Len(ds)
  <1>1. \A k \in 1 .. n : /\ ts[3 * k - 2] = ds[k].ac /\ ts[3 * k - 1] = ds[k].name
                         /\ ts[3 * k] = ds[k].value
    BY PackedItems
  <1>2. n \in Nat /\ ds \in [1 .. n -> TextItem] /\ Len(ts) \div 3 = n
    BY PackedItems, LenProperties, Thirds
  <1>3. ASSUME NEW k \in 1 .. n PROVE ItemAt(ts, 3 * k - 2) = ds[k]
    <2>1. (3 * k - 2) + 1 = 3 * k - 1 /\ (3 * k - 2) + 2 = 3 * k
      BY <1>2
    <2>2. /\ ts[3 * k - 2] = ds[k].ac /\ ts[3 * k - 1] = ds[k].name
          /\ ts[3 * k] = ds[k].value
      BY <1>1
    <2>3. ds[k] = [ac |-> ds[k].ac, name |-> ds[k].name, value |-> ds[k].value]
      BY <1>2 DEF TextItem
    <2>4. QED
      BY <2>1, <2>2, <2>3 DEF ItemAt
  <1> HIDE DEF ts
  <1>4. Items(ts) = [k \in 1 .. n |-> ds[k]]
    BY <1>2, <1>3, Zenon DEF Items
  <1>5. QED
    BY <1>2, <1>4 DEF ts

\* What stands between two delimiters is found again, if the delimiters are
\* nowhere in front of their places.
Avoids(s, x) == \A i \in 1 .. Len(s) : s[i] # x

LEMMA AvoidsConcat ==
    ASSUME NEW a \in Seq(Token), NEW b \in Seq(Token), NEW x,
           Avoids(a, x), Avoids(b, x)
    PROVE  Avoids(a \o b, x)
  <1> SUFFICES ASSUME NEW i \in 1 .. Len(a) + Len(b) PROVE (a \o b)[i] # x
    BY ConcatProperties DEF Avoids
  <1>1. Len(a) \in Nat /\ Len(b) \in Nat
    BY LenProperties
  <1>2. (a \o b)[i] = IF i <= Len(a) THEN a[i] ELSE b[i - Len(a)]
    BY ConcatProperties
  <1>3. CASE i <= Len(a)
    BY <1>1, <1>2, <1>3 DEF Avoids
  <1>4. CASE ~(i <= Len(a))
    <2>1. i - Len(a) \in 1 .. Len(b)
      BY <1>1, <1>4
    <2>2. QED
      BY <1>2, <1>4, <2>1 DEF Avoids
  <1>5. QED
    BY <1>3, <1>4

LEMMA FramedProperties ==
    ASSUME NEW s \in Seq(Token), NEW x \in Token, NEW y \in Token
    PROVE  /\ Framed(x, s, y) \in Seq(Token) /\ Len(Framed(x, s, y)) = Len(s) + 2
           /\ Framed(x, s, y)[1] = x /\ Framed(x, s, y)[Len(s) + 2] = y
           /\ \A i \in 1 .. Len(s) : Framed(x, s, y)[i + 1] = s[i]
  <1> DEFINE f == Framed(x, s, y)
             n == Len(s)
  <1>1. n \in Nat /\ \A i \in 1 .. n : s[i] \in Token
    BY LenProperties, ElementOfSeq
  <1>2. <<x>> \in Seq(Token) /\ <<y>> \in Seq(Token) /\ Len(<<x>>) = 1 /\ Len(<<y>>) = 1
    OBVIOUS
  <1>3. /\ <<x>> \o s \in Seq(Token) /\ Len(<<x>> \o s) = n + 1
        /\ (<<x>> \o s)[1] = x /\ \A i \in 1 .. n : (<<x>> \o s)[i + 1] = s[i]
    BY <1>1, <1>2, ConcatProperties
  <1>4. /\ f \in Seq(Token) /\ Len(f) = n + 2
        /\ \A i \in 1 .. n + 1 : f[i] = (<<x>> \o s)[i]
        /\ f[n + 2] = y
    BY <1>1, <1>2, <1>3, ConcatProperties DEF Framed
  <1> HIDE DEF f
  <1>5. f[1] = x /\ \A i \in 1 .. n : f[i + 1] = s[i]
    <2>1. 1 \in 1 .. n + 1 /\ \A i \in 1 .. n : i + 1 \in 1 .. n + 1
      BY <1>1
    <2>2. QED
      BY <1>3, <1>4, <2>1, Zenon
  <1>6. QED
    BY <1>4, <1>5 DEF f

\* The same in one word, which the provers need not take apart.
Frames(f, x, s, y) ==
    /\ f \in Seq(Token) /\ Len(f) = Len(s) + 2 /\ f[1] = x /\ f[Len(s) + 2] = y
    /\ \A i \in 1 .. Len(s) : f[i + 1] = s[i]

LEMMA FramedFrames ==
    ASSUME NEW s \in Seq(Token), NEW x \in Token, NEW y \in Token
    PROVE  Frames(Framed(x, s, y), x, s, y)
  <1> DEFINE f == Framed(x, s, y)
  <1>1. f \in Seq(Token) /\ Len(f) = Len(s) + 2
    BY FramedProperties
  <1>2. f[1] = x /\ f[Len(s) + 2] = y
    BY FramedProperties
  <1>3. \A i \in 1 .. Len(s) : f[i + 1] = s[i]
    BY FramedProperties
  <1>4. QED
    BY <1>1, <1>2, <1>3, Zenon DEF Frames

LEMMA FramedAvoids ==
    ASSUME NEW s \in Seq(Token), NEW x \in Token, NEW y \in Token,
           NEW z, z # x, z # y, Avoids(s, z)
    PROVE  Avoids(Framed(x, s, y), z)
  <1> DEFINE f == Framed(x, s, y)
             n == Len(s)
  <1>1. /\ n \in Nat /\ Len(f) = n + 2 /\ f[1] = x /\ f[n + 2] = y
        /\ \A i \in 1 .. n : f[i + 1] = s[i]
    BY FramedProperties, LenProperties
  <1> HIDE DEF f
  <1>2. ASSUME NEW i \in 1 .. n + 2 PROVE f[i] # z
    <2>1. CASE i = 1 \/ i = n + 2
      BY <1>1, <2>1
    <2>2. CASE i \in 2 .. n + 1
      <3>1. i - 1 \in 1 .. n /\ (i - 1) + 1 = i
        BY <1>1, <2>2
      <3>2. QED
        BY <1>1, <3>1 DEF Avoids
    <2>3. QED
      BY <1>1, <2>1, <2>2
  <1>3. QED
    BY <1>1, <1>2 DEF Avoids, f

LEMMA BetweenFramed ==
    ASSUME NEW a \in Seq(Token), NEW s \in Seq(Token), NEW b \in Seq(Token),
           NEW x \in Token, NEW y \in Token, x # y,
           Avoids(a, x), Avoids(a, y), Avoids(s, y)
    PROVE  Between(a \o (Framed(x, s, y) \o b), x, y) = s
  <1> DEFINE f == Framed(x, s, y)
  <1>1. Len(a) \in Nat /\ Len(s) \in Nat /\ Len(b) \in Nat
    BY LenProperties
  <1>2. Frames(f, x, s, y)
    BY FramedFrames, Zenon
  <1> HIDE DEF f
  <1>3. /\ f \in Seq(Token) /\ Len(f) = Len(s) + 2 /\ f[1] = x /\ f[Len(s) + 2] = y
        /\ \A i \in 1 .. Len(s) : f[i + 1] = s[i]
    BY <1>2, Zenon DEF Frames
  <1> DEFINE ts == a \o (f \o b)
             p == Len(a) + 1
             q == Len(a) + Len(s) + 2
  <1>4. /\ f \o b \in Seq(Token) /\ Len(f \o b) = Len(f) + Len(b)
        /\ \A i \in 1 .. Len(f) : (f \o b)[i] = f[i]
    <2>1. /\ f \o b \in Seq(Token) /\ Len(f \o b) = Len(f) + Len(b)
          /\ \A i \in 1 .. Len(f) + Len(b) :
                (f \o b)[i] = IF i <= Len(f) THEN f[i] ELSE b[i - Len(f)]
      BY <1>3, ConcatProperties
    <2>2. \A i \in 1 .. Len(f) : i \in 1 .. Len(f) + Len(b) /\ i <= Len(f)
      BY <1>1, <1>3
    <2>3. QED
      BY <2>1, <2>2
  <1>5. /\ ts \in Seq(Token) /\ Len(ts) = Len(a) + Len(f) + Len(b)
        /\ \A i \in 1 .. Len(a) : ts[i] = a[i]
        /\ \A i \in Len(a) + 1 .. Len(a) + Len(f) : ts[i] = f[i - Len(a)]
    <2>1. /\ ts \in Seq(Token) /\ Len(ts) = Len(a) + (Len(f) + Len(b))
          /\ \A i \in 1 .. Len(a) + (Len(f) + Len(b)) :
                ts[i] = IF i <= Len(a) THEN a[i] ELSE (f \o b)[i - Len(a)]
      BY <1>4, ConcatProperties
    <2> HIDE DEF ts
    <2>2. ASSUME NEW i \in Len(a) + 1 .. Len(a) + Len(f) PROVE ts[i] = f[i - Len(a)]
      <3>1. i - Len(a) \in 1 .. Len(f) /\ ~(i <= Len(a))
            /\ i \in 1 .. Len(a) + (Len(f) + Len(b))
        BY <1>1, <1>3
      <3>2. ts[i] = (f \o b)[i - Len(a)]
        BY <2>1, <3>1, Zenon
      <3>3. QED
        BY <1>4, <3>1, <3>2, Zenon
    <2>3. \A i \in 1 .. Len(a) : ts[i] = a[i]
      <3>1. \A i \in 1 .. Len(a) : i \in 1 .. Len(a) + (Len(f) + Len(b)) /\ i <= Len(a)
        BY <1>1, <1>3
      <3>2. QED
        BY <2>1, <3>1, Zenon
    <2>4. Len(ts) = Len(a) + Len(f) + Len(b)
      BY <1>1, <1>3, <2>1
    <2>5. QED
      BY <2>1, <2>2, <2>3, <2>4, Zenon
  <1> HIDE DEF ts
  <1>6. ASSUME NEW i \in 1 .. Len(s) PROVE ts[p + i] = s[i]
    <2>1. p + i \in Len(a) + 1 .. Len(a) + Len(f) /\ (p + i) - Len(a) = i + 1
      BY <1>1, <1>3
    <2>2. QED
      BY <1>3, <1>5, <2>1
  <1>7. ts[p] = x /\ ts[q] = y /\ p \in 1 .. Len(ts) /\ q \in 1 .. Len(ts)
    <2>1. p \in Len(a) + 1 .. Len(a) + Len(f) /\ p - Len(a) = 1
          /\ q \in Len(a) + 1 .. Len(a) + Len(f) /\ q - Len(a) = Len(s) + 2
      BY <1>1, <1>3
    <2>2. ts[p] = x /\ ts[q] = y
      BY <1>3, <1>5, <2>1
    <2>3. Len(ts) = Len(a) + Len(f) + Len(b) /\ Len(f) = Len(s) + 2
      BY <1>3, <1>5, Zenon
    <2>4. p \in 1 .. Len(ts) /\ q \in 1 .. Len(ts)
      <3> HIDE DEF ts
      <3>1. QED
        BY <1>1, <2>3
    <2>5. QED
      BY <2>2, <2>4, Zenon
  <1>8. PlaceOf(x, ts) = p
    <2>1. \A i \in 1 .. p - 1 : ts[i] # x
      BY <1>1, <1>5 DEF Avoids
    <2>2. p \in 1 .. Len(ts) /\ ts[p] = x
      BY <1>7
    <2>3. QED
      BY <1>5, <2>1, <2>2, PlaceIs, Zenon
  <1>9. PlaceOf(y, ts) = q
    <2>1. ASSUME NEW i \in 1 .. q - 1 PROVE ts[i] # y
      <3>1. CASE i <= Len(a)
        BY <1>1, <1>5, <3>1 DEF Avoids
      <3>2. CASE i = p
        BY <1>7, <3>2
      <3>3. CASE i > p
        <4>1. i - p \in 1 .. Len(s) /\ p + (i - p) = i
          BY <1>1, <3>3
        <4>2. QED
          BY <1>6, <4>1 DEF Avoids
      <3>4. QED
        BY <1>1, <3>1, <3>2, <3>3
    <2>2. q \in 1 .. Len(ts) /\ ts[q] = y
      BY <1>1, <1>5, <1>7
    <2>3. QED
      BY <1>5, <2>1, <2>2, PlaceIs, Zenon
  <1>10. SubSeq(ts, p + 1, q - 1) = s
    <2> DEFINE t == SubSeq(ts, p + 1, q - 1)
    <2>1. \A i \in p + 1 .. q - 1 : ts[i] \in Token
      BY <1>1, <1>5, <1>7, ElementOfSeq
    <2>2. /\ t \in Seq(Token) /\ Len(t) = Len(s)
          /\ \A i \in 1 .. Len(s) : t[i] = ts[p + i]
      <3>1. p + 1 \in Int /\ q - 1 \in Int /\ (q - 1) - (p + 1) + 1 = Len(s)
        BY <1>1
      <3>2. \A i \in 1 .. Len(s) : (p + 1) + i - 1 = p + i
        BY <1>1
      <3>3. QED
        BY <1>1, <2>1, <3>1, <3>2, SubSeqProperties
    <2>3. QED
      BY <1>6, <2>2, SeqEqual
  <1>11. QED
    BY <1>8, <1>9, <1>10 DEF Between, Inside, ts, f

-----------------------------------------------------------------------------
(* Round trip.                                                             *)

Contents(k) ==
    {c \in [fields : [ToSet(FieldsOf(k)) -> TextItem], children : Seq(Text),
            device : Seq(TextItem), user : Seq(TextItem), ax : Seq(TextItem)] :
        k = System => c.ax = <<>>}

LEMMA Kinds == Component # System
  BY DEF Component, System

LEMMA FieldOrder ==
    /\ ComponentFields \in Seq(ToSet(ComponentFields)) /\ Len(ComponentFields) = 37
    /\ SystemFields \in Seq(ToSet(SystemFields)) /\ Len(SystemFields) = 18
    /\ \A k \in {Component, System} : FieldsOf(k) \in Seq(ToSet(FieldsOf(k)))
  <1>1. Len(ComponentFields) = 37 /\ ComponentFields \in [1 .. 37 -> ToSet(ComponentFields)]
    BY DEF ComponentFields, ToSet
  <1>2. Len(SystemFields) = 18 /\ SystemFields \in [1 .. 18 -> ToSet(SystemFields)]
    BY DEF SystemFields, ToSet
  <1>3. ComponentFields \in Seq(ToSet(ComponentFields))
    BY <1>1, SeqDef, Zenon
  <1>4. SystemFields \in Seq(ToSet(SystemFields))
    BY <1>2, SeqDef
  <1>5. QED
    BY <1>1, <1>2, <1>3, <1>4 DEF FieldsOf

\* No name occurs twice in the order.
LEMMA FieldsDistinct ==
    \A i, j \in 1 .. 37 : ComponentFields[i] = ComponentFields[j] => i = j
  BY DEF ComponentFields

\* Behind any field order stands, at 3p - 2, the p-th field.
LEMMA PackedFields ==
    ASSUME NEW F, NEW order \in Seq(F), NEW fields \in [F -> TextItem],
           NEW rest \in Seq(Token)
    PROVE  LET ps == PackFields(order, fields) IN
           /\ ps \in Seq(Text)
           /\ \A p \in 1 .. Len(order) : ItemAt(ps \o rest, 3 * p - 2) = fields[order[p]]
  <1> DEFINE n == Len(order)
             ds == [k \in DOMAIN order |-> fields[order[k]]]
             ps == PackItems(ds)
  <1>1. n \in Nat /\ DOMAIN order = 1 .. n /\ \A p \in 1 .. n : order[p] \in F
    BY LenProperties, ElementOfSeq
  <1>2. ds \in Seq(TextItem) /\ Len(ds) = n /\ \A p \in 1 .. n : ds[p] = fields[order[p]]
    BY <1>1
  <1> HIDE DEF ds
  <1>3. /\ ps \in Seq(Text) /\ Len(ps) = 3 * n
        /\ \A p \in 1 .. n : ps[3 * p - 2] = ds[p].ac /\ ps[3 * p - 1] = ds[p].name
                             /\ ps[3 * p] = ds[p].value
    BY <1>2, PackedItems
  <1> HIDE DEF ps
  <1>4. ps \in Seq(Token)
    BY <1>3, SeqMonotonic DEF Token
  <1>5. \A i \in 1 .. 3 * n : (ps \o rest)[i] = ps[i]
    BY <1>1, <1>3, <1>4, ConcatProperties, LenProperties
  <1>6. ASSUME NEW p \in 1 .. n PROVE ItemAt(ps \o rest, 3 * p - 2) = fields[order[p]]
    <2>1. /\ 3 * p - 2 \in 1 .. 3 * n /\ 3 * p - 1 \in 1 .. 3 * n /\ 3 * p \in 1 .. 3 * n
          /\ (3 * p - 2) + 1 = 3 * p - 1 /\ (3 * p - 2) + 2 = 3 * p
      BY <1>1
    <2>2. ItemAt(ps \o rest, 3 * p - 2)
            = [ac |-> ds[p].ac, name |-> ds[p].name, value |-> ds[p].value]
      BY <1>3, <1>5, <2>1 DEF ItemAt
    <2>3. fields[order[p]] \in TextItem /\ ds[p] = fields[order[p]]
      BY <1>1, <1>2
    <2>4. QED
      BY <2>2, <2>3 DEF TextItem
  <1>7. PackFields(order, fields) = ps
    BY DEF PackFields, ps, ds
  <1>8. QED
    BY <1>3, <1>6, <1>7

Orders == {ComponentFields, SystemFields, CComponentFields}

LEMMA FieldsAtPlaces ==
    ASSUME NEW order \in Orders, NEW ts
    PROVE  UnpackFields(order, ts)
             = [f \in ToSet(order) |-> ItemAt(ts, 3 * PlaceOf(f, order) - 2)]
  <1>1. Places[order] = [f \in ToSet(order) |-> PlaceOf(f, order)]
    BY DEF Places, Orders
  <1>2. QED
    BY <1>1 DEF UnpackFields

\* So every field is found at the place of its name.
LEMMA FieldsUnpacked ==
    ASSUME NEW order \in Orders, order \in Seq(ToSet(order)),
           NEW fields \in [ToSet(order) -> TextItem], NEW rest \in Seq(Token)
    PROVE  UnpackFields(order, PackFields(order, fields) \o rest) = fields
  <1> DEFINE ts == PackFields(order, fields) \o rest
  <1>1. \A p \in 1 .. Len(order) : ItemAt(ts, 3 * p - 2) = fields[order[p]]
    BY PackedFields
  <1> HIDE DEF ts
  <1>2. ASSUME NEW f \in ToSet(order)
        PROVE  ItemAt(ts, 3 * PlaceOf(f, order) - 2) = fields[f]
    <2>1. PlaceOf(f, order) \in 1 .. Len(order) /\ order[PlaceOf(f, order)] = f
      BY PlaceFound
    <2>2. QED
      BY <1>1, <2>1
  <1>3. UnpackFields(order, ts) = [f \in ToSet(order) |-> fields[f]]
    BY <1>2, FieldsAtPlaces
  <1>4. QED
    BY <1>3 DEF ts

\* The fields and the lists, grouped as each of the lists sees them.
Grouped(f, a, b, c, d) ==
    /\ f \o (((a \o b) \o c) \o d) = f \o (a \o (b \o (c \o d)))
    /\ f \o (((a \o b) \o c) \o d) = (f \o a) \o (b \o (c \o d))
    /\ f \o (((a \o b) \o c) \o d) = ((f \o a) \o b) \o (c \o d)
    /\ f \o (((a \o b) \o c) \o d) = (((f \o a) \o b) \o c) \o d

Associate(a, b, c) == (a \o b) \o c = a \o (b \o c)

LEMMA Associative ==
    ASSUME NEW a \in Seq(Token), NEW b \in Seq(Token), NEW c \in Seq(Token)
    PROVE  Associate(a, b, c)
  BY DEF Associate

LEMMA Regroup ==
    ASSUME NEW f \in Seq(Token), NEW a \in Seq(Token), NEW b \in Seq(Token),
           NEW c \in Seq(Token), NEW d \in Seq(Token)
    PROVE  Grouped(f, a, b, c, d)
  <1> DEFINE cd == c \o d
             bcd == b \o cd
             fa == f \o a
  <1>1. a \o b \in Seq(Token) /\ cd \in Seq(Token) /\ fa \in Seq(Token)
    BY ConcatProperties
  <1>2. ((a \o b) \o c) \o d = (a \o b) \o cd
    <2>1. Associate(a \o b, c, d)
      BY <1>1, Associative, Zenon
    <2>2. QED
      BY <2>1, Zenon DEF Associate
  <1> HIDE DEF cd, fa
  <1>3. bcd \in Seq(Token)
    BY <1>1
  <1>4. (a \o b) \o cd = a \o bcd /\ bcd \in Seq(Token)
    <2>1. Associate(a, b, cd)
      BY <1>1, Associative, Zenon
    <2>2. QED
      BY <1>3, <2>1, Zenon DEF Associate
  <1>5. fa \o bcd = (fa \o b) \o cd
    <2>1. Associate(fa, b, cd)
      BY <1>1, Associative, Zenon
    <2>2. QED
      BY <2>1, Zenon DEF Associate
  <1> HIDE DEF bcd
  <1>6. f \o (a \o bcd) = fa \o bcd
    <2>1. Associate(f, a, bcd)
      BY <1>4, Associative, Zenon
    <2>2. QED
      BY <2>1, Zenon DEF fa, Associate
  <1> DEFINE fab == fa \o b
  <1>7. fab \in Seq(Token)
    BY <1>1
  <1> HIDE DEF fab
  <1>8. fab \o cd = (fab \o c) \o d
    <2>1. Associate(fab, c, d)
      BY <1>7, Associative, Zenon
    <2>2. QED
      BY <2>1, Zenon DEF cd, Associate
  <1>9. QED
    BY <1>2, <1>4, <1>5, <1>6, <1>8 DEF fab, bcd, cd, fa, Grouped

LEMMA DelimitersDistinct ==
    /\ {ChildStart, ChildEnd, DeviceStart, DeviceEnd, UserStart, UserEnd, AxStart, AxEnd}
         \subseteq Token
    /\ ChildStart # ChildEnd /\ DeviceStart # DeviceEnd /\ UserStart # UserEnd /\ AxStart # AxEnd
    /\ {ChildStart, ChildEnd} \cap {DeviceStart, DeviceEnd} = {}
    /\ {ChildStart, ChildEnd} \cap {UserStart, UserEnd} = {}
    /\ {ChildStart, ChildEnd} \cap {AxStart, AxEnd} = {}
    /\ {DeviceStart, DeviceEnd} \cap {UserStart, UserEnd} = {}
    /\ {DeviceStart, DeviceEnd} \cap {AxStart, AxEnd} = {}
    /\ {UserStart, UserEnd} \cap {AxStart, AxEnd} = {}
  BY DEF Token, Delimiters, ChildStart, ChildEnd, DeviceStart, DeviceEnd, UserStart, UserEnd,
         AxStart, AxEnd

\* The four ways to look for a delimiter agree on strings without one.
LEMMA DelimiterFound ==
    ASSUME NEW t \in Token, NEW d \in Delimiters
    PROVE  /\ Begins(t, d) <=> t = d
           /\ d \in Rests(t) <=> t = d
           /\ (\E z \in Rests(t) : Begins(z, d)) <=> t = d
  <1>1. t \in Rests(t) /\ Begins(d, d)
    BY StringAssumption DEF Token
  <1>2. ASSUME NEW z \in Rests(t), Begins(z, d) PROVE t = d
    BY <1>2, NoDelimiterAssumption, StringAssumption DEF Token
  <1>3. QED
    BY <1>1, <1>2

LEMMA TextAvoids ==
    ASSUME NEW s \in Seq(Text)
    PROVE  s \in Seq(Token) /\ \A x \in Delimiters : Avoids(s, x)
  <1>1. \A i \in 1 .. Len(s) : s[i] \in Text
    BY ElementOfSeq
  <1>2. ASSUME NEW t \in Text, NEW d \in Delimiters PROVE t # d
    BY StringAssumption, NoDelimiterAssumption
  <1>3. QED
    BY <1>1, <1>2, SeqMonotonic DEF Avoids, Token

LEMMA SamePlace ==
    ASSUME NEW s \in Seq(Token), NEW d \in Delimiters
    PROVE  /\ ScanTo(d, s) = PlaceOf(d, s)
           /\ PrefixPlace(d, s) = PlaceOf(d, s)
           /\ PrefixScan(d, s) = PlaceOf(d, s)
  <1> DEFINE I == {i \in 1 .. Len(s) : s[i] = d}
  <1>1. \A i \in 1 .. Len(s) : s[i] \in Token
    BY ElementOfSeq
  <1>2. /\ {i \in 1 .. Len(s) : d \in Rests(s[i])} = I
        /\ {i \in 1 .. Len(s) : Begins(s[i], d)} = I
        /\ {i \in 1 .. Len(s) : \E z \in Rests(s[i]) : Begins(z, d)} = I
    BY <1>1, DelimiterFound
  <1>3. ScanTo(d, s) = PlaceOf(d, s)
    BY <1>2 DEF ScanTo, PlaceOf, SelectInSeq
  <1>4. PrefixPlace(d, s) = PlaceOf(d, s)
    BY <1>2 DEF PrefixPlace, PlaceOf, SelectInSeq
  <1>5. PrefixScan(d, s) = PlaceOf(d, s)
    BY <1>2 DEF PrefixScan, PlaceOf, SelectInSeq
  <1>6. QED
    BY <1>3, <1>4, <1>5

\* Whatever a decoder's way, it finds what stands between two delimiters.
LEMMA SameBetween ==
    ASSUME NEW s \in Seq(Token), NEW d \in Delimiters, NEW e \in Delimiters
    PROVE  /\ Inside(s, ScanTo(d, s), PlaceOf(e, s)) = Between(s, d, e)
           /\ Inside(s, PrefixScan(d, s), PrefixPlace(e, s)) = Between(s, d, e)
           /\ BetweenC(s, d, e) = Between(s, d, e)
  BY SamePlace DEF Between, BetweenC

\* What the decoders find in what Pack has written.
LEMMA PartsFound ==
    ASSUME NEW k \in {Component, System}, NEW c \in Contents(k)
    PROVE  LET ts == Pack(k, c).tokens IN
           /\ ts \in Seq(Token)
           /\ \A p \in 1 .. Len(FieldsOf(k)) : ItemAt(ts, 3 * p - 2) = c.fields[FieldsOf(k)[p]]
           /\ UnpackFields(FieldsOf(k), ts) = c.fields
           /\ Between(ts, ChildStart, ChildEnd) = c.children
           /\ Between(ts, DeviceStart, DeviceEnd) = PackItems(c.device)
           /\ Between(ts, UserStart, UserEnd) = PackItems(c.user)
           /\ k = Component => Between(ts, AxStart, AxEnd) = PackItems(c.ax)
  <1> DEFINE ts == Pack(k, c).tokens
             f  == PackFields(FieldsOf(k), c.fields)
             b1 == Framed(ChildStart, c.children, ChildEnd)
             b2 == Framed(DeviceStart, PackItems(c.device), DeviceEnd)
             b3 == Framed(UserStart, PackItems(c.user), UserEnd)
             b4 == IF k = Component THEN Framed(AxStart, PackItems(c.ax), AxEnd) ELSE <<>>
             D  == Delimiters
  <1>1. /\ c.fields \in [ToSet(FieldsOf(k)) -> TextItem] /\ c.children \in Seq(Text)
        /\ PackItems(c.device) \in Seq(Text) /\ PackItems(c.user) \in Seq(Text)
        /\ PackItems(c.ax) \in Seq(Text)
    BY PackedItems DEF Contents
  <1>2. f \in Seq(Text)
    <2>1. <<>> \in Seq(Token)
      OBVIOUS
    <2>2. QED
      BY <1>1, <2>1, FieldOrder, PackedFields
  <1>3. /\ f \in Seq(Token) /\ \A x \in D : Avoids(f, x)
        /\ c.children \in Seq(Token) /\ \A x \in D : Avoids(c.children, x)
        /\ PackItems(c.device) \in Seq(Token) /\ \A x \in D : Avoids(PackItems(c.device), x)
        /\ PackItems(c.user) \in Seq(Token) /\ \A x \in D : Avoids(PackItems(c.user), x)
        /\ PackItems(c.ax) \in Seq(Token) /\ \A x \in D : Avoids(PackItems(c.ax), x)
    BY <1>1, <1>2, TextAvoids
  <1>4. D \subseteq Token
    BY DEF Token
  <1> HIDE DEF f, D
  <1>5. /\ b1 \in Seq(Token) /\ \A x \in D \ {ChildStart, ChildEnd} : Avoids(b1, x)
        /\ b2 \in Seq(Token) /\ \A x \in D \ {DeviceStart, DeviceEnd} : Avoids(b2, x)
        /\ b3 \in Seq(Token) /\ \A x \in D \ {UserStart, UserEnd} : Avoids(b3, x)
        /\ b4 \in Seq(Token)
    <2>1. b1 \in Seq(Token) /\ \A x \in D \ {ChildStart, ChildEnd} : Avoids(b1, x)
      <3>1. ChildStart \in Token /\ ChildEnd \in Token /\ c.children \in Seq(Token)
        BY <1>3, DelimitersDistinct
      <3>2. b1 \in Seq(Token)
        BY <3>1, FramedProperties
      <3>3. QED
        BY <1>3, <3>1, <3>2, FramedAvoids
    <2>2. b2 \in Seq(Token) /\ \A x \in D \ {DeviceStart, DeviceEnd} : Avoids(b2, x)
      <3>1. DeviceStart \in Token /\ DeviceEnd \in Token /\ PackItems(c.device) \in Seq(Token)
        BY <1>3, DelimitersDistinct
      <3>2. b2 \in Seq(Token)
        BY <3>1, FramedProperties
      <3>3. QED
        BY <1>3, <3>1, <3>2, FramedAvoids
    <2>3. b3 \in Seq(Token) /\ \A x \in D \ {UserStart, UserEnd} : Avoids(b3, x)
      <3>1. UserStart \in Token /\ UserEnd \in Token /\ PackItems(c.user) \in Seq(Token)
        BY <1>3, DelimitersDistinct
      <3>2. b3 \in Seq(Token)
        BY <3>1, FramedProperties
      <3>3. QED
        BY <1>3, <3>1, <3>2, FramedAvoids
    <2>4. b4 \in Seq(Token)
      <3>1. Framed(AxStart, PackItems(c.ax), AxEnd) \in Seq(Token)
        BY <1>3, DelimitersDistinct, FramedProperties
      <3>2. QED
        BY <3>1
    <2>5. QED
      BY <2>1, <2>2, <2>3, <2>4
  <1>6. ts = f \o (((b1 \o b2) \o b3) \o b4)
    BY DEF Pack, Lists, f
  <1> HIDE DEF ts, b1, b2, b3, b4
  <1> DEFINE r2 == b3 \o b4
             r1 == b2 \o r2
             p2 == f \o b1
             p3 == p2 \o b2
             p4 == p3 \o b3
  <1>7. ts = f \o (b1 \o r1) /\ ts = p2 \o (b2 \o r2) /\ ts = p3 \o (b3 \o b4) /\ ts = p4 \o b4
    <2>1. /\ f \in Seq(Token) /\ b1 \in Seq(Token) /\ b2 \in Seq(Token) /\ b3 \in Seq(Token)
          /\ b4 \in Seq(Token)
      BY <1>3, <1>5
    <2>2. Grouped(f, b1, b2, b3, b4)
      BY <2>1, Regroup
    <2>3. QED
      BY <1>6, <2>2, Zenon DEF Grouped
  <1>8. /\ r2 \in Seq(Token) /\ r1 \in Seq(Token) /\ b1 \o r1 \in Seq(Token)
        /\ p2 \in Seq(Token) /\ p3 \in Seq(Token) /\ p4 \in Seq(Token)
    BY <1>3, <1>5, ConcatProperties
  <1>9. /\ \A x \in D \ {ChildStart, ChildEnd} : Avoids(p2, x)
        /\ \A x \in D \ {ChildStart, ChildEnd, DeviceStart, DeviceEnd} : Avoids(p3, x)
        /\ \A x \in D \ {ChildStart, ChildEnd, DeviceStart, DeviceEnd, UserStart, UserEnd} :
              Avoids(p4, x)
    BY <1>3, <1>5, <1>8, AvoidsConcat
  <1> DEFINE r0 == b1 \o r1
  <1> HIDE DEF r0, r1, r2, p2, p3, p4
  <1>10. ts = f \o r0 /\ r0 \in Seq(Token)
    BY <1>7, <1>8 DEF r0
  <1>11. FieldsOf(k) \in Seq(ToSet(FieldsOf(k))) /\ FieldsOf(k) \in Orders
    BY FieldOrder DEF FieldsOf, Orders
  <1>12. \A p \in 1 .. Len(FieldsOf(k)) : ItemAt(ts, 3 * p - 2) = c.fields[FieldsOf(k)[p]]
    BY <1>1, <1>10, <1>11, PackedFields DEF f
  <1>13. UnpackFields(FieldsOf(k), ts) = c.fields
    BY <1>1, <1>10, <1>11, FieldsUnpacked DEF f
  <1>14. {ChildStart, ChildEnd, DeviceStart, DeviceEnd, UserStart, UserEnd, AxStart, AxEnd} = D
    BY DEF D, Delimiters
  <1>15. Between(ts, ChildStart, ChildEnd) = c.children
    <2>1. /\ ChildStart \in Token /\ ChildEnd \in Token /\ ChildStart # ChildEnd
          /\ Avoids(f, ChildStart) /\ Avoids(f, ChildEnd) /\ Avoids(c.children, ChildEnd)
      BY <1>3, <1>9, <1>14, DelimitersDistinct
    <2>2. f \in Seq(Token) /\ c.children \in Seq(Token) /\ r1 \in Seq(Token)
      BY <1>3, <1>5, <1>8
    <2>3. Between(f \o (Framed(ChildStart, c.children, ChildEnd) \o r1),
                  ChildStart, ChildEnd) = c.children
      BY <2>1, <2>2, BetweenFramed, Zenon
    <2>4. QED
      BY <1>7, <2>3 DEF b1
  <1>16. Between(ts, DeviceStart, DeviceEnd) = PackItems(c.device)
    <2>1. /\ DeviceStart \in Token /\ DeviceEnd \in Token /\ DeviceStart # DeviceEnd
          /\ Avoids(p2, DeviceStart) /\ Avoids(p2, DeviceEnd)
          /\ Avoids(PackItems(c.device), DeviceEnd)
      BY <1>3, <1>9, <1>14, DelimitersDistinct
    <2>2. p2 \in Seq(Token) /\ PackItems(c.device) \in Seq(Token) /\ r2 \in Seq(Token)
      BY <1>3, <1>5, <1>8
    <2>3. Between(p2 \o (Framed(DeviceStart, PackItems(c.device), DeviceEnd) \o r2),
                  DeviceStart, DeviceEnd) = PackItems(c.device)
      BY <2>1, <2>2, BetweenFramed, Zenon
    <2>4. QED
      BY <1>7, <2>3 DEF b2
  <1>17. Between(ts, UserStart, UserEnd) = PackItems(c.user)
    <2>1. /\ UserStart \in Token /\ UserEnd \in Token /\ UserStart # UserEnd
          /\ Avoids(p3, UserStart) /\ Avoids(p3, UserEnd) /\ Avoids(PackItems(c.user), UserEnd)
      BY <1>3, <1>9, <1>14, DelimitersDistinct
    <2>2. p3 \in Seq(Token) /\ PackItems(c.user) \in Seq(Token) /\ b4 \in Seq(Token)
      BY <1>3, <1>5, <1>8
    <2>3. Between(p3 \o (Framed(UserStart, PackItems(c.user), UserEnd) \o b4),
                  UserStart, UserEnd) = PackItems(c.user)
      BY <2>1, <2>2, BetweenFramed, Zenon
    <2>4. QED
      BY <1>7, <2>3 DEF b3
  <1>18. ASSUME k = Component PROVE Between(ts, AxStart, AxEnd) = PackItems(c.ax)
    <2>1. /\ AxStart \in Token /\ AxEnd \in Token /\ AxStart # AxEnd
          /\ Avoids(p4, AxStart) /\ Avoids(p4, AxEnd) /\ Avoids(PackItems(c.ax), AxEnd)
      BY <1>3, <1>9, <1>14, DelimitersDistinct
    <2>2. p4 \in Seq(Token) /\ PackItems(c.ax) \in Seq(Token) /\ <<>> \in Seq(Token)
      BY <1>3, <1>8
    <2>3. Between(p4 \o (Framed(AxStart, PackItems(c.ax), AxEnd) \o <<>>), AxStart, AxEnd)
            = PackItems(c.ax)
      BY <2>1, <2>2, BetweenFramed, Zenon
    <2>4. b4 = Framed(AxStart, PackItems(c.ax), AxEnd)
      BY <1>18 DEF b4
    <2>5. b4 \o <<>> = b4
      BY <1>5
    <2>6. QED
      BY <1>7, <2>3, <2>4, <2>5
  <1>19. ts \in Seq(Token)
    BY <1>3, <1>10, ConcatProperties
  <1>20. QED
    BY <1>19, <1>12, <1>13, <1>15, <1>16, <1>17, <1>18 DEF ts

\* unpack is the opposite of pack, but for what Kept says.
LEMMA UnpackPacked ==
    ASSUME kind \in {Component, System}, NEW c \in Contents(kind)
    PROVE  Unpack(kind, Pack(kind, c)) = Kept(c)
  <1> DEFINE b == Pack(kind, c)
  <1>1. /\ UnpackFields(FieldsOf(kind), b.tokens) = c.fields
        /\ Between(b.tokens, ChildStart, ChildEnd) = c.children
        /\ Items(Between(b.tokens, DeviceStart, DeviceEnd)) = c.device
        /\ Items(Between(b.tokens, UserStart, UserEnd)) = c.user
        /\ kind = Component => Items(Between(b.tokens, AxStart, AxEnd)) = c.ax
        /\ b.tokens \in Seq(Token)
    BY PartsFound, ItemsOfPacked DEF Contents
  <1>2. c = [fields |-> c.fields, children |-> c.children, device |-> c.device,
             user |-> c.user, ax |-> c.ax]
    BY DEF Contents
  <1> HIDE DEF b
  <1>3. CASE kind = Component
    <2>1. Inside(b.tokens, ScanTo(ChildStart, b.tokens), PlaceOf(ChildEnd, b.tokens)) = c.children
      <3>1. ChildStart \in Delimiters /\ ChildEnd \in Delimiters
        BY DEF Delimiters
      <3>2. QED
        BY <1>1, <3>1, SameBetween
    <2>2. QED
      BY <1>1, <1>2, <1>3, <2>1 DEF Unpack, UnpackComponent, Kept, FieldsOf, b
  <1>4. CASE kind = System
    <2>1. c.ax = <<>>
      BY <1>4 DEF Contents
    <2>2. QED
      BY <1>1, <1>2, <1>4, <2>1, Kinds DEF Unpack, UnpackSystem, Kept, FieldsOf, b
  <1>5. QED
    BY <1>3, <1>4

\* unpack_component reads the k-th field into the k-th of its own order,
\* unpack_system everything.
LEMMA UnpackPackedInC ==
    ASSUME kind \in {Component, System}, NEW c \in Contents(kind), blob = Pack(kind, c)
    PROVE  KeptInC(c)
  <1>1. CASE kind = Component
    <2> DEFINE C == CComponentFields
    <2>1. /\ C \in [1 .. 35 -> ToSet(C)]
          /\ \A i \in 1 .. 35 : C[i] = ComponentFields[IF i < 30 THEN i ELSE i + 2]
      BY DEF CComponentFields, ToSet
    <2>2. C \in Seq(ToSet(C)) /\ Len(C) = 35
      <3> DEFINE D == ToSet(C)
      <3>1. C \in [1 .. 35 -> D]
        BY <2>1, Zenon
      <3> HIDE DEF C, D
      <3>2. C \in Seq(D)
        BY <3>1, SeqDef
      <3>3. C \in Seq(D) /\ Len(C) = 35
        BY <3>1, <3>2, LenProperties
      <3>4. QED
        BY <3>3 DEF D
    <2>3. ASSUME NEW i \in 1 .. 35, NEW j \in 1 .. 35, C[i] = C[j] PROVE i = j
      BY <2>1, <2>3, FieldsDistinct
    <2>4. ASSUME NEW p \in DOMAIN C
          PROVE  UnpackC(kind, blob).fields[C[p]] = c.fields[ComponentFields[p]]
      <3>1. p \in 1 .. 35
        BY <2>1
      <3>2. PlaceOf(C[p], C) = p
        <4>1. \A m \in 1 .. p - 1 : C[m] # C[p]
          BY <2>3, <3>1
        <4>2. QED
          BY <2>2, <3>1, <4>1, PlaceIs
      <3>3. UnpackC(kind, blob).fields[C[p]] = ItemAt(blob.tokens, 3 * p - 2)
        <4>1. UnpackC(kind, blob).fields = UnpackFields(C, blob.tokens)
          BY <1>1 DEF UnpackC, UnpackCComponent
        <4>2. UnpackFields(C, blob.tokens)
                = [f \in ToSet(C) |-> ItemAt(blob.tokens, 3 * PlaceOf(f, C) - 2)]
          BY FieldsAtPlaces DEF Orders
        <4>3. C[p] \in ToSet(C)
          BY <2>1, <3>1
        <4>4. QED
          BY <3>2, <4>1, <4>2, <4>3
      <3>4. ItemAt(blob.tokens, 3 * p - 2) = c.fields[ComponentFields[p]]
        <4>1. FieldsOf(kind) = ComponentFields
          BY <1>1 DEF FieldsOf
        <4>2. p \in 1 .. Len(ComponentFields)
          BY <3>1, FieldOrder
        <4>3. QED
          BY <4>1, <4>2, PartsFound
      <3>5. QED
        BY <3>3, <3>4
    <2>5. QED
      BY <1>1, <2>4, Kinds DEF KeptInC
  <1>2. CASE kind = System
    <2>1. /\ UnpackFields(SystemFields, blob.tokens) = c.fields
          /\ Between(blob.tokens, ChildStart, ChildEnd) = c.children
          /\ Items(Between(blob.tokens, DeviceStart, DeviceEnd)) = c.device
          /\ Items(Between(blob.tokens, UserStart, UserEnd)) = c.user
          /\ c.ax = <<>> /\ blob.tokens \in Seq(Token)
      BY <1>2, PartsFound, ItemsOfPacked, Kinds DEF Contents, FieldsOf
    <2>2. c = [fields |-> c.fields, children |-> c.children, device |-> c.device,
               user |-> c.user, ax |-> c.ax]
      BY DEF Contents
    <2>3. /\ Inside(blob.tokens, PrefixScan(ChildStart, blob.tokens),
                                 PrefixPlace(ChildEnd, blob.tokens)) = c.children
          /\ Items(BetweenC(blob.tokens, DeviceStart, DeviceEnd)) = c.device
          /\ Items(BetweenC(blob.tokens, UserStart, UserEnd)) = c.user
      <3>1. /\ ChildStart \in Delimiters /\ ChildEnd \in Delimiters
            /\ DeviceStart \in Delimiters /\ DeviceEnd \in Delimiters
            /\ UserStart \in Delimiters /\ UserEnd \in Delimiters
        BY DEF Delimiters
      <3>2. QED
        BY <2>1, <3>1, SameBetween
    <2>4. QED
      BY <1>2, <2>1, <2>2, <2>3, Kinds DEF KeptInC, UnpackC, UnpackCSystem
  <1>3. QED
    BY <1>1, <1>2

-----------------------------------------------------------------------------
(* Sums over a sequence.                                                   *)

\* The numbers that F gives to the members of a sequence.
Mapped(F, s) == [k \in DOMAIN s |-> F[s[k]]]
Measures(F, S) == F \in [S -> Nat]

LEMMA MappedType ==
    ASSUME NEW S, NEW F, Measures(F, S), NEW s \in Seq(S)
    PROVE  /\ Mapped(F, s) \in Seq(Nat) /\ Len(Mapped(F, s)) = Len(s)
           /\ \A i \in 1 .. Len(s) : Mapped(F, s)[i] = F[s[i]]
           /\ Total(Mapped(F, s)) \in Nat
  <1>1. /\ Len(s) \in Nat /\ DOMAIN s = 1 .. Len(s)
        /\ \A i \in 1 .. Len(s) : F[s[i]] \in Nat
    BY LenProperties, ElementOfSeq DEF Measures
  <1>2. /\ Mapped(F, s) \in Seq(Nat) /\ Len(Mapped(F, s)) = Len(s)
        /\ \A i \in 1 .. Len(s) : Mapped(F, s)[i] = F[s[i]]
    BY <1>1 DEF Mapped
  <1>3. Total(Mapped(F, s)) \in Nat
    BY <1>2, TotalMonotonic, LenProperties
  <1>4. QED
    BY <1>2, <1>3

\* m is s and then t.
Concatenates(m, s, t) ==
    /\ m \in Seq(Nat) /\ Len(m) = Len(s) + Len(t)
    /\ \A i \in 1 .. Len(s) + Len(t) :
            m[i] = IF i <= Len(s) THEN s[i] ELSE t[i - Len(s)]

LEMMA NumbersConcat ==
    ASSUME NEW s \in Seq(Nat), NEW t \in Seq(Nat)
    PROVE  Concatenates(s \o t, s, t)
  BY ConcatProperties DEF Concatenates

LEMMA MappedConcat ==
    ASSUME NEW S, NEW F, Measures(F, S), NEW a \in Seq(S), NEW b \in Seq(S)
    PROVE  Total(Mapped(F, a \o b)) = Total(Mapped(F, a)) + Total(Mapped(F, b))
  <1> DEFINE ma == Mapped(F, a)
             mb == Mapped(F, b)
             m  == ma \o mb
             ab == a \o b
  <1>1. /\ ma \in Seq(Nat) /\ Len(ma) = Len(a) /\ Len(a) \in Nat
        /\ mb \in Seq(Nat) /\ Len(mb) = Len(b) /\ Len(b) \in Nat
        /\ \A i \in 1 .. Len(a) : ma[i] = F[a[i]]
        /\ \A i \in 1 .. Len(b) : mb[i] = F[b[i]]
    <2>1. /\ ma \in Seq(Nat) /\ Len(ma) = Len(a)
          /\ \A i \in 1 .. Len(a) : ma[i] = F[a[i]]
      BY MappedType
    <2>2. /\ mb \in Seq(Nat) /\ Len(mb) = Len(b)
          /\ \A i \in 1 .. Len(b) : mb[i] = F[b[i]]
      BY MappedType
    <2>3. QED
      BY <2>1, <2>2, LenProperties
  <1>2. /\ ab \in Seq(S) /\ Len(ab) = Len(a) + Len(b)
        /\ \A i \in 1 .. Len(a) + Len(b) :
              ab[i] = IF i <= Len(a) THEN a[i] ELSE b[i - Len(a)]
    BY ConcatProperties
  <1> HIDE DEF ma, mb, ab
  <1>3. /\ m \in Seq(Nat) /\ Len(m) = Len(a) + Len(b)
        /\ \A i \in 1 .. Len(a) + Len(b) :
              m[i] = IF i <= Len(a) THEN ma[i] ELSE mb[i - Len(a)]
    <2>1. /\ m \in Seq(Nat) /\ Len(m) = Len(ma) + Len(mb)
          /\ \A i \in 1 .. Len(ma) + Len(mb) :
                m[i] = IF i <= Len(ma) THEN ma[i] ELSE mb[i - Len(ma)]
      <3>1. Concatenates(m, ma, mb)
        BY <1>1, NumbersConcat, Zenon
      <3>2. QED
        BY <3>1, Zenon DEF Concatenates
    <2>2. QED
      BY <1>1, <2>1
  <1>4. /\ Mapped(F, ab) \in Seq(Nat) /\ Len(Mapped(F, ab)) = Len(a) + Len(b)
        /\ \A i \in 1 .. Len(a) + Len(b) : Mapped(F, ab)[i] = F[ab[i]]
    <2>1. ab \in Seq(S)
      BY <1>2
    <2>2. /\ Mapped(F, ab) \in Seq(Nat) /\ Len(Mapped(F, ab)) = Len(ab)
          /\ \A i \in 1 .. Len(ab) : Mapped(F, ab)[i] = F[ab[i]]
      BY <2>1, MappedType
    <2>3. QED
      BY <1>2, <2>2
  <1> HIDE DEF m
  <1>5. ASSUME NEW i \in 1 .. Len(a) + Len(b) PROVE Mapped(F, ab)[i] = m[i]
    <2>1. CASE i <= Len(a)
      <3>1. i \in 1 .. Len(a)
        BY <1>1, <2>1
      <3>2. ab[i] = a[i] /\ m[i] = ma[i]
        BY <1>2, <1>3, <2>1
      <3>3. QED
        BY <1>1, <1>4, <3>1, <3>2
    <2>2. CASE ~(i <= Len(a))
      <3>1. i - Len(a) \in 1 .. Len(b)
        BY <1>1, <2>2
      <3>2. ab[i] = b[i - Len(a)] /\ m[i] = mb[i - Len(a)]
        BY <1>2, <1>3, <2>2
      <3>3. QED
        BY <1>1, <1>4, <3>1, <3>2
    <2>3. QED
      BY <2>1, <2>2
  <1>6. Mapped(F, ab) = m
    BY <1>3, <1>4, <1>5, SeqEqual
  <1>7. Total(m) = Total(ma) + Total(mb)
    BY <1>1, TotalConcat DEF m
  <1>8. QED
    BY <1>6, <1>7 DEF ma, mb, ab

-----------------------------------------------------------------------------
(* The size.                                                               *)

\* What strings take in a blob, and what items were measured to take.
Widths(ts) == [k \in DOMAIN ts |-> Width(ts[k]) + 1]
Bytes(ts) == Total(Widths(ts))
Lengths(ds) == [k \in DOMAIN ds |-> ItemLength(ds[k])]

LEMMA TokenWidths ==
    /\ \A t \in Token : Width(t) \in Nat
    /\ \A d \in TextItem : ItemLength(d) \in Nat
  <1>1. \A t \in Token : Width(t) \in Nat
    BY TextAssumption, DelimiterAssumption DEF Token, Delimiters
  <1>2. ASSUME NEW d \in TextItem PROVE ItemLength(d) \in Nat
    <2>1. Width(d.ac) \in Nat /\ Width(d.name) \in Nat /\ Width(d.value) \in Nat
      BY TextAssumption DEF TextItem
    <2>2. QED
      BY <2>1 DEF ItemLength
  <1>3. QED
    BY <1>1, <1>2

LEMMA WidthsType ==
    ASSUME NEW ts \in Seq(Token)
    PROVE  /\ Widths(ts) \in Seq(Nat) /\ Len(Widths(ts)) = Len(ts)
           /\ \A i \in 1 .. Len(ts) : Widths(ts)[i] = Width(ts[i]) + 1
           /\ Bytes(ts) \in Nat
  <1> DEFINE F == [t \in Token |-> Width(t) + 1]
  <1>1. Measures(F, Token)
    BY TokenWidths DEF Measures
  <1>2. \A i \in 1 .. Len(ts) : ts[i] \in Token /\ F[ts[i]] = Width(ts[i]) + 1
    BY ElementOfSeq
  <1>3. Mapped(F, ts) = Widths(ts)
    BY <1>2, LenProperties DEF Mapped, Widths
  <1> HIDE DEF F
  <1>4. QED
    BY <1>1, <1>2, <1>3, MappedType DEF Bytes

LEMMA BytesConcat ==
    ASSUME NEW a \in Seq(Token), NEW b \in Seq(Token)
    PROVE  Bytes(a \o b) = Bytes(a) + Bytes(b)
  <1> DEFINE F == [t \in Token |-> Width(t) + 1]
  <1>1. Measures(F, Token)
    BY TokenWidths DEF Measures
  <1>2. ASSUME NEW s \in Seq(Token) PROVE Total(Mapped(F, s)) = Bytes(s)
    <2>1. \A i \in 1 .. Len(s) : F[s[i]] = Width(s[i]) + 1
      BY ElementOfSeq
    <2>2. Mapped(F, s) = Widths(s)
      BY <2>1, LenProperties DEF Mapped, Widths
    <2>3. QED
      BY <2>2 DEF Bytes
  <1> HIDE DEF F
  <1>3. a \o b \in Seq(Token)
    BY ConcatProperties
  <1>4. Total(Mapped(F, a \o b)) = Total(Mapped(F, a)) + Total(Mapped(F, b))
    BY <1>1, MappedConcat
  <1>5. QED
    BY <1>2, <1>3, <1>4

LEMMA LengthsType ==
    ASSUME NEW ds \in Seq(TextItem)
    PROVE  /\ Lengths(ds) \in Seq(Nat) /\ Len(Lengths(ds)) = Len(ds)
           /\ \A i \in 1 .. Len(ds) : Lengths(ds)[i] = ItemLength(ds[i])
           /\ Total(Lengths(ds)) \in Nat
  <1> DEFINE F == [d \in TextItem |-> ItemLength(d)]
  <1>1. Measures(F, TextItem)
    BY TokenWidths DEF Measures
  <1>2. \A i \in 1 .. Len(ds) : ds[i] \in TextItem /\ F[ds[i]] = ItemLength(ds[i])
    BY ElementOfSeq
  <1>3. Mapped(F, ds) = Lengths(ds)
    BY <1>2, LenProperties DEF Mapped, Lengths
  <1> HIDE DEF F
  <1>4. QED
    BY <1>1, <1>2, <1>3, MappedType

LEMMA LengthsConcat ==
    ASSUME NEW a \in Seq(TextItem), NEW b \in Seq(TextItem)
    PROVE  Total(Lengths(a \o b)) = Total(Lengths(a)) + Total(Lengths(b))
  <1> DEFINE F == [d \in TextItem |-> ItemLength(d)]
  <1>1. Measures(F, TextItem)
    BY TokenWidths DEF Measures
  <1>2. ASSUME NEW s \in Seq(TextItem) PROVE Mapped(F, s) = Lengths(s)
    <2>1. \A i \in 1 .. Len(s) : F[s[i]] = ItemLength(s[i])
      BY ElementOfSeq
    <2>2. QED
      BY <2>1, LenProperties DEF Mapped, Lengths
  <1> HIDE DEF F
  <1>3. a \o b \in Seq(TextItem)
    BY ConcatProperties
  <1>4. Total(Mapped(F, a \o b)) = Total(Mapped(F, a)) + Total(Mapped(F, b))
    BY <1>1, MappedConcat
  <1>5. QED
    BY <1>2, <1>3, <1>4

LEMMA TotalOne ==
    ASSUME NEW n \in Nat
    PROVE  Total(<<n>>) = n
  <1> DEFINE f == [i \in 0 .. 1 |-> IF i = 0 THEN 0 ELSE n]
  <1>1. <<n>> \in Seq(Nat) /\ Len(<<n>>) = 1 /\ <<n>>[1] = n
    OBVIOUS
  <1>2. Sums(f, <<n>>)
    BY <1>1 DEF Sums
  <1>3. QED
    BY <1>1, <1>2, TotalIs

LEMMA BytesFramed ==
    ASSUME NEW s \in Seq(Token), NEW x \in Token, NEW y \in Token
    PROVE  Bytes(Framed(x, s, y)) = Width(x) + Width(y) + 2 + Bytes(s)
  <1>1. ASSUME NEW t \in Token PROVE Bytes(<<t>>) = Width(t) + 1
    <2>1. Widths(<<t>>) = <<Width(t) + 1>>
      BY DEF Widths
    <2>2. Width(t) + 1 \in Nat
      BY TokenWidths
    <2>3. QED
      BY <2>1, <2>2, TotalOne DEF Bytes
  <1>2. <<x>> \in Seq(Token) /\ <<y>> \in Seq(Token) /\ <<x>> \o s \in Seq(Token)
    BY ConcatProperties
  <1>3. Bytes((<<x>> \o s) \o <<y>>) = Bytes(<<x>>) + Bytes(s) + Bytes(<<y>>)
    BY <1>2, BytesConcat
  <1>4. Width(x) \in Nat /\ Width(y) \in Nat /\ Bytes(s) \in Nat
    BY TokenWidths, WidthsType
  <1>5. QED
    BY <1>1, <1>3, <1>4 DEF Framed

\* Three strings of an item take what getPackedLength says.
LEMMA BytesPacked ==
    ASSUME NEW ds \in Seq(TextItem)
    PROVE  Bytes(PackItems(ds)) = Total(Lengths(ds))
  <1> DEFINE ts == PackItems(ds)
             ws == Widths(ts)
             ls == Lengths(ds)
             n  == Len(ds)
  <1>1. /\ n \in Nat /\ ls \in Seq(Nat) /\ Len(ls) = n
        /\ \A i \in 1 .. n : ls[i] = ItemLength(ds[i])
    BY LengthsType, LenProperties
  <1>2. ts \in Seq(Token) /\ Len(ts) = 3 * n
    BY PackedItems, SeqMonotonic DEF Token
  <1>3. /\ ws \in Seq(Nat) /\ Len(ws) = 3 * n
        /\ \A i \in 1 .. 3 * n : ws[i] = Width(ts[i]) + 1 /\ ws[i] \in Nat
    BY <1>2, WidthsType, ElementOfSeq
  <1>4. ASSUME NEW k \in 1 .. n
        PROVE  ls[k] = ws[3 * k - 2] + ws[3 * k - 1] + ws[3 * k]
    <2>1. 3 * k - 2 \in 1 .. 3 * n /\ 3 * k - 1 \in 1 .. 3 * n /\ 3 * k \in 1 .. 3 * n
      BY <1>1
    <2>2. /\ ws[3 * k - 2] = Width(ds[k].ac) + 1 /\ ws[3 * k - 1] = Width(ds[k].name) + 1
          /\ ws[3 * k] = Width(ds[k].value) + 1
      BY <1>3, <2>1, PackedItems
    <2>3. ds[k] \in TextItem
      BY ElementOfSeq
    <2>4. Width(ds[k].ac) \in Nat /\ Width(ds[k].name) \in Nat /\ Width(ds[k].value) \in Nat
      BY <2>3, TextAssumption DEF TextItem
    <2>5. QED
      BY <1>1, <2>2, <2>4 DEF ItemLength
  <1> HIDE DEF ts, ws, ls
  <1>5. PICK f : Sums(f, ls)
    BY <1>1, SumsExist
  <1>6. PICK g : Sums(g, ws)
    BY <1>3, SumsExist
  <1> DEFINE T == {k \in 0 .. n : g[3 * k] = f[k]}
  <1>7. 0 \in T
    BY <1>1, <1>5, <1>6 DEF Sums
  <1>8. ASSUME NEW k \in 0 .. n - 1, k \in T PROVE k + 1 \in T
    <2>1. /\ k \in Nat /\ k + 1 \in 1 .. n /\ (k + 1) - 1 = k
          /\ 3 * (k + 1) = 3 * k + 3 /\ 3 * (k + 1) - 2 = 3 * k + 1 /\ 3 * (k + 1) - 1 = 3 * k + 2
          /\ 3 * k + 1 \in 1 .. 3 * n /\ 3 * k + 2 \in 1 .. 3 * n /\ 3 * k + 3 \in 1 .. 3 * n
          /\ (3 * k + 1) - 1 = 3 * k /\ (3 * k + 2) - 1 = 3 * k + 1 /\ (3 * k + 3) - 1 = 3 * k + 2
          /\ 3 * k \in 0 .. 3 * n
      BY <1>1
    <2>2. /\ g[3 * k + 1] = g[3 * k] + ws[3 * k + 1] /\ g[3 * k + 2] = g[3 * k + 1] + ws[3 * k + 2]
          /\ g[3 * k + 3] = g[3 * k + 2] + ws[3 * k + 3] /\ g[3 * k] \in Nat
      BY <1>3, <1>6, <2>1 DEF Sums
    <2>3. ws[3 * k + 1] \in Nat /\ ws[3 * k + 2] \in Nat /\ ws[3 * k + 3] \in Nat
      BY <1>3, <2>1
    <2>4. f[k + 1] = f[k] + ls[k + 1]
      BY <1>1, <1>5, <2>1 DEF Sums
    <2>5. ls[k + 1] = ws[3 * k + 1] + ws[3 * k + 2] + ws[3 * k + 3]
      BY <1>4, <2>1
    <2>6. g[3 * k] = f[k]
      BY <1>8
    <2> DEFINE u == ws[3 * k + 1]
               v == ws[3 * k + 2]
               w == ws[3 * k + 3]
    <2>7. g[3 * k + 3] = ((f[k] + u) + v) + w /\ f[k + 1] = f[k] + (u + v + w) /\ f[k] \in Nat
      BY <2>2, <2>4, <2>5, <2>6, Zenon
    <2>8. u \in Nat /\ v \in Nat /\ w \in Nat
      BY <2>3
    <2> HIDE DEF u, v, w
    <2>9. g[3 * k + 3] = f[k + 1]
      BY <2>7, <2>8
    <2>10. g[3 * (k + 1)] = f[k + 1]
      BY <2>1, <2>9, Zenon
    <2>11. k + 1 \in 0 .. n
      BY <2>1
    <2>12. QED
      BY <2>10, <2>11, Zenon
  <1> HIDE DEF T
  <1>9. 0 .. n \subseteq T
    BY <1>1, <1>7, <1>8, Induct
  <1>10. g[3 * n] = f[n]
    <2>1. n \in T
      BY <1>1, <1>9
    <2>2. QED
      BY <2>1, Zenon DEF T
  <1>11. Total(ls) = f[n] /\ Total(ws) = g[3 * n]
    BY <1>1, <1>3, <1>5, <1>6, TotalIs
  <1>12. QED
    BY <1>10, <1>11 DEF Bytes, ts, ws, ls

\* The fields, in the order they are packed in.
Ordered(k, c) == [p \in DOMAIN FieldsOf(k) |-> c.fields[FieldsOf(k)[p]]]

\* getPackedSize: one byte more per list item than it takes, and one more
\* than the delimiters take.
LEMMA PackedSizeIs ==
    ASSUME NEW k \in {Component, System}, NEW c \in Contents(k)
    PROVE  /\ Ordered(k, c) \in Seq(TextItem)
           /\ PackedSize(k, c) \in Nat
           /\ PackedSize(k, c) >= InitBufSize(k) + HeaderSize(k) + Total(Lengths(Ordered(k, c)))
                + Total(Lengths(c.device)) + Total(Lengths(c.user)) + Total(Lengths(c.ax))
                + Bytes(c.children)
  <1> DEFINE o  == Ordered(k, c)
             dl == c.device \o c.user \o c.ax
             plus == [i \in DOMAIN dl |-> ItemLength(dl[i]) + 1]
  <1>1. /\ c.fields \in [ToSet(FieldsOf(k)) -> TextItem] /\ c.children \in Seq(Token)
        /\ c.device \in Seq(TextItem) /\ c.user \in Seq(TextItem) /\ c.ax \in Seq(TextItem)
    BY TextAvoids DEF Contents
  <1>2. o \in Seq(TextItem)
    <2>1. /\ Len(FieldsOf(k)) \in Nat /\ DOMAIN FieldsOf(k) = 1 .. Len(FieldsOf(k))
          /\ \A p \in 1 .. Len(FieldsOf(k)) : FieldsOf(k)[p] \in ToSet(FieldsOf(k))
      BY FieldOrder, LenProperties, ElementOfSeq
    <2>2. o \in [1 .. Len(FieldsOf(k)) -> TextItem]
      BY <1>1, <2>1 DEF Ordered
    <2>3. QED
      BY <2>1, <2>2, SeqDef
  <1> HIDE DEF o
  <1>3. c.device \o c.user \in Seq(TextItem) /\ dl \in Seq(TextItem)
    BY <1>1, ConcatProperties
  <1>4. Total(Lengths(dl)) =
            Total(Lengths(c.device)) + Total(Lengths(c.user)) + Total(Lengths(c.ax))
    BY <1>1, <1>3, LengthsConcat
  <1> HIDE DEF dl
  <1>5. Total(Lengths(dl)) <= Total(plus) /\ Total(plus) \in Nat
    <2>1. /\ Lengths(dl) \in Seq(Nat) /\ Len(Lengths(dl)) = Len(dl) /\ Len(dl) \in Nat
          /\ DOMAIN dl = 1 .. Len(dl)
          /\ \A i \in 1 .. Len(dl) : Lengths(dl)[i] = ItemLength(dl[i])
      BY <1>3, LengthsType, LenProperties
    <2>2. \A i \in 1 .. Len(dl) : ItemLength(dl[i]) \in Nat
      BY <1>3, ElementOfSeq, TokenWidths
    <2>3. /\ plus \in Seq(Nat) /\ Len(plus) = Len(dl)
          /\ \A i \in 1 .. Len(dl) : plus[i] = ItemLength(dl[i]) + 1
      BY <2>1, <2>2
    <2> HIDE DEF plus
    <2>4. \A i \in 1 .. Len(dl) : Lengths(dl)[i] <= plus[i]
      BY <2>1, <2>2, <2>3
    <2>5. QED
      BY <2>1, <2>3, <2>4, TotalMonotonic
  <1>6. /\ Total(Lengths(o)) \in Nat /\ Bytes(c.children) \in Nat
        /\ Total(Lengths(c.device)) \in Nat /\ Total(Lengths(c.user)) \in Nat
        /\ Total(Lengths(c.ax)) \in Nat
    BY <1>1, <1>2, LengthsType, WidthsType
  <1>7. SumOf(LAMBDA f : ItemLength(c.fields[f]), FieldsOf(k)) = Total(Lengths(o))
    BY DEF SumOf, Lengths, o, Ordered
  <1>8. SumOf(LAMBDA d : ItemLength(d) + 1, dl) = Total(plus)
    BY DEF SumOf
  <1>9. SumOf(LAMBDA x : Width(x) + 1, c.children) = Bytes(c.children)
    BY DEF SumOf, Bytes, Widths
  <1> HIDE DEF plus
  <1>10. PackedSize(k, c) = InitBufSize(k) + HeaderSize(k) + Total(Lengths(o)) + Total(plus)
                              + Bytes(c.children)
    BY <1>7, <1>8, <1>9 DEF PackedSize, dl
  <1>11. InitBufSize(k) \in Nat /\ HeaderSize(k) \in Nat
    BY DEF InitBufSize, HeaderSize
  <1>13. Total(Lengths(c.device)) + Total(Lengths(c.user)) + Total(Lengths(c.ax)) <= Total(plus)
    BY <1>4, <1>5, Zenon
  <1>14. /\ PackedSize(k, c) \in Nat
         /\ PackedSize(k, c) >= InitBufSize(k) + HeaderSize(k) + Total(Lengths(o))
              + Total(Lengths(c.device)) + Total(Lengths(c.user)) + Total(Lengths(c.ax))
              + Bytes(c.children)
    <2> DEFINE x1 == InitBufSize(k)
               x2 == HeaderSize(k)
               x3 == Total(Lengths(o))
               x4 == Total(Lengths(c.device))
               x5 == Total(Lengths(c.user))
               x6 == Total(Lengths(c.ax))
               x7 == Bytes(c.children)
               y  == Total(plus)
    <2>1. /\ x1 \in Nat /\ x2 \in Nat /\ x3 \in Nat /\ x4 \in Nat
          /\ x5 \in Nat /\ x6 \in Nat /\ x7 \in Nat /\ y \in Nat
      BY <1>5, <1>6, <1>11
    <2>2. PackedSize(k, c) = x1 + x2 + x3 + y + x7 /\ x4 + x5 + x6 <= y
      BY <1>10, <1>13
    <2> HIDE DEF x1, x2, x3, x4, x5, x6, x7, y
    <2>3. /\ x1 + x2 + x3 + y + x7 \in Nat
          /\ x1 + x2 + x3 + y + x7 >= x1 + x2 + x3 + x4 + x5 + x6 + x7
      BY <2>1, <2>2
    <2>4. /\ PackedSize(k, c) \in Nat
          /\ PackedSize(k, c) >= x1 + x2 + x3 + x4 + x5 + x6 + x7
      BY <2>2, <2>3
    <2>5. QED
      BY <2>4 DEF x1, x2, x3, x4, x5, x6, x7
  <1>15. QED
    BY <1>2, <1>14, Zenon DEF o

\* pack stays within the buffer of getPackedSize.
LEMMA Fits ==
    ASSUME NEW k \in {Component, System}, NEW c \in Contents(k)
    PROVE  BlobBytes(k, Pack(k, c)) <= Pack(k, c).size
  <1> DEFINE f  == PackFields(FieldsOf(k), c.fields)
             d  == PackItems(c.device)
             u  == PackItems(c.user)
             x  == PackItems(c.ax)
             b1 == Framed(ChildStart, c.children, ChildEnd)
             b2 == Framed(DeviceStart, d, DeviceEnd)
             b3 == Framed(UserStart, u, UserEnd)
             b4 == IF k = Component THEN Framed(AxStart, x, AxEnd) ELSE <<>>
  <1>1. /\ c.children \in Seq(Token) /\ c.device \in Seq(TextItem)
        /\ c.user \in Seq(TextItem) /\ c.ax \in Seq(TextItem)
    BY TextAvoids DEF Contents
  <1>2. f = PackItems(Ordered(k, c)) /\ Ordered(k, c) \in Seq(TextItem)
    BY PackedSizeIs DEF PackFields, Ordered
  <1>3. f \in Seq(Token) /\ d \in Seq(Token) /\ u \in Seq(Token) /\ x \in Seq(Token)
    BY <1>1, <1>2, PackedItems, TextAvoids
  <1>4. /\ Bytes(f) = Total(Lengths(Ordered(k, c))) /\ Bytes(d) = Total(Lengths(c.device))
        /\ Bytes(u) = Total(Lengths(c.user)) /\ Bytes(x) = Total(Lengths(c.ax))
    BY <1>1, <1>2, BytesPacked
  <1>5. /\ Bytes(f) \in Nat /\ Bytes(d) \in Nat /\ Bytes(u) \in Nat /\ Bytes(x) \in Nat
        /\ Bytes(c.children) \in Nat
    BY <1>1, <1>3, WidthsType
  <1>6. Pack(k, c).tokens = f \o (((b1 \o b2) \o b3) \o b4)
    BY DEF Pack, Lists
  <1> HIDE DEF f, d, u, x
  <1>7. /\ b1 \in Seq(Token) /\ b2 \in Seq(Token) /\ b3 \in Seq(Token) /\ b4 \in Seq(Token)
    <2>1. Framed(AxStart, x, AxEnd) \in Seq(Token) /\ <<>> \in Seq(Token)
      BY <1>3, DelimitersDistinct, FramedProperties
    <2>2. QED
      BY <1>1, <1>3, <2>1, DelimitersDistinct, FramedProperties
  <1>8. /\ Bytes(b1) = 34 + Bytes(c.children) /\ Bytes(b2) = 46 + Bytes(d)
        /\ Bytes(b3) = 26 + Bytes(u)
    <2>1. Bytes(b1) = Width(ChildStart) + Width(ChildEnd) + 2 + Bytes(c.children)
      BY <1>1, DelimitersDistinct, BytesFramed
    <2>2. Bytes(b2) = Width(DeviceStart) + Width(DeviceEnd) + 2 + Bytes(d)
      BY <1>3, DelimitersDistinct, BytesFramed
    <2>3. Bytes(b3) = Width(UserStart) + Width(UserEnd) + 2 + Bytes(u)
      BY <1>3, DelimitersDistinct, BytesFramed
    <2>4. QED
      BY <1>5, <2>1, <2>2, <2>3, DelimiterAssumption
  <1>9. Bytes(b4) <= (IF k = Component THEN 22 ELSE 0) + Bytes(x) /\ Bytes(b4) \in Nat
    <2>1. CASE k = Component
      <3>1. Bytes(Framed(AxStart, x, AxEnd)) = Width(AxStart) + Width(AxEnd) + 2 + Bytes(x)
        BY <1>3, DelimitersDistinct, BytesFramed
      <3>2. QED
        BY <1>5, <2>1, <3>1, DelimiterAssumption
    <2>2. CASE k # Component
      <3>1. Total(<<>>) = 0
        <4> DEFINE z == [i \in 0 .. 0 |-> 0]
        <4>1. Sums(z, <<>>) /\ <<>> \in Seq(Nat) /\ Len(<<>>) = 0 /\ z[0] = 0
          BY DEF Sums
        <4> HIDE DEF z
        <4>2. QED
          BY <4>1, TotalIs
      <3>2. Widths(<<>>) = <<>>
        BY DEF Widths
      <3>3. QED
        BY <1>5, <2>2, <3>1, <3>2 DEF Bytes
    <2>3. QED
      BY <2>1, <2>2
  <1> HIDE DEF b1, b2, b3, b4
  <1>10. Bytes(Pack(k, c).tokens) = Bytes(f) + (Bytes(b1) + Bytes(b2) + Bytes(b3) + Bytes(b4))
    <2>1. b1 \o b2 \in Seq(Token) /\ Bytes(b1 \o b2) = Bytes(b1) + Bytes(b2)
      BY <1>7, ConcatProperties, BytesConcat
    <2> DEFINE b12 == b1 \o b2
    <2> HIDE DEF b12
    <2>2. b12 \o b3 \in Seq(Token) /\ Bytes(b12 \o b3) = Bytes(b12) + Bytes(b3)
      BY <1>7, <2>1, ConcatProperties, BytesConcat DEF b12
    <2> DEFINE b123 == b12 \o b3
    <2> HIDE DEF b123
    <2>3. b123 \o b4 \in Seq(Token) /\ Bytes(b123 \o b4) = Bytes(b123) + Bytes(b4)
      BY <1>7, <2>2, ConcatProperties, BytesConcat DEF b123
    <2> DEFINE l == b123 \o b4
    <2> HIDE DEF l
    <2>4. Bytes(f \o l) = Bytes(f) + Bytes(l)
      BY <1>3, <2>3, BytesConcat DEF l
    <2>5. QED
      BY <1>6, <2>1, <2>2, <2>3, <2>4 DEF l, b123, b12
  <1>11. BlobBytes(k, Pack(k, c)) = HeaderSize(k) + Bytes(Pack(k, c).tokens)
    BY DEF BlobBytes, SumOf, Bytes, Widths
  <1>12. Pack(k, c).size = PackedSize(k, c)
    BY DEF Pack
  <1>13. /\ PackedSize(k, c) >= InitBufSize(k) + HeaderSize(k) + Bytes(f) + Bytes(d) + Bytes(u)
              + Bytes(x) + Bytes(c.children)
         /\ PackedSize(k, c) \in Nat
    BY <1>4, PackedSizeIs
  <1>14. CASE k = Component
    BY <1>5, <1>8, <1>9, <1>10, <1>11, <1>12, <1>13, <1>14 DEF InitBufSize, HeaderSize
  <1>15. CASE k = System
    BY <1>5, <1>8, <1>9, <1>10, <1>11, <1>12, <1>13, <1>15, Kinds DEF InitBufSize, HeaderSize
  <1>16. QED
    BY <1>14, <1>15

-----------------------------------------------------------------------------
(* Items in memory.                                                        *)

LEMMA NewType ==
    ASSUME NEW ac \in Text
    PROVE  New(ac) \in Item /\ New(ac).ac = ac /\ ~Stale(New(ac))
  BY DEF New, Item, Stale, Text

\* setValue keeps the acronym, and a cached length only with the value.
LEMMA SetValueType ==
    ASSUME NEW d \in Item, NEW v \in Values, NEW lvl \in Levels
    PROVE  /\ SetValue(d, v, lvl) \in Item /\ SetValue(d, v, lvl).ac = d.ac
           /\ ~Stale(d) => ~Stale(SetValue(d, v, lvl))
  <1>1. CASE lvl > d.pref /\ Width(v) > 0
    <2> DEFINE e == [d EXCEPT !.value = Clean(v), !.pref = lvl, !.cached = 0]
    <2>1. SetValue(d, v, lvl) = e
      BY <1>1 DEF SetValue
    <2>2. Clean(v) \in Text
      BY DEF Text
    <2>3. e \in Item /\ e.ac = d.ac /\ e.cached = 0
      BY <2>2 DEF Item
    <2>4. QED
      BY <2>1, <2>3 DEF Stale
  <1>2. CASE ~(lvl > d.pref /\ Width(v) > 0)
    BY <1>2 DEF SetValue
  <1>3. QED
    BY <1>1, <1>2

LEMMA ItemLengthType ==
    ASSUME NEW d, d \in Item \/ d \in TextItem
    PROVE  ItemLength(d) \in Nat
  <1>1. d.ac \in Text /\ d.name \in Text /\ d.value \in Text
    BY DEF Item, TextItem
  <1>2. Width(d.ac) \in Nat /\ Width(d.name) \in Nat /\ Width(d.value) \in Nat
    BY <1>1, TextAssumption
  <1>3. QED
    BY <1>2 DEF ItemLength

\* Once the length of an item was asked for, the cached one is exact.
LEMMA MeasuredType ==
    ASSUME NEW d \in Item
    PROVE  /\ Measured(d) \in Item /\ Plain(Measured(d)) = Plain(d)
           /\ Measured(d).ac = d.ac /\ Measured(d).value = d.value /\ Measured(d).pref = d.pref
           /\ ~Stale(d) => ~Stale(Measured(d))
  <1>1. ItemLength(d) \in Nat
    BY ItemLengthType
  <1>2. CASE d.cached = 0
    <2> DEFINE e == [d EXCEPT !.cached = ItemLength(d)]
    <2>1. Measured(d) = e
      BY <1>2 DEF Measured
    <2>2. /\ e \in Item /\ e.ac = d.ac /\ e.name = d.name /\ e.value = d.value
          /\ e.pref = d.pref /\ e.cached = ItemLength(d)
      BY <1>1 DEF Item
    <2>3. ItemLength(e) = ItemLength(d)
      BY <2>2 DEF ItemLength
    <2>4. QED
      BY <2>1, <2>2, <2>3 DEF Plain, Stale
  <1>3. CASE d.cached # 0
    BY <1>3 DEF Measured
  <1>4. QED
    BY <1>2, <1>3

LEMMA PlainType ==
    ASSUME NEW d \in Item
    PROVE  Plain(d) \in TextItem /\ Plain(d).ac = d.ac
  BY DEF Plain, Item, TextItem

LEMMA LoadedType ==
    ASSUME NEW d \in TextItem
    PROVE  /\ Loaded(d) \in Item /\ Loaded(d).ac = d.ac /\ Loaded(d).value = d.value
           /\ Loaded(d).pref = 0 /\ ~Stale(Loaded(d))
  <1>1. ItemLength(d) \in Nat
    BY ItemLengthType
  <1>2. ItemLength(Loaded(d)) = ItemLength(d)
    BY DEF ItemLength, Loaded
  <1>3. QED
    BY <1>1, <1>2 DEF Loaded, Stale, Item, TextItem

\* The same for lists.
LEMMA MeasuredList ==
    ASSUME NEW ds \in Seq(Item)
    PROVE  /\ Each(Measured, ds) \in Seq(Item) /\ DOMAIN Each(Measured, ds) = DOMAIN ds
           /\ \A k \in DOMAIN ds : Each(Measured, ds)[k] = Measured(ds[k])
           /\ ds = <<>> => Each(Measured, ds) = <<>>
  <1>1. Len(ds) \in Nat /\ DOMAIN ds = 1 .. Len(ds)
    BY LenProperties
  <1>2. \A k \in 1 .. Len(ds) : Measured(ds[k]) \in Item
    BY MeasuredType, ElementOfSeq
  <1>3. QED
    BY <1>1, <1>2 DEF Each

LEMMA PlainList ==
    ASSUME NEW ds \in Seq(Item)
    PROVE  /\ Each(Plain, ds) \in Seq(TextItem) /\ DOMAIN Each(Plain, ds) = DOMAIN ds
           /\ \A k \in DOMAIN ds : Each(Plain, ds)[k] = Plain(ds[k])
           /\ ds = <<>> => Each(Plain, ds) = <<>>
  <1>1. Len(ds) \in Nat /\ DOMAIN ds = 1 .. Len(ds)
    BY LenProperties
  <1>2. \A k \in 1 .. Len(ds) : Plain(ds[k]) \in TextItem
    BY PlainType, ElementOfSeq
  <1>3. QED
    BY <1>1, <1>2 DEF Each

LEMMA LoadedList ==
    ASSUME NEW ds \in Seq(TextItem)
    PROVE  /\ Each(Loaded, ds) \in Seq(Item) /\ DOMAIN Each(Loaded, ds) = DOMAIN ds
           /\ \A k \in DOMAIN ds : Each(Loaded, ds)[k] = Loaded(ds[k])
           /\ ds = <<>> => Each(Loaded, ds) = <<>>
  <1>1. Len(ds) \in Nat /\ DOMAIN ds = 1 .. Len(ds)
    BY LenProperties
  <1>2. \A k \in 1 .. Len(ds) : Loaded(ds[k]) \in Item
    BY LoadedType, ElementOfSeq
  <1>3. QED
    BY <1>1, <1>2 DEF Each

LEMMA AddedType ==
    ASSUME NEW ds \in Seq(Item), NEW ac \in Text, NEW v \in Values, NEW lvl \in Levels
    PROVE  /\ Added(ds, ac, v, lvl) \in Seq(Item)
           /\ DOMAIN Added(ds, ac, v, lvl) = 1 .. Len(ds) + 1 /\ DOMAIN ds = 1 .. Len(ds)
           /\ \A k \in 1 .. Len(ds) : Added(ds, ac, v, lvl)[k] = ds[k]
           /\ Added(ds, ac, v, lvl)[Len(ds) + 1].ac = ac
           /\ ~Stale(Added(ds, ac, v, lvl)[Len(ds) + 1])
  <1> DEFINE e == SetValue(New(ac), v, lvl)
  <1>1. e \in Item /\ e.ac = ac /\ ~Stale(e)
    BY NewType, SetValueType
  <1> HIDE DEF e
  <1>2. QED
    BY <1>1, AppendProperties, LenProperties DEF Added, e

\* A list with one member replaced, if there is such a member.
LEMMA ChangedType ==
    ASSUME NEW S, NEW s \in Seq(S), NEW k, NEW e, k \in DOMAIN s => e \in S
    PROVE  /\ [s EXCEPT ![k] = e] \in Seq(S) /\ DOMAIN [s EXCEPT ![k] = e] = DOMAIN s
           /\ \A i \in DOMAIN s : [s EXCEPT ![k] = e][i] = IF i = k THEN e ELSE s[i]
  <1>1. /\ Len(s) \in Nat /\ DOMAIN s = 1 .. Len(s) /\ s \in [1 .. Len(s) -> S]
        /\ \A i \in 1 .. Len(s) : s[i] \in S
    BY LenProperties, ElementOfSeq
  <1>2. [s EXCEPT ![k] = e] \in [1 .. Len(s) -> S]
    BY <1>1
  <1>3. [s EXCEPT ![k] = e] \in Seq(S)
    BY <1>1, <1>2, SeqDef
  <1>4. QED
    BY <1>1, <1>3

LEMMA RemoveFirstType ==
    ASSUME NEW S, NEW s \in Seq(S), NEW x \in ToSet(s)
    PROVE  RemoveFirst(s, x) \in Seq(S)
  <1> DEFINE p == PlaceOf(x, s)
  <1>1. p \in 1 .. Len(s) /\ s[p] = x /\ Len(s) \in Nat
    BY PlaceFound, LenProperties
  <1>2. RemoveFirst(s, x) = RemoveAt(s, p)
    BY <1>1 DEF RemoveFirst, PlaceOf
  <1> HIDE DEF p
  <1>3. \A i \in 1 .. Len(s) : s[i] \in S
    BY ElementOfSeq
  <1>4. SubSeq(s, 1, p - 1) \in Seq(S) /\ SubSeq(s, p + 1, Len(s)) \in Seq(S)
    BY <1>1, <1>3, SubSeqProperties
  <1>5. QED
    BY <1>2, <1>4, ConcatProperties DEF RemoveAt

\* The children that unpack keeps are among those that were stored.
LEMMA NonEmptyType ==
    ASSUME NEW C, NEW cs \in Seq(C)
    PROVE  NonEmpty(cs) \in Seq(C)
  <1> DEFINE n == Len(cs)
             Keep(s, i) == IF Width(cs[i]) > 0 THEN Append(s, cs[i]) ELSE s
             P(f, k) == /\ f \in [0 .. k -> Seq(C)] /\ f[0] = <<>>
                        /\ \A i \in 1 .. k : f[i] = Keep(f[i - 1], i)
             T == {k \in Nat : \E f : P(f, k)}
  <1>1. n \in Nat /\ \A i \in 1 .. n : cs[i] \in C
    BY LenProperties, ElementOfSeq
  <1>2. \A i \in 1 .. n : \A s \in Seq(C) : Keep(s, i) \in Seq(C)
    BY <1>1, AppendProperties
  <1> HIDE DEF Keep
  <1>3. 0 \in T
    <2>1. <<>> \in Seq(C)
      OBVIOUS
    <2>2. P([i \in 0 .. 0 |-> <<>>], 0)
      BY <2>1
    <2>3. QED
      BY <2>2
  <1>4. ASSUME NEW k \in 0 .. n - 1, k \in T PROVE k + 1 \in T
    <2>1. PICK f : P(f, k)
      BY <1>4
    <2> DEFINE g == [i \in 0 .. k + 1 |-> IF i = k + 1 THEN Keep(f[k], k + 1) ELSE f[i]]
    <2>2. k + 1 \in 1 .. n /\ k \in 0 .. k
      BY <1>1
    <2>3. Keep(f[k], k + 1) \in Seq(C)
      BY <1>2, <2>1, <2>2
    <2>4. P(g, k + 1)
      <3>1. g \in [0 .. k + 1 -> Seq(C)] /\ g[0] = <<>>
        BY <2>1, <2>3
      <3>2. ASSUME NEW i \in 1 .. k + 1 PROVE g[i] = Keep(g[i - 1], i)
        <4>1. CASE i = k + 1
          <5>1. i - 1 = k /\ k \in 0 .. k + 1 /\ i \in 0 .. k + 1 /\ k # k + 1
            BY <4>1
          <5>2. g[i] = Keep(f[k], k + 1) /\ g[i - 1] = f[k]
            BY <4>1, <5>1
          <5>3. QED
            BY <4>1, <5>2
        <4>2. CASE i # k + 1
          <5>1. i \in 1 .. k /\ i - 1 \in 0 .. k + 1 /\ i - 1 # k + 1 /\ i \in 0 .. k + 1
            BY <4>2
          <5>2. g[i] = f[i] /\ g[i - 1] = f[i - 1]
            BY <4>2, <5>1
          <5>3. QED
            BY <2>1, <5>1, <5>2
        <4>3. QED
          BY <4>1, <4>2
      <3>3. QED
        BY <3>1, <3>2
    <2> HIDE DEF g, P
    <2>5. QED
      BY <2>2, <2>4
  <1> HIDE DEF T
  <1>5. 0 .. n \subseteq T
    BY <1>1, <1>3, <1>4, Induct
  <1>6. PICK f : P(f, n)
    <2>1. n \in T
      BY <1>1, <1>5
    <2> HIDE DEF P
    <2>2. QED
      BY <2>1 DEF T
  <1> DEFINE F(g) == [i \in 0 .. n |-> IF i = 0 THEN <<>> ELSE Keep(g[i - 1], i)]
             s == CHOOSE g : g = F(g)
  <1>7. f = F(f)
    BY <1>1, <1>6
  <1>8. NonEmpty(cs) = s[n]
    BY DEF NonEmpty, Keep
  <1> HIDE DEF F
  <1>9. s = F(s)
    BY <1>7
  <1> HIDE DEF s
  <1> DEFINE U == {i \in 0 .. n : s[i] \in Seq(C)}
  <1>10. 0 \in U
    BY <1>1, <1>9 DEF F
  <1>11. ASSUME NEW i \in 0 .. n - 1, i \in U PROVE i + 1 \in U
    <2>1. i + 1 \in 1 .. n /\ (i + 1) - 1 = i /\ i + 1 \in 0 .. n
      BY <1>1
    <2>2. s[i + 1] = Keep(s[i], i + 1)
      BY <1>9, <2>1 DEF F
    <2>3. QED
      BY <1>2, <1>11, <2>1, <2>2
  <1> HIDE DEF U
  <1>12. 0 .. n \subseteq U
    BY <1>1, <1>10, <1>11, Induct
  <1>13. QED
    BY <1>1, <1>8, <1>12 DEF U

-----------------------------------------------------------------------------
(* What the object and its row are, always.                                *)

Stored == {c \in Contents(kind) : c.children \in Seq(ChildIds)}

Typing ==
    /\ TypeOK
    /\ saved \in Stored
    /\ Readable => blob = Pack(kind, saved)

LEMMA ContentStored ==
    ASSUME TypeOK
    PROVE  Content(obj) \in Stored
  <1> DEFINE c == Content(obj)
             g == [f \in ToSet(FieldsOf(kind)) |->
                     IF f \in Settable THEN Plain(obj.fields[f]) ELSE Plain(New(""))]
  <1>1. /\ obj.fields \in [Fields -> Item] /\ obj.children \in Seq(ChildIds)
        /\ obj.device \in Seq(Item) /\ obj.user \in Seq(Item) /\ obj.ax \in Seq(Item)
        /\ kind = System => obj.ax = <<>>
    BY DEF TypeOK
  <1>2. Plain(New("")) \in TextItem
    <2>1. "" \in Text
      BY DEF Text
    <2>2. QED
      BY <2>1, NewType, PlainType
  <1>3. ASSUME NEW f \in ToSet(FieldsOf(kind)), f \in Settable
        PROVE  Plain(obj.fields[f]) \in TextItem
    <2>1. obj.fields[f] \in Item
      BY <1>1, <1>3 DEF Fields
    <2>2. QED
      BY <2>1, PlainType
  <1>4. g \in [ToSet(FieldsOf(kind)) -> TextItem]
    BY <1>2, <1>3
  <1>5. c.fields = g /\ c.children = obj.children
    BY DEF Content
  <1>6. obj.children \in Seq(Text)
    BY <1>1, SeqMonotonic DEF Text
  <1>7. /\ c.device = Each(Plain, obj.device) /\ c.user = Each(Plain, obj.user)
        /\ c.ax = Each(Plain, obj.ax)
    BY DEF Content
  <1>8. /\ c.device \in Seq(TextItem) /\ c.user \in Seq(TextItem) /\ c.ax \in Seq(TextItem)
        /\ kind = System => c.ax = <<>>
    BY <1>1, <1>7, PlainList
  <1>9. c = [fields |-> c.fields, children |-> c.children, device |-> c.device,
             user |-> c.user, ax |-> c.ax]
    BY DEF Content
  <1> HIDE DEF c, g
  <1>10. QED
    BY <1>1, <1>4, <1>5, <1>6, <1>8, <1>9 DEF Stored, Contents, c

\* What a load makes the object of.
LEMMA KeptType ==
    ASSUME kind \in {Component, System}, NEW c \in Stored
    PROVE  /\ Kept(c).fields = c.fields /\ Kept(c).children \in Seq(ChildIds)
           /\ Kept(c).device \in Seq(TextItem) /\ Kept(c).user \in Seq(TextItem)
           /\ Kept(c).ax \in Seq(TextItem) /\ (kind = System => Kept(c).ax = <<>>)
           /\ Kept(c).user = IF kind = Component THEN c.user ELSE <<>>
  <1>1. /\ c.children \in Seq(ChildIds) /\ c.device \in Seq(TextItem)
        /\ c.user \in Seq(TextItem) /\ c.ax \in Seq(TextItem) /\ (kind = System => c.ax = <<>>)
        /\ c = [fields |-> c.fields, children |-> c.children, device |-> c.device,
                user |-> c.user, ax |-> c.ax]
    BY DEF Stored, Contents
  <1>2. NonEmpty(c.children) \in Seq(ChildIds) /\ c.device \o c.user \in Seq(TextItem)
    BY <1>1, NonEmptyType, ConcatProperties
  <1>3. QED
    BY <1>1, <1>2, Kinds DEF Kept

LEMMA TypingInit == Init => Typing
  <1> SUFFICES ASSUME Init PROVE Typing
    OBVIOUS
  <1>1. TypeOK
    <2>1. New("") \in Item
      <3>1. "" \in Text
        BY DEF Text
      <3>2. QED
        BY <3>1, NewType
    <2>2. Empty \in [fields : [Fields -> Item], children : Seq(ChildIds),
                     device : Seq(Item), user : Seq(Item), ax : Seq(Item)]
      <3>1. [f \in Fields |-> New("")] \in [Fields -> Item]
        BY <2>1
      <3>2. <<>> \in Seq(Item) /\ <<>> \in Seq(ChildIds)
        OBVIOUS
      <3>3. QED
        BY <3>1, <3>2 DEF Empty
    <2>3. QED
      BY <2>2 DEF Init, TypeOK, Empty
  <1>2. saved \in Stored
    BY <1>1, ContentStored DEF Init
  <1>3. ~Readable
    BY DEF Init, Readable
  <1>4. QED
    BY <1>1, <1>2, <1>3 DEF Typing

LEMMA TypingStep == Typing /\ [Next]_vars => Typing'
  <1> SUFFICES ASSUME Typing, [Next]_vars PROVE Typing'
    OBVIOUS
  <1> DEFINE Objects == [fields : [Fields -> Item], children : Seq(ChildIds),
                         device : Seq(Item), user : Seq(Item), ax : Seq(Item)]
             Same == kind' = kind /\ saved' = saved /\ blob' = blob
  <1>1. /\ kind \in {Component, System} /\ obj \in Objects
        /\ kind = System => obj.ax = <<>>
    BY DEF Typing, TypeOK
  <1>2. /\ obj.fields \in [Fields -> Item] /\ obj.children \in Seq(ChildIds)
        /\ obj.device \in Seq(Item) /\ obj.user \in Seq(Item) /\ obj.ax \in Seq(Item)
    BY <1>1
  <1>3. Acs \subseteq Text /\ Values \subseteq Text /\ "AX" \in Text
    BY DEF Text
  \* Enough for an action that leaves the row alone:
  <1>4. ASSUME Same, obj' \in Objects, kind = System => obj'.ax = <<>> PROVE Typing'
    <2>1. Stored' = Stored /\ Readable' = Readable /\ Fields' = Fields
      BY <1>4 DEF Stored, Readable, Fields
    <2>2. TypeOK'
      BY <1>1, <1>4, <2>1 DEF TypeOK
    <2>3. QED
      BY <1>4, <2>1, <2>2 DEF Typing
  <1>5. ASSUME NEW f \in Fields, NEW v \in Values, NEW lvl \in Levels, SetField(f, v, lvl)
        PROVE  Typing'
    <2>1. SetValue(obj.fields[f], v, lvl) \in Item
      BY <1>2, SetValueType
    <2>2. obj' = [obj EXCEPT !.fields = [@ EXCEPT ![f] = SetValue(obj.fields[f], v, lvl)]]
      BY <1>1, <1>5 DEF SetField
    <2>3. obj' \in Objects /\ obj'.ax = obj.ax
      BY <1>1, <2>1, <2>2
    <2>4. QED
      BY <1>1, <1>4, <1>5, <2>3 DEF SetField
  <1>6. ASSUME NEW ac \in Acs, NEW v \in Values, NEW lvl \in Levels, AddDevice(ac, v, lvl)
        PROVE  Typing'
    <2>1. Added(obj.device, ac, v, lvl) \in Seq(Item)
      BY <1>2, <1>3, AddedType
    <2>2. obj' \in Objects /\ obj'.ax = obj.ax
      BY <1>1, <1>6, <2>1 DEF AddDevice
    <2>3. QED
      BY <1>1, <1>4, <1>6, <2>2 DEF AddDevice
  <1>7. ASSUME NEW ac \in Acs, NEW v \in Values, NEW lvl \in Levels, UpdateDevice(ac, v, lvl)
        PROVE  Typing'
    <2> DEFINE ds == obj.device
               k  == First(ds, ac)
               e  == [ds EXCEPT ![k] = SetValue(ds[k], v, lvl)]
    <2>1. Added(ds, ac, v, lvl) \in Seq(Item)
      BY <1>2, <1>3, AddedType
    <2>2. e \in Seq(Item)
      <3>1. ASSUME k \in DOMAIN ds PROVE SetValue(ds[k], v, lvl) \in Item
        BY <1>2, <3>1, SetValueType, ElementOfSeq, LenProperties
      <3> HIDE DEF k
      <3>2. QED
        BY <1>2, <3>1, ChangedType
    <2>3. obj' = [obj EXCEPT !.device = IF Found(ds, ac) THEN e ELSE Added(ds, ac, v, lvl)]
      BY <1>7 DEF UpdateDevice
    <2> HIDE DEF k, e
    <2>4. obj' \in Objects /\ obj'.ax = obj.ax
      BY <1>1, <2>1, <2>2, <2>3
    <2>5. QED
      BY <1>1, <1>4, <1>7, <2>4 DEF UpdateDevice
  <1>8. ASSUME NEW ac \in Acs, NEW v \in Values, NEW lvl \in Levels, AddUser(ac, v, lvl)
        PROVE  Typing'
    <2>1. Added(obj.user, ac, v, lvl) \in Seq(Item)
      BY <1>2, <1>3, AddedType
    <2>2. obj' \in Objects /\ obj'.ax = obj.ax
      BY <1>1, <1>8, <2>1 DEF AddUser
    <2>3. QED
      BY <1>1, <1>4, <1>8, <2>2 DEF AddUser
  <1>9. ASSUME NEW ac \in Acs, NEW v \in Values, Clobber(ac, v)
        PROVE  Typing'
    <2> DEFINE ds == obj.user
               k  == First(ds, ac)
               e  == [ds EXCEPT ![k] = [ds[k] EXCEPT !.value = v]]
    <2>1. e \in Seq(Item)
      <3>1. ASSUME k \in DOMAIN ds PROVE [ds[k] EXCEPT !.value = v] \in Item
        <4>1. ds[k] \in Item
          BY <1>2, <3>1, ElementOfSeq, LenProperties
        <4>2. QED
          BY <1>3, <4>1 DEF Item
      <3> HIDE DEF k
      <3>2. QED
        BY <1>2, <3>1, ChangedType
    <2> HIDE DEF k, e
    <2>2. obj' = [obj EXCEPT !.user = e]
      BY <1>9 DEF Clobber, e, k
    <2>3. obj' \in Objects /\ obj'.ax = obj.ax
      BY <1>1, <2>1, <2>2
    <2>4. QED
      BY <1>1, <1>4, <1>9, <2>3 DEF Clobber
  <1>10. ASSUME NEW v \in Values, NEW lvl \in Levels, AddAixName(v, lvl)
         PROVE  Typing'
    <2>1. Added(obj.ax, "AX", v, lvl) \in Seq(Item)
      BY <1>2, <1>3, AddedType
    <2>2. obj' \in Objects /\ kind # System
      BY <1>1, <1>10, <2>1, Kinds DEF AddAixName
    <2>3. QED
      BY <1>4, <1>10, <2>2 DEF AddAixName
  <1>11. ASSUME NEW c \in ChildIds, AddChild(c)
         PROVE  Typing'
    <2>1. Append(obj.children, c) \in Seq(ChildIds)
      BY <1>2, AppendProperties
    <2>2. obj' \in Objects /\ obj'.ax = obj.ax
      BY <1>1, <1>11, <2>1 DEF AddChild
    <2>3. QED
      BY <1>1, <1>4, <1>11, <2>2 DEF AddChild
  <1>12. ASSUME NEW c \in ChildIds, RemoveChild(c)
         PROVE  Typing'
    <2>1. RemoveFirst(obj.children, c) \in Seq(ChildIds)
      BY <1>2, <1>12, RemoveFirstType DEF RemoveChild
    <2>2. obj' \in Objects /\ obj'.ax = obj.ax
      BY <1>1, <1>12, <2>1 DEF RemoveChild
    <2>3. QED
      BY <1>1, <1>4, <1>12, <2>2 DEF RemoveChild
  <1>13. CASE Store
    <2>1. [f \in DOMAIN obj.fields |-> Measured(obj.fields[f])] \in [Fields -> Item]
      BY <1>2, MeasuredType
    <2>2. /\ Each(Measured, obj.device) \in Seq(Item) /\ Each(Measured, obj.user) \in Seq(Item)
          /\ Each(Measured, obj.ax) \in Seq(Item)
          /\ kind = System => Each(Measured, obj.ax) = <<>>
      BY <1>1, <1>2, MeasuredList
    <2> DEFINE fs == [f \in DOMAIN obj.fields |-> Measured(obj.fields[f])]
               d  == Each(Measured, obj.device)
               u  == Each(Measured, obj.user)
               x  == Each(Measured, obj.ax)
    <2>3. obj' = [obj EXCEPT !.fields = fs, !.device = d, !.user = u, !.ax = x]
      BY <1>13 DEF Store
    <2> HIDE DEF fs, d, u, x
    <2>4. obj' \in Objects /\ (kind = System => obj'.ax = <<>>)
      BY <1>1, <2>1, <2>2, <2>3 DEF fs, d, u, x
    <2>5. /\ kind' = kind /\ saved' = Content(obj)
          /\ blob' = IF Intact(obj) THEN Pack(kind, Content(obj)) ELSE Garbled
      BY <1>13 DEF Store
    <2>6. Content(obj) \in Stored
      BY ContentStored DEF Typing
    <2>7. Stored' = Stored /\ Fields' = Fields
      BY <2>5 DEF Stored, Fields
    <2>8. TypeOK'
      BY <1>1, <2>4, <2>5, <2>7 DEF TypeOK
    <2>9. Readable' => blob' = Pack(kind', saved')
      BY <2>5 DEF Readable
    <2>10. QED
      BY <2>5, <2>6, <2>7, <2>8, <2>9 DEF Typing
  <1>14. CASE Load
    <2> DEFINE c == Unpack(kind, blob)
    <2>1. /\ c.fields = saved.fields /\ c.children \in Seq(ChildIds)
          /\ c.device \in Seq(TextItem) /\ c.user \in Seq(TextItem) /\ c.ax \in Seq(TextItem)
          /\ kind = System => c.ax = <<>>
      <3>1. saved \in Stored /\ saved \in Contents(kind) /\ blob = Pack(kind, saved)
        BY <1>14 DEF Load, Typing, Readable, Stored
      <3>2. c = Kept(saved)
        BY <1>1, <3>1, UnpackPacked
      <3>3. QED
        BY <1>1, <3>1, <3>2, KeptType
    <2> HIDE DEF c
    <2> DEFINE fs == [f \in Fields |-> Loaded(c.fields[f])]
               d  == Each(Loaded, c.device)
               u  == Each(Loaded, c.user)
               x  == Each(Loaded, c.ax)
    <2>2. fs \in [Fields -> Item]
      <3>1. saved.fields \in [ToSet(FieldsOf(kind)) -> TextItem]
        BY DEF Typing, Stored, Contents
      <3>2. \A f \in Fields : c.fields[f] \in TextItem
        BY <2>1, <3>1 DEF Fields
      <3>3. QED
        BY <3>2, LoadedType
    <2>3. /\ d \in Seq(Item) /\ u \in Seq(Item) /\ x \in Seq(Item)
          /\ kind = System => x = <<>>
      BY <2>1, LoadedList
    <2>4. obj' = [fields |-> fs, children |-> c.children, device |-> d, user |-> u, ax |-> x]
      BY <1>14 DEF Load, c
    <2> HIDE DEF fs, d, u, x
    <2>5. obj' \in Objects /\ (kind = System => obj'.ax = <<>>)
      BY <2>1, <2>2, <2>3, <2>4
    <2>6. QED
      BY <1>4, <1>14, <2>5 DEF Load
  <1>15. CASE UNCHANGED vars
    BY <1>1, <1>4, <1>15 DEF vars
  <1>16. QED
    BY <1>5, <1>6, <1>7, <1>8, <1>9, <1>10, <1>11, <1>12, <1>13, <1>14, <1>15 DEF Next

\* Every invariant below rests on this one, and a row is what Pack makes of
\* the object that was stored.
THEOREM SpecTyping == Spec => []Typing
  BY TypingInit, TypingStep, PTL DEF Spec

\* The object is at any time made of items of known strings and lengths.
THEOREM SpecTypeOK == Spec => []TypeOK
  BY SpecTyping, PTL DEF Typing

\* For strings without a delimiter in them, and however many items: no scan
\* for a delimiter stops too early or runs too far, and loading loses and
\* displaces only what RoundTrip names.
THEOREM SpecRoundTrip == Spec => []RoundTrip
  <1>1. Typing => RoundTrip
    BY UnpackPacked, UnpackPackedInC DEF Typing, TypeOK, Stored, RoundTrip
  <1>2. QED
    BY <1>1, SpecTyping, PTL

\* No row is longer than the size that it begins with.
THEOREM SpecSizeFits == Spec => []SizeFits
  <1>1. Typing => SizeFits
    BY Fits DEF Typing, TypeOK, Stored, SizeFits
  <1>2. QED
    BY <1>1, SpecTyping, PTL

-----------------------------------------------------------------------------
(* Acronyms of user data.                                                  *)

Distinct(ds) == \A j, k \in DOMAIN ds : ds[j].ac = ds[k].ac => j = k
SameAcs(ds, es) == DOMAIN es = DOMAIN ds /\ \A k \in DOMAIN ds : es[k].ac = ds[k].ac

LEMMA DistinctKept ==
    ASSUME NEW ds, NEW es, Distinct(ds), SameAcs(ds, es)
    PROVE  Distinct(es)
  BY DEF Distinct, SameAcs

\* Of the row as well, or a load would bring a duplicate back.
Uniqueness == Distinct(obj.user) /\ Distinct(saved.user)

LEMMA UniquenessStep == Typing /\ Uniqueness /\ [Next]_vars => Uniqueness'
  <1> SUFFICES ASSUME Typing, Uniqueness, [Next]_vars PROVE Uniqueness'
    OBVIOUS
  <1>1. /\ kind \in {Component, System}
        /\ obj \in [fields : [Fields -> Item], children : Seq(ChildIds),
                    device : Seq(Item), user : Seq(Item), ax : Seq(Item)]
        /\ obj.user \in Seq(Item)
    BY DEF Typing, TypeOK
  <1>2. Acs \subseteq Text
    BY DEF Text
  <1>3. ASSUME obj'.user = obj.user, saved' = saved PROVE Uniqueness'
    BY <1>3 DEF Uniqueness
  <1>4. ASSUME NEW f \in Fields, NEW v \in Values, NEW lvl \in Levels, SetField(f, v, lvl)
        PROVE  Uniqueness'
    BY <1>1, <1>3, <1>4 DEF SetField
  <1>5. ASSUME NEW ac \in Acs, NEW v \in Values, NEW lvl \in Levels,
               AddDevice(ac, v, lvl) \/ UpdateDevice(ac, v, lvl)
        PROVE  Uniqueness'
    BY <1>1, <1>3, <1>5 DEF AddDevice, UpdateDevice
  <1>6. ASSUME NEW ac \in Acs, NEW v \in Values, NEW lvl \in Levels, AddUser(ac, v, lvl)
        PROVE  Uniqueness'
    <2> DEFINE ds == obj.user
               es == Added(ds, ac, v, lvl)
    <2>1. /\ obj'.user = es /\ saved' = saved
          /\ \A k \in DOMAIN ds : ds[k].ac # ac
      BY <1>1, <1>6 DEF AddUser, UserFound, Found
    <2>2. /\ DOMAIN ds = 1 .. Len(ds) /\ DOMAIN es = 1 .. Len(ds) + 1 /\ Len(ds) \in Nat
          /\ \A k \in 1 .. Len(ds) : es[k] = ds[k]
          /\ es[Len(ds) + 1].ac = ac
      <3>1. ds \in Seq(Item) /\ ac \in Text
        BY <1>1, <1>2
      <3>2. /\ DOMAIN es = 1 .. Len(ds) + 1 /\ DOMAIN ds = 1 .. Len(ds)
            /\ \A k \in 1 .. Len(ds) : es[k] = ds[k]
            /\ es[Len(ds) + 1].ac = ac
        BY <3>1, AddedType
      <3>3. QED
        BY <3>1, <3>2, LenProperties
    <2> HIDE DEF es
    <2>3. Distinct(es)
      <3>1. \A j, k \in 1 .. Len(ds) : ds[j].ac = ds[k].ac => j = k
        BY <2>2 DEF Uniqueness, Distinct
      <3>2. \A k \in 1 .. Len(ds) : es[k].ac # ac
        BY <2>1, <2>2
      <3>3. \A k \in 1 .. Len(ds) + 1 : k \in 1 .. Len(ds) \/ k = Len(ds) + 1
        BY <2>2
      <3> HIDE DEF ds
      <3>4. QED
        BY <2>2, <3>1, <3>2, <3>3, Zenon DEF Distinct
    <2>4. QED
      BY <2>1, <2>3 DEF Uniqueness
  <1>7. ASSUME NEW ac \in Acs, NEW v \in Values, Clobber(ac, v)
        PROVE  Uniqueness'
    <2> DEFINE k  == First(obj.user, ac)
               es == [obj.user EXCEPT ![k].value = v]
    <2>1. obj'.user = es /\ saved' = saved
      BY <1>1, <1>7 DEF Clobber
    <2>2. SameAcs(obj.user, es)
      <3> HIDE DEF k
      <3>1. DOMAIN es = DOMAIN obj.user
        OBVIOUS
      <3>2. ASSUME NEW i \in DOMAIN obj.user PROVE es[i].ac = obj.user[i].ac
        <4>1. obj.user[i] \in Item
          BY <1>1, ElementOfSeq, LenProperties
        <4>2. QED
          BY <4>1 DEF Item
      <3>3. QED
        BY <3>1, <3>2 DEF SameAcs
    <2>3. QED
      BY <2>1, <2>2, DistinctKept DEF Uniqueness
  <1>8. ASSUME NEW v \in Values, NEW lvl \in Levels, AddAixName(v, lvl)
        PROVE  Uniqueness'
    BY <1>1, <1>3, <1>8 DEF AddAixName
  <1>9. ASSUME NEW c \in ChildIds, AddChild(c) \/ RemoveChild(c)
        PROVE  Uniqueness'
    BY <1>1, <1>3, <1>9 DEF AddChild, RemoveChild
  <1>10. CASE Store
    <2>1. obj'.user = Each(Measured, obj.user)
      BY <1>1, <1>10 DEF Store
    <2>2. saved'.user = Each(Plain, obj.user)
      BY <1>10 DEF Store, Content
    <2>3. \A k \in DOMAIN obj.user : obj.user[k] \in Item
      BY <1>1, ElementOfSeq, LenProperties
    <2>4. SameAcs(obj.user, Each(Measured, obj.user))
      BY <1>1, <2>3, MeasuredList, MeasuredType DEF SameAcs
    <2>5. SameAcs(obj.user, Each(Plain, obj.user))
      BY <1>1, <2>3, PlainList, PlainType DEF SameAcs
    <2>6. QED
      BY <2>1, <2>2, <2>4, <2>5, DistinctKept DEF Uniqueness
  <1>11. CASE Load
    <2> DEFINE u == Unpack(kind, blob).user
    <2>1. obj'.user = Each(Loaded, u) /\ saved' = saved
      BY <1>11 DEF Load
    <2>2. /\ u \in Seq(TextItem)
          /\ u = IF kind = Component THEN saved.user ELSE <<>>
      <3>1. saved \in Stored /\ saved \in Contents(kind) /\ blob = Pack(kind, saved)
        BY <1>11 DEF Load, Typing, Readable, Stored
      <3>2. QED
        BY <1>1, <3>1, UnpackPacked, KeptType
    <2>3. Distinct(u)
      BY <2>2 DEF Distinct, Uniqueness
    <2> HIDE DEF u
    <2>4. \A k \in DOMAIN u : u[k] \in TextItem
      BY <2>2, ElementOfSeq, LenProperties
    <2>5. SameAcs(u, Each(Loaded, u))
      BY <2>2, <2>4, LoadedList, LoadedType DEF SameAcs
    <2>6. QED
      BY <2>1, <2>3, <2>5, DistinctKept DEF Uniqueness
  <1>12. CASE UNCHANGED vars
    BY <1>3, <1>12 DEF vars
  <1>13. QED
    BY <1>4, <1>5, <1>6, <1>7, <1>8, <1>9, <1>10, <1>11, <1>12 DEF Next

\* User data has unique acronyms, through any number of stores and loads.
THEOREM SpecUniqueUserData == Spec => []UniqueUserData
  <1>1. Init => Uniqueness
    <2>1. ASSUME Init PROVE Uniqueness
      <3>1. obj.user = <<>> /\ saved.user = Each(Plain, <<>>)
        BY <2>1 DEF Init, Empty, Content
      <3>2. QED
        BY <3>1 DEF Each, Uniqueness, Distinct
    <2>2. QED
      BY <2>1
  <1>2. Uniqueness => UniqueUserData
    BY DEF Uniqueness, Distinct, UniqueUserData
  <1>3. QED
    BY <1>1, <1>2, SpecTyping, UniquenessStep, PTL DEF Spec

-----------------------------------------------------------------------------
(* Cached lengths.                                                         *)

Exact(ds) == \A k \in DOMAIN ds : ~Stale(ds[k])

LEMMA IntactIs ==
    ASSUME NEW o
    PROVE  Intact(o) <=> Exact(o.fields) /\ Exact(o.device) /\ Exact(o.user) /\ Exact(o.ax)
  BY DEF Intact, AllItems, Exact, ToSet

LEMMA LengthsExactStep == Typing /\ LengthsExact /\ [Next]_vars => LengthsExact'
  <1> SUFFICES ASSUME Typing, LengthsExact, [Next]_vars, ~clobbered' PROVE Intact(obj)'
    BY DEF LengthsExact
  <1> DEFINE I(o) == Exact(o.fields) /\ Exact(o.device) /\ Exact(o.user) /\ Exact(o.ax)
  <1> SUFFICES I(obj)'
    BY IntactIs
  <1>1. /\ kind \in {Component, System}
        /\ obj \in [fields : [Fields -> Item], children : Seq(ChildIds),
                    device : Seq(Item), user : Seq(Item), ax : Seq(Item)]
    BY DEF Typing, TypeOK
  <1>2. /\ obj.fields \in [Fields -> Item]
        /\ obj.device \in Seq(Item) /\ obj.user \in Seq(Item) /\ obj.ax \in Seq(Item)
    BY <1>1
  <1>3. Acs \subseteq Text /\ "AX" \in Text
    BY DEF Text
  <1>4. ~clobbered => I(obj)
    BY IntactIs DEF LengthsExact
  <1>5. ASSUME NEW ds \in Seq(Item), Exact(ds),
               NEW ac \in Text, NEW v \in Values, NEW lvl \in Levels
        PROVE  Exact(Added(ds, ac, v, lvl))
    <2> DEFINE es == Added(ds, ac, v, lvl)
    <2>1. /\ DOMAIN ds = 1 .. Len(ds) /\ DOMAIN es = 1 .. Len(ds) + 1 /\ Len(ds) \in Nat
          /\ \A k \in 1 .. Len(ds) : es[k] = ds[k]
          /\ ~Stale(es[Len(ds) + 1])
      BY AddedType, LenProperties
    <2> HIDE DEF es
    <2>2. QED
      BY <1>5, <2>1 DEF Exact, es
  <1>6. ASSUME NEW f \in Fields, NEW v \in Values, NEW lvl \in Levels, SetField(f, v, lvl)
        PROVE  I(obj)'
    <2> DEFINE e  == SetValue(obj.fields[f], v, lvl)
               fs == [obj.fields EXCEPT ![f] = e]
    <2>1. /\ obj'.fields = fs /\ obj'.device = obj.device /\ obj'.user = obj.user
          /\ obj'.ax = obj.ax /\ ~clobbered
      BY <1>1, <1>6 DEF SetField
    <2>2. ~Stale(e)
      BY <1>2, <1>4, <2>1, SetValueType DEF Exact
    <2> HIDE DEF e
    <2>3. Exact(fs)
      BY <1>2, <1>4, <2>1, <2>2 DEF Exact
    <2>4. QED
      BY <1>4, <2>1, <2>3
  <1>7. ASSUME NEW ac \in Acs, NEW v \in Values, NEW lvl \in Levels, AddDevice(ac, v, lvl)
        PROVE  I(obj)'
    <2>1. /\ obj'.fields = obj.fields /\ obj'.device = Added(obj.device, ac, v, lvl)
          /\ obj'.user = obj.user /\ obj'.ax = obj.ax /\ ~clobbered
      BY <1>1, <1>7 DEF AddDevice
    <2>2. QED
      BY <1>2, <1>3, <1>4, <1>5, <2>1
  <1>8. ASSUME NEW ac \in Acs, NEW v \in Values, NEW lvl \in Levels, UpdateDevice(ac, v, lvl)
        PROVE  I(obj)'
    <2> DEFINE ds == obj.device
               k  == First(ds, ac)
               es == [ds EXCEPT ![k] = SetValue(ds[k], v, lvl)]
    <2>1. /\ obj'.fields = obj.fields /\ obj'.user = obj.user /\ obj'.ax = obj.ax
          /\ obj'.device = es \/ obj'.device = Added(ds, ac, v, lvl)
          /\ ~clobbered
      BY <1>1, <1>8 DEF UpdateDevice
    <2>2. Exact(ds)
      BY <1>4, <2>1
    <2>3. Exact(es)
      <3>1. k \in DOMAIN ds => ~Stale(SetValue(ds[k], v, lvl))
        BY <1>2, <2>2, SetValueType, ElementOfSeq, LenProperties DEF Exact
      <3> HIDE DEF k
      <3>2. QED
        BY <2>2, <3>1 DEF Exact
    <2>4. QED
      BY <1>2, <1>3, <1>4, <1>5, <2>1, <2>2, <2>3
  <1>9. ASSUME NEW ac \in Acs, NEW v \in Values, NEW lvl \in Levels, AddUser(ac, v, lvl)
        PROVE  I(obj)'
    <2>1. /\ obj'.fields = obj.fields /\ obj'.user = Added(obj.user, ac, v, lvl)
          /\ obj'.device = obj.device /\ obj'.ax = obj.ax /\ ~clobbered
      BY <1>1, <1>9 DEF AddUser
    <2>2. QED
      BY <1>2, <1>3, <1>4, <1>5, <2>1
  \* A clobber that goes unnoticed left the length as it was.
  <1>10. ASSUME NEW ac \in Acs, NEW v \in Values, Clobber(ac, v)
         PROVE  I(obj)'
    <2> DEFINE ds == obj.user
               k  == First(ds, ac)
               es == [ds EXCEPT ![k] = [ds[k] EXCEPT !.value = v]]
    <2>1. /\ obj'.fields = obj.fields /\ obj'.device = obj.device /\ obj'.ax = obj.ax
          /\ obj'.user = es /\ ~clobbered /\ Width(v) = Width(ds[k].value)
      BY <1>1, <1>10 DEF Clobber
    <2>2. Exact(ds)
      BY <1>4, <2>1
    <2>3. Exact(es)
      <3>1. ASSUME k \in DOMAIN ds PROVE ~Stale([ds[k] EXCEPT !.value = v])
        <4> DEFINE d == ds[k]
                   e == [d EXCEPT !.value = v]
        <4>1. d \in Item /\ ~Stale(d)
          BY <1>2, <2>2, <3>1, ElementOfSeq, LenProperties DEF Exact
        <4>2. Width(v) = Width(d.value)
          BY <2>1
        <4> HIDE DEF d
        <4>3. e.ac = d.ac /\ e.name = d.name /\ e.value = v /\ e.cached = d.cached
          BY <4>1 DEF Item
        <4>4. ItemLength(e) = ItemLength(d)
          BY <4>2, <4>3 DEF ItemLength
        <4>5. QED
          BY <4>1, <4>3, <4>4 DEF Stale, d
      <3> HIDE DEF k
      <3>2. QED
        BY <2>2, <3>1 DEF Exact
    <2>4. QED
      BY <1>4, <2>1, <2>3
  <1>11. ASSUME NEW v \in Values, NEW lvl \in Levels, AddAixName(v, lvl)
         PROVE  I(obj)'
    <2>1. /\ obj'.fields = obj.fields /\ obj'.ax = Added(obj.ax, "AX", v, lvl)
          /\ obj'.device = obj.device /\ obj'.user = obj.user /\ ~clobbered
      BY <1>1, <1>11 DEF AddAixName
    <2>2. QED
      BY <1>2, <1>3, <1>4, <1>5, <2>1
  <1>12. ASSUME NEW c \in ChildIds, AddChild(c) \/ RemoveChild(c)
         PROVE  I(obj)'
    <2>1. /\ obj'.fields = obj.fields /\ obj'.ax = obj.ax
          /\ obj'.device = obj.device /\ obj'.user = obj.user /\ ~clobbered
      BY <1>1, <1>12 DEF AddChild, RemoveChild
    <2>2. QED
      BY <1>4, <2>1
  <1>13. CASE Store
    <2>1. /\ obj'.fields = [f \in DOMAIN obj.fields |-> Measured(obj.fields[f])]
          /\ obj'.device = Each(Measured, obj.device) /\ obj'.user = Each(Measured, obj.user)
          /\ obj'.ax = Each(Measured, obj.ax) /\ ~clobbered
      BY <1>1, <1>13 DEF Store
    <2>2. ASSUME NEW ds \in Seq(Item), Exact(ds) PROVE Exact(Each(Measured, ds))
      <3>1. \A k \in DOMAIN ds : ds[k] \in Item
        BY ElementOfSeq, LenProperties
      <3>2. \A k \in DOMAIN ds : ~Stale(Measured(ds[k]))
        BY <2>2, <3>1, MeasuredType DEF Exact
      <3>3. /\ DOMAIN Each(Measured, ds) = DOMAIN ds
            /\ \A k \in DOMAIN ds : Each(Measured, ds)[k] = Measured(ds[k])
        BY MeasuredList
      <3>4. QED
        BY <3>2, <3>3 DEF Exact
    <2>3. Exact([f \in DOMAIN obj.fields |-> Measured(obj.fields[f])])
      BY <1>2, <1>4, <2>1, MeasuredType DEF Exact
    <2>4. Exact(obj.device) /\ Exact(obj.user) /\ Exact(obj.ax)
      BY <1>4, <2>1
    <2>5. QED
      BY <1>2, <2>1, <2>2, <2>3, <2>4
  <1>14. CASE Load
    <2> DEFINE c == Unpack(kind, blob)
    <2>1. /\ c.fields = saved.fields
          /\ c.device \in Seq(TextItem) /\ c.user \in Seq(TextItem) /\ c.ax \in Seq(TextItem)
      <3>1. saved \in Stored /\ saved \in Contents(kind) /\ blob = Pack(kind, saved)
        BY <1>14 DEF Load, Typing, Readable, Stored
      <3>2. c = Kept(saved)
        BY <1>1, <3>1, UnpackPacked
      <3>3. QED
        BY <1>1, <3>1, <3>2, KeptType
    <2>2. /\ obj'.fields = [f \in Fields |-> Loaded(c.fields[f])]
          /\ obj'.device = Each(Loaded, c.device) /\ obj'.user = Each(Loaded, c.user)
          /\ obj'.ax = Each(Loaded, c.ax)
      BY <1>14 DEF Load
    <2> HIDE DEF c
    <2>3. ASSUME NEW ds \in Seq(TextItem) PROVE Exact(Each(Loaded, ds))
      <3>1. \A k \in DOMAIN ds : ds[k] \in TextItem
        BY ElementOfSeq, LenProperties
      <3>2. \A k \in DOMAIN ds : ~Stale(Loaded(ds[k]))
        BY <3>1, LoadedType
      <3>3. /\ DOMAIN Each(Loaded, ds) = DOMAIN ds
            /\ \A k \in DOMAIN ds : Each(Loaded, ds)[k] = Loaded(ds[k])
        BY LoadedList
      <3>4. QED
        BY <3>2, <3>3 DEF Exact
    <2>4. Exact([f \in Fields |-> Loaded(c.fields[f])])
      <3>1. saved.fields \in [ToSet(FieldsOf(kind)) -> TextItem]
        BY DEF Typing, Stored, Contents
      <3>2. \A f \in Fields : c.fields[f] \in TextItem
        BY <2>1, <3>1 DEF Fields
      <3>3. QED
        BY <3>2, LoadedType DEF Exact
    <2>5. QED
      BY <2>1, <2>2, <2>3, <2>4
  <1>15. CASE UNCHANGED vars
    BY <1>4, <1>15 DEF vars
  <1>16. QED
    BY <1>6, <1>7, <1>8, <1>9, <1>10, <1>11, <1>12, <1>13, <1>14, <1>15 DEF Next

\* As long as values change through setValue, or keep their lengths, no item
\* believes it is longer or shorter than it is.
THEOREM SpecLengthsExact == Spec => []LengthsExact
  <1>1. Init => LengthsExact
    <2>1. ASSUME Init PROVE Intact(obj)
      <3>1. ~Stale(New(""))
        BY NewType DEF Text
      <3>2. /\ obj.fields = [f \in Fields |-> New("")] /\ obj.device = <<>>
            /\ obj.user = <<>> /\ obj.ax = <<>>
        BY <2>1 DEF Init, Empty
      <3>3. Exact([f \in Fields |-> New("")])
        BY <3>1 DEF Exact
      <3>4. Exact(<<>>)
        BY DEF Exact
      <3>5. QED
        BY <3>2, <3>3, <3>4, IntactIs
    <2>2. QED
      BY <2>1 DEF LengthsExact
  <1>2. QED
    BY <1>1, SpecTyping, LengthsExactStep, PTL DEF Spec

-----------------------------------------------------------------------------
(* Preference levels.                                                      *)

Offer == [value : Text, level : Levels \cup {0}]

\* The k-th of the offers is the one in the field, with its level, and none
\* of the others beats it.
Best(d, o, k) ==
    /\ d.value = (IF k = 1 THEN o[k].value ELSE Clean(o[k].value))
    /\ d.pref = o[k].level
    /\ \A j \in DOMAIN o : j # k /\ (j = 1 \/ Width(o[j].value) > 0) =>
         o[j].level < o[k].level \/ (o[j].level = o[k].level /\ j > k)

Offers(d, o) == /\ o \in Seq(Offer) /\ Len(o) > 0
                /\ \E k \in DOMAIN o : Best(d, o, k)

Preferences ==
    /\ offers \in [Fields -> Seq(Offer)]
    /\ \A f \in Fields : Offers(obj.fields[f], offers[f])

\* What setValue makes of one more offer.
LEMMA OfferMade ==
    ASSUME NEW d \in Item, NEW o, Offers(d, o), NEW v \in Values, NEW lvl \in Levels
    PROVE  Offers(SetValue(d, v, lvl), Append(o, [value |-> v, level |-> lvl]))
  <1> DEFINE new == [value |-> v, level |-> lvl]
             p == Append(o, new)
             e == SetValue(d, v, lvl)
             n == Len(o) + 1
  <1>1. new \in Offer
    BY DEF Offer, Text
  <1>2. o \in Seq(Offer) /\ Len(o) \in Nat /\ Len(o) > 0 /\ DOMAIN o = 1 .. Len(o)
    BY LenProperties DEF Offers
  <1>3. /\ p \in Seq(Offer) /\ Len(p) = n /\ DOMAIN p = 1 .. n
        /\ p[n] = new /\ \A j \in 1 .. Len(o) : p[j] = o[j]
    BY <1>1, <1>2, AppendProperties, LenProperties
  <1>4. \A j \in 1 .. n : p[j].level \in Nat
    <2>1. \A j \in 1 .. n : p[j] \in Offer
      BY <1>3, ElementOfSeq
    <2>2. \A x \in Offer : x.level \in Levels \cup {0}
      BY DEF Offer
    <2>3. \A x \in Levels \cup {0} : x \in Nat
      BY LevelAssumption
    <2>4. QED
      BY <2>1, <2>2, <2>3
  <1>5. PICK k \in DOMAIN o : Best(d, o, k)
    BY DEF Offers
  <1>6. k \in 1 .. Len(o) /\ k \in 1 .. n /\ k # n /\ n # 1 /\ p[k] = o[k]
    BY <1>2, <1>3, <1>5
  <1>7. d.pref = p[k].level /\ p[n].level = lvl /\ p[n].value = v
    BY <1>3, <1>5, <1>6 DEF Best
  <1>8. ASSUME NEW j \in 1 .. n, j # n, j # k, j = 1 \/ Width(p[j].value) > 0
        PROVE  p[j].level < p[k].level \/ (p[j].level = p[k].level /\ j > k)
    <2>1. j \in DOMAIN o /\ p[j] = o[j]
      BY <1>2, <1>3, <1>8
    <2>2. QED
      BY <1>5, <1>6, <1>8, <2>1 DEF Best
  <1> HIDE DEF p, n
  <1>9. CASE lvl > d.pref /\ Width(v) > 0
    <2>1. e.value = Clean(v) /\ e.pref = lvl
      BY <1>9 DEF SetValue, Item
    <2>2. ASSUME NEW j \in 1 .. n, j # n, j = 1 \/ Width(p[j].value) > 0
          PROVE  p[j].level < p[n].level
      <3>1. p[j].level <= p[k].level
        BY <1>4, <1>6, <1>8, <2>2
      <3>2. p[k].level < lvl
        BY <1>4, <1>6, <1>7, <1>9, LevelAssumption
      <3>3. QED
        BY <1>4, <1>6, <1>7, <3>1, <3>2, LevelAssumption
    <2>3. n \in DOMAIN p /\ Len(p) > 0
      BY <1>2, <1>3 DEF n
    <2>4. Best(e, p, n)
      BY <1>3, <1>6, <1>7, <2>1, <2>2 DEF Best
    <2>5. QED
      BY <1>3, <2>3, <2>4 DEF Offers, p
  <1>10. CASE ~(lvl > d.pref /\ Width(v) > 0)
    <2>1. e = d
      BY <1>10 DEF SetValue
    <2>2. Width(p[n].value) > 0 => p[n].level <= p[k].level
      BY <1>4, <1>6, <1>7, <1>10, LevelAssumption
    <2>3. n > k /\ k \in DOMAIN p /\ Len(p) > 0 /\ n \in 1 .. n
      BY <1>2, <1>3, <1>6 DEF n
    <2>4. ASSUME NEW j \in 1 .. n, j # k, j = 1 \/ Width(p[j].value) > 0
          PROVE  p[j].level < p[k].level \/ (p[j].level = p[k].level /\ j > k)
      <3>1. CASE j = n
        BY <1>4, <1>6, <2>2, <2>3, <2>4, <3>1
      <3>2. CASE j # n
        BY <1>8, <2>4, <3>2
      <3>3. QED
        BY <3>1, <3>2
    <2>5. Best(e, p, k)
      BY <1>3, <1>5, <1>6, <1>7, <2>1, <2>4 DEF Best
    <2>6. QED
      BY <1>3, <2>3, <2>5 DEF Offers, p
  <1>11. QED
    BY <1>9, <1>10

\* A field begins with one offer, what it holds.
LEMMA OfferFirst ==
    ASSUME NEW d, d.pref = 0, d.value \in Text
    PROVE  Offers(d, << [value |-> d.value, level |-> 0] >>)
  <1> DEFINE o == << [value |-> d.value, level |-> 0] >>
  <1>1. o \in Seq(Offer) /\ Len(o) = 1 /\ DOMAIN o = {1}
    BY DEF Offer
  <1>2. o[1].value = d.value /\ o[1].level = 0
    OBVIOUS
  <1> HIDE DEF o
  <1>3. Best(d, o, 1)
    BY <1>1, <1>2 DEF Best
  <1>4. QED
    BY <1>1, <1>3 DEF Offers, o

LEMMA PreferencesStep == Typing /\ Preferences /\ [Next]_vars => Preferences'
  <1> SUFFICES ASSUME Typing, Preferences, [Next]_vars PROVE Preferences'
    OBVIOUS
  <1>1. /\ kind \in {Component, System}
        /\ obj \in [fields : [Fields -> Item], children : Seq(ChildIds),
                    device : Seq(Item), user : Seq(Item), ax : Seq(Item)]
    BY DEF Typing, TypeOK
  <1>2. obj.fields \in [Fields -> Item] /\ offers \in [Fields -> Seq(Offer)]
    BY <1>1 DEF Preferences
  <1>3. ASSUME kind' = kind, offers' = offers, obj'.fields = obj.fields
        PROVE  Preferences'
    BY <1>3 DEF Preferences, Fields
  <1>4. ASSUME NEW g \in Fields, NEW v \in Values, NEW lvl \in Levels, SetField(g, v, lvl)
        PROVE  Preferences'
    <2> DEFINE e == SetValue(obj.fields[g], v, lvl)
               p == Append(offers[g], [value |-> v, level |-> lvl])
    <2>1. Offers(e, p)
      BY <1>2, OfferMade DEF Preferences
    <2>2. /\ obj'.fields = [obj.fields EXCEPT ![g] = e] /\ offers' = [offers EXCEPT ![g] = p]
          /\ Fields' = Fields
      BY <1>1, <1>4 DEF SetField, Fields
    <2>3. p \in Seq(Offer)
      BY <2>1 DEF Offers
    <2> HIDE DEF e, p
    <2>4. offers' \in [Fields -> Seq(Offer)]
      BY <1>2, <2>2, <2>3
    <2>5. ASSUME NEW f \in Fields PROVE Offers(obj'.fields[f], offers'[f])
      BY <1>2, <2>1, <2>2 DEF Preferences
    <2>6. QED
      BY <2>2, <2>4, <2>5 DEF Preferences
  <1>5. ASSUME NEW ac \in Acs, NEW v \in Values, NEW lvl \in Levels,
               AddDevice(ac, v, lvl) \/ UpdateDevice(ac, v, lvl) \/ AddUser(ac, v, lvl)
        PROVE  Preferences'
    BY <1>1, <1>3, <1>5 DEF AddDevice, UpdateDevice, AddUser
  <1>6. ASSUME NEW ac \in Acs, NEW v \in Values, Clobber(ac, v)
        PROVE  Preferences'
    BY <1>1, <1>3, <1>6 DEF Clobber
  <1>7. ASSUME NEW v \in Values, NEW lvl \in Levels, AddAixName(v, lvl)
        PROVE  Preferences'
    BY <1>1, <1>3, <1>7 DEF AddAixName
  <1>8. ASSUME NEW c \in ChildIds, AddChild(c) \/ RemoveChild(c)
        PROVE  Preferences'
    BY <1>1, <1>3, <1>8 DEF AddChild, RemoveChild
  <1>9. CASE Store
    <2>1. /\ obj'.fields = [f \in Fields |-> Measured(obj.fields[f])]
          /\ offers' = offers /\ Fields' = Fields
      BY <1>1, <1>9 DEF Store, Fields
    <2>2. ASSUME NEW f \in Fields PROVE Offers(obj'.fields[f], offers[f])
      <3>1. obj'.fields[f] = Measured(obj.fields[f])
        BY <2>1
      <3>2. /\ Measured(obj.fields[f]).value = obj.fields[f].value
            /\ Measured(obj.fields[f]).pref = obj.fields[f].pref
        BY <1>2, MeasuredType
      <3>3. QED
        BY <3>1, <3>2 DEF Preferences, Offers, Best
    <2>3. QED
      BY <1>2, <2>1, <2>2 DEF Preferences
  <1>10. CASE Load
    <2> DEFINE c == Unpack(kind, blob)
    <2>1. c.fields = saved.fields
      <3>1. saved \in Stored /\ saved \in Contents(kind) /\ blob = Pack(kind, saved)
        BY <1>10 DEF Load, Typing, Readable, Stored
      <3>2. c = Kept(saved)
        BY <1>1, <3>1, UnpackPacked
      <3>3. QED
        BY <1>1, <3>1, <3>2, KeptType
    <2>2. /\ obj'.fields = [f \in Fields |-> Loaded(c.fields[f])]
          /\ offers' = [f \in Fields |-> << [value |-> c.fields[f].value, level |-> 0] >>]
          /\ Fields' = Fields
      BY <1>10 DEF Load, Fields
    <2> HIDE DEF c
    <2>3. ASSUME NEW f \in Fields
          PROVE  Offers(obj'.fields[f], offers'[f]) /\ offers'[f] \in Seq(Offer)
      <3>1. c.fields[f] \in TextItem
        BY <2>1 DEF Typing, Stored, Contents, Fields
      <3>2. /\ Loaded(c.fields[f]).value = c.fields[f].value /\ Loaded(c.fields[f]).pref = 0
            /\ c.fields[f].value \in Text
        BY <3>1, LoadedType DEF TextItem
      <3>3. Offers(Loaded(c.fields[f]), << [value |-> Loaded(c.fields[f]).value, level |-> 0] >>)
        BY <3>2, OfferFirst
      <3>4. QED
        BY <2>2, <3>2, <3>3 DEF Offers
    <2>4. offers' \in [Fields -> Seq(Offer)]
      BY <2>2, <2>3
    <2>5. QED
      BY <2>2, <2>3, <2>4 DEF Preferences
  <1>11. CASE UNCHANGED vars
    BY <1>3, <1>11 DEF vars
  <1>12. QED
    BY <1>4, <1>5, <1>6, <1>7, <1>8, <1>9, <1>10, <1>11 DEF Next

\* Whatever the order of the collectors, a field holds the offer with the
\* highest level since it was loaded, and of those the first.
THEOREM SpecBestOffer == Spec => []BestOffer
  <1>1. Init => Preferences
    <2>1. ASSUME Init PROVE Preferences
      <3>1. New("").value = "" /\ New("").pref = 0 /\ "" \in Text
        BY DEF New, Text
      <3>2. Offers(New(""), << [value |-> "", level |-> 0] >>)
        BY <3>1, OfferFirst
      <3>3. /\ obj.fields = [f \in Fields |-> New("")]
            /\ offers = [f \in Fields |-> << [value |-> "", level |-> 0] >>]
        BY <2>1 DEF Init, Empty
      <3>4. << [value |-> "", level |-> 0] >> \in Seq(Offer)
        BY <3>2 DEF Offers
      <3>5. QED
        BY <3>2, <3>3, <3>4 DEF Preferences
    <2>2. QED
      BY <2>1
  <1>2. Preferences => BestOffer
    BY DEF Preferences, Offers, Best, BestOffer
  <1>3. QED
    BY <1>1, <1>2, SpecTyping, PreferencesStep, PTL DEF Spec
=============================================================================
