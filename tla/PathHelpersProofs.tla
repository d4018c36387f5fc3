------------------------- MODULE PathHelpersProofs -------------------------
(***************************************************************************)
(* Theorems about PathHelpers for paths of any length.                     *)
(***************************************************************************)
EXTENDS PathHelpers, SequenceTheorems, FiniteSetTheorems, WellFoundedInduction, TLAPS

\* A set of numbers has a least one.
LEMMA Least ==
    ASSUME NEW T \in SUBSET Nat, T # {}
    PROVE  \E x \in T : \A y \in T : x <= y
  <1>1. PICK x \in T : \A y \in T : <<y, x>> \notin OpToRel(<, Nat)
    BY NatLessThanWellFounded, WFMin
  <1>2. \A y \in T : ~(y < x)
    BY <1>1, Zenon DEF OpToRel
  <1>3. QED
    BY <1>2

\* So Min, which the searches use, is what it says.
LEMMA MinIs ==
    ASSUME NEW T \in SUBSET Nat, T # {}
    PROVE  Min(T) \in T /\ \A y \in T : Min(T) <= y
  BY Least DEF Min

LEMMA MaxIs ==
    ASSUME NEW n \in Nat, NEW T \in SUBSET (0 .. n), T # {}
    PROVE  Max(T) \in T /\ \A y \in T : Max(T) >= y
  <1> DEFINE R == {r \in 0 .. n : n - r \in T}
  <1>1. \A x \in T : x \in 0 .. n /\ n - x \in R
    <2>1. \A x \in T : x \in 0 .. n /\ n - x \in 0 .. n /\ n - (n - x) = x
      OBVIOUS
    <2>2. QED
      BY <2>1
  <1>2. PICK r \in R : \A y \in R : r <= y
    <2>1. R \in SUBSET Nat
      OBVIOUS
    <2>2. PICK x \in T : TRUE
      OBVIOUS
    <2>3. n - x \in R
      BY <1>1, <2>2
    <2> HIDE DEF R
    <2>4. QED
      BY <2>1, <2>3, Least
  <1>3. n - r \in T /\ r \in 0 .. n
    BY <1>2
  <1>4. \A y \in T : n - r >= y
    BY <1>1, <1>2, <1>3
  <1>5. QED
    BY <1>3, <1>4 DEF Max

-----------------------------------------------------------------------------
(* Strings.                                                                *)

Byte == Char \cup {NUL}
NoNul(s) == \A i \in 1 .. Len(s) : s[i] # NUL

LEMMA SubstrProperties ==
    ASSUME NEW s \in Seq(Byte), NEW b \in Nat, NEW n \in Nat, b + n <= Len(s)
    PROVE  /\ Substr(s, b, n) \in Seq(Byte) /\ Len(Substr(s, b, n)) = n
           /\ \A i \in 1 .. n : Substr(s, b, n)[i] = s[b + i]
  <1>1. Len(s) \in Nat /\ \A i \in b + 1 .. b + n : s[i] \in Byte
    BY LenProperties, ElementOfSeq
  <1>2. Substr(s, b, n) = SubSeq(s, b + 1, b + n)
    BY <1>1 DEF Substr
  <1>3. (b + n) - (b + 1) + 1 = n /\ \A i \in 1 .. n : (b + 1) + i - 1 = b + i
    OBVIOUS
  <1>4. QED
    BY <1>1, <1>2, <1>3, SubSeqProperties

\* What a C function sees of a string is the part in front of the first NUL.
LEMMA CStrProperties ==
    ASSUME NEW s \in Seq(Byte)
    PROVE  /\ CStr(s) \in Seq(Byte) /\ NoNul(CStr(s)) /\ Len(CStr(s)) <= Len(s)
           /\ \A i \in 1 .. Len(CStr(s)) : CStr(s)[i] = s[i]
           /\ Len(CStr(s)) < Len(s) => s[Len(CStr(s)) + 1] = NUL
           /\ NoNul(s) <=> CStr(s) = s
  <1>1. Len(s) \in Nat /\ \A i \in 1 .. Len(s) : s[i] \in Byte
    BY LenProperties, ElementOfSeq
  <1>2. CASE NoNul(s)
    BY <1>1, <1>2 DEF NoNul, CStr
  <1>3. CASE ~NoNul(s)
    <2> DEFINE I == {i \in 0 .. Len(s) - 1 : Chr(s, i) = NUL}
               n == Min(I)
    <2>1. PICK k \in 1 .. Len(s) : s[k] = NUL
      BY <1>3 DEF NoNul
    <2>2. k - 1 \in I
      BY <1>1, <2>1 DEF Chr
    <2>3. n \in I /\ \A i \in I : n <= i
      <3>1. I \in SUBSET Nat /\ I # {}
        BY <1>1, <2>2
      <3> HIDE DEF I
      <3>2. QED
        BY <3>1, MinIs
    <2>4. CStr(s) = Substr(s, 0, n)
      BY <2>1, <2>2 DEF CStr, Find
    <2>5. n \in 0 .. Len(s) - 1 /\ s[n + 1] = NUL
      BY <1>1, <2>3 DEF Chr
    <2>6. ASSUME NEW i \in 1 .. n PROVE s[i] # NUL
      <3>1. i - 1 \in 0 .. Len(s) - 1 /\ ~(n <= i - 1)
        BY <1>1, <2>5
      <3>2. i - 1 \notin I
        BY <2>3, <3>1
      <3>3. QED
        BY <1>1, <3>1, <3>2 DEF Chr
    <2> HIDE DEF n
    <2>7. /\ CStr(s) \in Seq(Byte) /\ Len(CStr(s)) = n
          /\ \A i \in 1 .. n : CStr(s)[i] = s[i]
      <3>1. n \in Nat /\ 0 + n <= Len(s) /\ \A i \in 1 .. n : 0 + i = i
        BY <1>1, <2>5
      <3>2. /\ Substr(s, 0, n) \in Seq(Byte) /\ Len(Substr(s, 0, n)) = n
            /\ \A i \in 1 .. n : Substr(s, 0, n)[i] = s[0 + i]
        BY <3>1, SubstrProperties
      <3>3. QED
        BY <2>4, <3>1, <3>2
    <2>8. QED
      BY <1>1, <1>3, <2>5, <2>6, <2>7 DEF NoNul
  <1>4. QED
    BY <1>2, <1>3

\* dropDir and fs_fixPath write over single characters, and never make the
\* string longer.
LEMMA ErasedType ==
    ASSUME NEW s \in Seq(Byte)
    PROVE  /\ Erase(s) \in Seq(Byte) /\ Len(Erase(s)) = Len(s)
           /\ \A i \in Int : EraseAt(s, i) \in Seq(Byte) /\ Len(EraseAt(s, i)) = Len(s)
  <1>1. /\ Len(s) \in Nat /\ DOMAIN s = 1 .. Len(s) /\ s \in [1 .. Len(s) -> Byte]
        /\ \A i \in 1 .. Len(s) : s[i] \in Byte /\ NUL \in Byte
    BY LenProperties, ElementOfSeq DEF Byte
  <1>2. Erase(s) \in [1 .. Len(s) -> Byte]
    BY <1>1 DEF Erase
  <1>3. ASSUME NEW i \in Int PROVE EraseAt(s, i) \in [1 .. Len(s) -> Byte]
    BY <1>1 DEF EraseAt
  <1>4. \A t \in [1 .. Len(s) -> Byte] : t \in Seq(Byte) /\ Len(t) = Len(s)
    BY <1>1
  <1>5. QED
    BY <1>2, <1>3, <1>4

\* The slash where dropDir stops, not counting the first character, or 0.
LEMMA StopIs ==
    ASSUME NEW s \in Seq(Byte)
    PROVE  /\ Stop(s) \in Nat /\ Stop(s) <= Len(s)
           /\ Stop(s) # 0 => Stop(s) < Len(s) /\ Chr(s, Stop(s)) = "/"
           /\ \A i \in 1 .. Len(s) - 1 : Chr(s, i) = "/" => i <= Stop(s)
  <1> DEFINE I == {i \in 1 .. Len(s) - 1 : Chr(s, i) = "/"}
  <1>1. Len(s) \in Nat /\ I \in SUBSET (0 .. Len(s))
    BY LenProperties
  <1>2. Stop(s) = IF I = {} THEN 0 ELSE Max(I)
    BY DEF Stop
  <1>3. CASE I = {}
    BY <1>1, <1>2, <1>3
  <1>4. CASE I # {}
    <2>1. Max(I) \in I /\ \A y \in I : Max(I) >= y
      <3> HIDE DEF I
      <3>1. QED
        BY <1>1, <1>4, MaxIs
    <2>2. QED
      BY <1>1, <1>2, <1>4, <2>1
  <1>5. QED
    BY <1>3, <1>4

-----------------------------------------------------------------------------
(* No helper leaves the string.                                            *)

\* There are NULs in the path only after fs_fixPath(string&) put one there.
Terminated ==
    /\ path \in Seq(Byte)
    /\ ~fixed => NoNul(path)

Inv == Terminated /\ InBounds

LEMMA InvInit == Init => Inv
  <1> SUFFICES ASSUME Init PROVE Inv
    OBVIOUS
  <1>1. PICK k \in 0 .. MaxLen : path \in [1 .. k -> Char]
    BY LetterAssumption DEF Init, Strings
  <1>2. path \in Seq(Char) /\ Len(path) = k
    BY <1>1, LetterAssumption
  <1>3. NUL \notin Char
    BY LetterAssumption DEF Char, NUL
  <1>4. path \in Seq(Byte) /\ NoNul(path)
    BY <1>1, <1>2, <1>3, SeqMonotonic DEF Byte, NoNul
  <1>5. QED
    BY <1>4 DEF Inv, Terminated, InBounds, Init

LEMMA InvStep == Inv /\ [Next]_vars => Inv'
  <1> SUFFICES ASSUME Inv, [Next]_vars PROVE Inv'
    OBVIOUS
  <1>1. path \in Seq(Byte) /\ (~fixed => NoNul(path)) /\ InBounds
    BY DEF Inv, Terminated
  <1>2. ASSUME outside' = outside, outside = "no", path' \in Seq(Byte), ~fixed' => NoNul(path')
        PROVE  Inv'
    BY <1>2 DEF Inv, Terminated, InBounds
  <1>3. CASE outside = "no" /\ CallDropDir
    <2>1. CASE CStr(path) # path
      <3>1. ~NoNul(path)
        BY <1>1, <2>1, CStrProperties
      <3>2. fixed /\ outside' = "drop" /\ path' = path /\ fixed' = fixed
        BY <1>1, <1>3, <2>1, <3>1 DEF CallDropDir
      <3>3. QED
        BY <1>1, <3>2 DEF Inv, Terminated, InBounds
    <2>2. CASE CStr(path) = path
      <3> DEFINE d == Dropped(path)
      <3>1. d \in Seq(Byte)
        <4>1. Erase(path) \in Seq(Byte) /\ Len(path) - 1 \in Int
          BY <1>1, ErasedType, LenProperties
        <4>2. EraseAt(Erase(path), Len(path) - 1) \in Seq(Byte)
          BY <4>1, ErasedType
        <4>3. QED
          BY <4>2, ErasedType DEF Dropped
      <3> HIDE DEF d
      <3>2. EraseAt(d, Stop(d)) \in Seq(Byte)
        BY <3>1, StopIs, ErasedType
      <3>3. DropDir(path) \in Seq(Byte) /\ NoNul(DropDir(path))
        BY <3>2, CStrProperties DEF DropDir, d
      <3>4. path' = DropDir(path) /\ outside' = outside
        BY <1>3, <2>2 DEF CallDropDir
      <3>5. QED
        BY <1>2, <1>3, <3>3, <3>4
    <2>3. QED
      BY <2>1, <2>2
  <1>4. CASE outside = "no" /\ CallDropDirC
    <2> DEFINE s == CStr(path)
    <2>1. s \in Seq(Byte)
      BY <1>1, CStrProperties
    <2> HIDE DEF s
    <2>2. Dropped(s) \in Seq(Byte)
      <3>1. Erase(s) \in Seq(Byte) /\ Len(s) - 1 \in Int
        BY <2>1, ErasedType, LenProperties
      <3>2. EraseAt(Erase(s), Len(s) - 1) \in Seq(Byte)
        BY <3>1, ErasedType
      <3>3. QED
        BY <3>2, ErasedType DEF Dropped
    <2>3. DropDirC(s) \in Seq(Byte) /\ NoNul(DropDirC(s))
      BY <2>2, CStrProperties DEF DropDirC
    <2>4. path' = DropDirC(s) /\ outside' = outside
      BY <1>4 DEF CallDropDirC, s
    <2>5. QED
      BY <1>2, <1>4, <2>3, <2>4
  <1>5. CASE outside = "no" /\ FsFixPath
    <2>1. CASE CStr(path) = <<>>
      <3>1. outside' = "fix" /\ path' = path /\ fixed' = fixed
        BY <1>5, <2>1 DEF FsFixPath
      <3>2. QED
        BY <1>1, <2>1, <3>1 DEF Inv, Terminated, InBounds
    <2>2. CASE CStr(path) # <<>>
      <3> DEFINE i == Len(CStr(path)) - 1
      <3>1. i \in Int
        BY <1>1, CStrProperties, LenProperties
      <3>2. EraseAt(path, i) \in Seq(Byte)
        BY <1>1, <3>1, ErasedType
      <3>3. /\ path' = path \/ path' = EraseAt(path, i)
            /\ fixed' = (fixed \/ path' # path) /\ outside' = outside
        BY <1>5, <2>2 DEF FsFixPath
      <3> HIDE DEF i
      <3>4. QED
        BY <1>1, <1>2, <1>5, <3>2, <3>3
    <2>3. QED
      BY <2>1, <2>2
  <1>6. CASE outside = "no" /\ FsFixPathC
    <2> DEFINE s == CStr(path)
    <2>1. CASE s = <<>>
      <3>1. outside' = "fix" /\ path' = path /\ fixed' = fixed
        BY <1>6, <2>1 DEF FsFixPathC
      <3>2. QED
        BY <1>1, <2>1, <3>1 DEF Inv, Terminated, InBounds
    <2>2. CASE s # <<>>
      <3>1. s \in Seq(Byte) /\ NoNul(s)
        BY <1>1, CStrProperties
      <3>2. path' = s \/ path' = Substr(s, 0, Len(s) - 1)
        BY <1>6, <2>2 DEF FsFixPathC
      <3>3. fixed' = FALSE /\ outside' = outside
        BY <1>6, <2>2 DEF FsFixPathC
      <3> HIDE DEF s
      <3>4. Substr(s, 0, Len(s) - 1) \in Seq(Byte) /\ NoNul(Substr(s, 0, Len(s) - 1))
        <4> DEFINE n == Len(s) - 1
        <4>1. n \in Nat /\ 0 + n <= Len(s) /\ \A i \in 1 .. n : 0 + i = i /\ i \in 1 .. Len(s)
          BY <2>2, <3>1, EmptySeq, LenProperties
        <4> HIDE DEF n
        <4>2. /\ Substr(s, 0, n) \in Seq(Byte) /\ Len(Substr(s, 0, n)) = n
              /\ \A i \in 1 .. n : Substr(s, 0, n)[i] = s[0 + i]
          BY <3>1, <4>1, SubstrProperties
        <4>3. QED
          BY <3>1, <4>1, <4>2 DEF NoNul, n
      <3>5. QED
        BY <1>2, <1>6, <3>1, <3>2, <3>3, <3>4
    <2>3. QED
      BY <2>1, <2>2
  <1>7. CASE UNCHANGED vars
    BY <1>1, <1>7 DEF vars, Inv, Terminated, InBounds
  <1>8. QED
    BY <1>3, <1>4, <1>5, <1>6, <1>7 DEF Next

\* Through any calls, on a path of any length, only fs_fixPath on a string
\* without a character, and dropDir(string&) on one that it has shortened,
\* leave the memory of the string.
THEOREM SpecInBounds == Spec => []InBounds
  <1>1. Inv => InBounds
    BY DEF Inv
  <1>2. QED
    BY <1>1, InvInit, InvStep, PTL DEF Spec

-----------------------------------------------------------------------------
(* dropDir takes one directory off.                                        *)

\* A string that goes on for m characters and then has a NUL, or ends.
LEMMA CStrIs ==
    ASSUME NEW t \in Seq(Byte), NEW s \in Seq(Byte), Len(s) <= Len(t),
           NoNul(s), \A i \in 1 .. Len(s) : t[i] = s[i],
           Len(s) < Len(t) => t[Len(s) + 1] = NUL
    PROVE  CStr(t) = s
  <1> DEFINE c == CStr(t)
  <1>1. /\ c \in Seq(Byte) /\ NoNul(c) /\ Len(c) <= Len(t)
        /\ \A i \in 1 .. Len(c) : c[i] = t[i]
        /\ Len(c) < Len(t) => t[Len(c) + 1] = NUL
    BY CStrProperties
  <1> HIDE DEF c
  <1>2. Len(c) \in Nat /\ Len(s) \in Nat /\ Len(t) \in Nat
    BY <1>1, LenProperties
  <1>3. ~(Len(c) < Len(s))
    <2> SUFFICES ASSUME Len(c) < Len(s) PROVE FALSE
      OBVIOUS
    <2>1. Len(c) + 1 \in 1 .. Len(s) /\ Len(c) < Len(t)
      BY <1>2
    <2>2. QED
      BY <1>1, <2>1 DEF NoNul
  <1>4. ~(Len(s) < Len(c))
    <2> SUFFICES ASSUME Len(s) < Len(c) PROVE FALSE
      OBVIOUS
    <2>1. Len(s) + 1 \in 1 .. Len(c) /\ Len(s) < Len(t)
      BY <1>1, <1>2
    <2>2. QED
      BY <1>1, <2>1 DEF NoNul
  <1>5. Len(c) = Len(s)
    BY <1>2, <1>3, <1>4
  <1>6. \A i \in 1 .. Len(s) : c[i] = s[i]
    BY <1>1, <1>5
  <1>7. QED
    BY <1>1, <1>5, <1>6, SeqEqual DEF c

\* The slash that ends the directory above, or the first character.
Last(s) == {i \in 0 .. Len(s) - 1 : Chr(s, i) = "/" /\ (i < Len(s) - 1)}
Cut(s) == IF Last(s) = {} THEN 0 ELSE Max(Last(s))

LEMMA CutIs ==
    ASSUME NEW s \in Seq(Byte)
    PROVE  /\ Cut(s) \in Nat /\ (Len(s) >= 2 => Cut(s) <= Len(s) - 2)
           /\ Last(s) # {} => Cut(s) \in Last(s)
           /\ \A i \in Last(s) : i <= Cut(s)
  <1>1. Len(s) \in Nat /\ Last(s) \in SUBSET (0 .. Len(s))
    BY LenProperties DEF Last
  <1>2. CASE Last(s) = {}
    BY <1>1, <1>2 DEF Cut
  <1>3. CASE Last(s) # {}
    <2>1. Max(Last(s)) \in Last(s) /\ \A y \in Last(s) : Max(Last(s)) >= y
      BY <1>1, <1>3, MaxIs
    <2>2. Cut(s) = Max(Last(s))
      BY <1>3 DEF Cut
    <2>3. Cut(s) \in 0 .. Len(s) - 1 /\ Cut(s) < Len(s) - 1
      BY <2>1, <2>2 DEF Last
    <2>4. \A y \in Last(s) : y \in Nat
      BY <1>1
    <2>5. QED
      BY <1>1, <1>3, <2>1, <2>2, <2>3, <2>4
  <1>4. QED
    BY <1>2, <1>3

\* Where a string without NULs up to q has them behind q, dropDir stops at q,
\* if there is the slash at q or no slash.
LEMMA StopAt ==
    ASSUME NEW s \in Seq(Byte), NEW q \in 0 .. Len(s) - 1,
           q = 0 \/ Chr(s, q) = "/",
           \A i \in 1 .. Len(s) - 1 : i > q => Chr(s, i) # "/"
    PROVE  Stop(s) = q
  <1>1. Len(s) \in Nat /\ q \in Nat
    BY LenProperties
  <1>2. /\ Stop(s) \in Nat /\ Stop(s) <= Len(s)
        /\ Stop(s) # 0 => Stop(s) < Len(s) /\ Chr(s, Stop(s)) = "/"
        /\ \A i \in 1 .. Len(s) - 1 : Chr(s, i) = "/" => i <= Stop(s)
    BY StopIs
  <1>3. q <= Stop(s)
    <2>1. CASE q = 0
      BY <1>2, <2>1
    <2>2. CASE q # 0
      <3>1. q \in 1 .. Len(s) - 1
        BY <1>1, <2>2
      <3>2. QED
        BY <1>2, <2>2, <3>1
    <2>3. QED
      BY <2>1, <2>2
  <1>4. ~(Stop(s) > q)
    <2> SUFFICES ASSUME Stop(s) > q PROVE FALSE
      OBVIOUS
    <2>1. Stop(s) \in 1 .. Len(s) - 1 /\ Chr(s, Stop(s)) = "/"
      BY <1>1, <1>2
    <2>2. QED
      BY <2>1
  <1>5. QED
    BY <1>1, <1>2, <1>3, <1>4

\* What both loops leave of a string of two characters or more.
LEMMA DroppedIs ==
    ASSUME NEW s \in Seq(Byte), Len(s) >= 2
    PROVE  /\ Dropped(s) \in Seq(Byte) /\ Len(Dropped(s)) = Len(s)
           /\ \A i \in 1 .. Len(s) : Dropped(s)[i] = IF i - 1 > Cut(s) THEN NUL ELSE s[i]
           /\ Stop(Dropped(s)) = Cut(s)
  <1> DEFINE n  == Len(s)
             q  == Cut(s)
             e1 == Erase(s)
             e2 == EraseAt(e1, n - 1)
             e3 == Erase(e2)
  <1>1. n \in Nat /\ n >= 2 /\ q \in Nat /\ q <= n - 2
    BY LenProperties, CutIs
  <1>2. NUL # "/"
    BY DEF NUL
  <1>3. q = 0 \/ Chr(s, q) = "/"
    BY CutIs DEF Cut, Last
  <1>4. \A i \in 1 .. n - 2 : i > q => Chr(s, i) # "/"
    <2> SUFFICES ASSUME NEW i \in 1 .. n - 2, Chr(s, i) = "/" PROVE ~(i > q)
      OBVIOUS
    <2>1. i \in Last(s)
      BY <1>1 DEF Last
    <2>2. QED
      BY <1>1, <2>1, CutIs
  <1> HIDE DEF q
  <1>5. /\ e1 \in Seq(Byte) /\ Len(e1) = n
        /\ \A i \in 1 .. n : e1[i] = IF i - 1 > Stop(s) THEN NUL ELSE s[i]
    BY ErasedType DEF Erase
  <1>6. /\ e2 \in Seq(Byte) /\ Len(e2) = n
        /\ \A i \in 1 .. n : e2[i] = IF i = n THEN NUL ELSE e1[i]
    <2> HIDE DEF e1
    <2>1. DOMAIN e1 = 1 .. n /\ n - 1 \in Int /\ (n - 1) + 1 = n
      BY <1>1, <1>5, LenProperties
    <2>2. QED
      BY <1>5, <2>1, ErasedType DEF EraseAt
  \* What was slash behind q was the last character.
  <1>7. Stop(s) = q \/ Stop(s) = n - 1
    <2>1. CASE Chr(s, n - 1) = "/"
      <3>1. n - 1 \in 0 .. Len(s) - 1 /\ \A i \in 1 .. Len(s) - 1 : ~(i > n - 1)
        BY <1>1
      <3>2. QED
        BY <2>1, <3>1, StopAt
    <2>2. CASE Chr(s, n - 1) # "/"
      <3>1. q \in 0 .. Len(s) - 1 /\ \A i \in 1 .. Len(s) - 1 : i > q => Chr(s, i) # "/"
        BY <1>1, <1>4, <2>2
      <3>2. QED
        BY <1>3, <3>1, StopAt
    <2>3. QED
      BY <2>1, <2>2
  <1>8. \A i \in 1 .. n : e2[i] = IF i = n \/ (i - 1 > q /\ Stop(s) = q) THEN NUL ELSE s[i]
    BY <1>1, <1>5, <1>6, <1>7
  <1> HIDE DEF e1, e2
  <1>9. Stop(e2) = q
    <2>1. q \in 0 .. Len(e2) - 1
      BY <1>1, <1>6
    <2>2. q = 0 \/ Chr(e2, q) = "/"
      BY <1>1, <1>3, <1>6, <1>8 DEF Chr
    <2>3. \A i \in 1 .. Len(e2) - 1 : i > q => Chr(e2, i) # "/"
      <3> SUFFICES ASSUME NEW i \in 1 .. n - 1, i > q PROVE Chr(e2, i) # "/"
        BY <1>6
      <3>1. Chr(e2, i) = e2[i + 1] /\ Chr(s, i) = s[i + 1] /\ i + 1 \in 1 .. n
        BY <1>1, <1>6 DEF Chr
      <3>2. CASE i + 1 = n
        BY <1>2, <1>8, <3>1, <3>2
      <3>3. CASE i + 1 # n
        <4>1. i \in 1 .. n - 2
          BY <1>1, <3>3
        <4>2. QED
          BY <1>2, <1>4, <1>8, <3>1, <4>1
      <3>4. QED
        BY <3>2, <3>3
    <2>4. QED
      BY <1>6, <2>1, <2>2, <2>3, StopAt
  <1>10. /\ e3 \in Seq(Byte) /\ Len(e3) = n
         /\ \A i \in 1 .. n : e3[i] = IF i - 1 > q THEN NUL ELSE e2[i]
    BY <1>6, <1>9, ErasedType DEF Erase
  <1> HIDE DEF e3
  <1>11. \A i \in 1 .. n : e3[i] = IF i - 1 > q THEN NUL ELSE s[i]
    <2> SUFFICES ASSUME NEW i \in 1 .. n, ~(i - 1 > q) PROVE e2[i] = s[i]
      BY <1>10
    <2>1. i # n
      BY <1>1
    <2>2. QED
      BY <1>8, <2>1
  <1>12. Stop(e3) = q
    <2>1. q \in 0 .. Len(e3) - 1
      BY <1>1, <1>10
    <2>2. q = 0 \/ Chr(e3, q) = "/"
      BY <1>1, <1>3, <1>10, <1>11 DEF Chr
    <2>3. \A i \in 1 .. Len(e3) - 1 : i > q => Chr(e3, i) # "/"
      BY <1>1, <1>2, <1>10, <1>11 DEF Chr
    <2>4. QED
      BY <1>10, <2>1, <2>2, <2>3, StopAt
  <1>13. QED
    BY <1>10, <1>11, <1>12 DEF Dropped, e1, e2, e3, q

\* The directory above, in front of its slash.
LEMMA UpIs ==
    ASSUME path \in Seq(Byte), path # <<>>
    PROVE  /\ Pieces(Trimmed, "/") = 0 <=> Last(path) = {}
           /\ Pieces(Trimmed, "/") \in Nat
           /\ Last(path) # {} =>
                Substr(Trimmed, 0, RFind(Trimmed, "/", npos)) = Substr(path, 0, Cut(path))
  <1> DEFINE t == Trimmed
             n == Len(path)
             m == Len(t)
             I == {i \in 0 .. m - 1 : Chr(t, i) = "/" /\ (i <= npos \/ npos < 0)}
  <1>1. n \in Nat /\ n > 0
    BY LenProperties, EmptySeq
  <1>2. /\ t \in Seq(Byte) /\ m \in Nat /\ m <= n /\ n - 1 <= m
        /\ \A i \in 1 .. m : t[i] = path[i]
        /\ m = n => path[n] # "/"
        /\ m # n => m = n - 1 /\ t = Substr(path, 0, m)
    <2>1. CASE path[n] = "/"
      <3>1. /\ Substr(path, 0, n - 1) \in Seq(Byte) /\ Len(Substr(path, 0, n - 1)) = n - 1
            /\ \A i \in 1 .. n - 1 : Substr(path, 0, n - 1)[i] = path[0 + i]
        <4> DEFINE k == n - 1
        <4>1. k \in Nat /\ 0 + k <= n
          BY <1>1
        <4> HIDE DEF k
        <4>2. /\ Substr(path, 0, k) \in Seq(Byte) /\ Len(Substr(path, 0, k)) = k
              /\ \A i \in 1 .. k : Substr(path, 0, k)[i] = path[0 + i]
          BY <4>1, SubstrProperties
        <4>3. QED
          BY <4>2 DEF k
      <3>2. t = Substr(path, 0, n - 1)
        BY <2>1 DEF Trimmed
      <3>3. \A i \in 1 .. n - 1 : 0 + i = i
        BY <1>1
      <3>4. QED
        BY <1>1, <3>1, <3>2, <3>3
    <2>2. CASE path[n] # "/"
      BY <1>1, <2>2 DEF Trimmed
    <2>3. QED
      BY <2>1, <2>2
  <1> HIDE DEF t
  <1>3. I = Last(path)
    <2>1. ASSUME NEW i \in I PROVE i \in Last(path)
      <3>1. i \in 0 .. m - 1 /\ t[i + 1] = "/" /\ i + 1 \in 1 .. m
        BY <1>2 DEF Chr
      <3>2. path[i + 1] = "/" /\ i \in 0 .. n - 1
        BY <1>1, <1>2, <3>1
      <3>3. i < n - 1
        BY <1>1, <1>2, <3>1, <3>2
      <3>4. QED
        BY <1>1, <3>2, <3>3 DEF Last, Chr
    <2>2. ASSUME NEW i \in Last(path) PROVE i \in I
      <3>1. i \in 0 .. n - 1 /\ i < n - 1 /\ path[i + 1] = "/"
        BY <1>1 DEF Last, Chr
      <3>2. i \in 0 .. m - 1 /\ i + 1 \in 1 .. m
        BY <1>1, <1>2, <3>1
      <3>3. QED
        BY <1>2, <3>1, <3>2 DEF Chr, npos
    <2>3. QED
      BY <2>1, <2>2
  <1>4. Pieces(t, "/") \in Nat /\ (Pieces(t, "/") = 0 <=> I = {})
    <2>1. IsFiniteSet(Places(t, "/"))
      <3>1. IsFiniteSet(1 .. m)
        BY <1>2, FS_Interval
      <3>2. Places(t, "/") \in SUBSET (1 .. m)
        BY DEF Places
      <3>3. QED
        BY <3>1, <3>2, FS_Subset
    <2>2. Places(t, "/") = {} <=> I = {}
      <3>1. ASSUME NEW i \in Places(t, "/") PROVE i - 1 \in I
        BY <1>2 DEF Places, Chr, npos
      <3>2. ASSUME NEW i \in I PROVE i + 1 \in Places(t, "/")
        BY <1>2 DEF Places, Chr
      <3>3. QED
        BY <3>1, <3>2
    <2>3. QED
      BY <2>1, <2>2, FS_EmptySet, FS_CardinalityType DEF Pieces
  <1>5. ASSUME Last(path) # {}
        PROVE  Substr(t, 0, RFind(t, "/", npos)) = Substr(path, 0, Cut(path))
    <2> DEFINE q == Cut(path)
    <2>1. RFind(t, "/", npos) = q
      BY <1>3, <1>5 DEF RFind, Cut
    <2>2. q \in Nat /\ q <= m /\ 0 + q <= n
      <3>1. q \in 0 .. n - 1 /\ q < n - 1
        BY <1>5, CutIs DEF Last
      <3>2. QED
        BY <1>1, <1>2, <3>1
    <2> HIDE DEF q
    <2>3. /\ Substr(t, 0, q) \in Seq(Byte) /\ Len(Substr(t, 0, q)) = q
          /\ \A i \in 1 .. q : Substr(t, 0, q)[i] = t[0 + i]
      BY <1>2, <2>2, SubstrProperties
    <2>4. /\ Substr(path, 0, q) \in Seq(Byte) /\ Len(Substr(path, 0, q)) = q
          /\ \A i \in 1 .. q : Substr(path, 0, q)[i] = path[0 + i]
      BY <1>1, <2>2, SubstrProperties
    <2>5. \A i \in 1 .. q : Substr(t, 0, q)[i] = Substr(path, 0, q)[i]
      BY <1>2, <2>2, <2>3, <2>4
    <2>6. Substr(t, 0, q) = Substr(path, 0, q)
      BY <2>3, <2>4, <2>5, SeqEqual
    <2>7. QED
      BY <2>1, <2>6 DEF q
  <1>6. QED
    BY <1>3, <1>4, <1>5 DEF t

LEMMA DropsOne ==
    ASSUME path \in Seq(Byte)
    PROVE  DropsOneDir
  <1> SUFFICES ASSUME Whole
               PROVE  LET up == Substr(Trimmed, 0, RFind(Trimmed, "/", npos)) IN
                      /\ DropDir(path) = (IF Pieces(Trimmed, "/") = 0 THEN <<>> ELSE up)
                      /\ Len(DropDirC(path)) < Len(path)
                      /\ Pieces(Trimmed, "/") > 0 => DropDirC(path) = up \o <<"/">>
    BY DEF DropsOneDir
  <1> DEFINE n  == Len(path)
             q  == Cut(path)
             d  == Dropped(path)
             up == Substr(path, 0, q)
  <1>1. n \in Nat /\ n >= 1 /\ NoNul(path) /\ path # <<>>
    BY LenProperties, EmptySeq, CStrProperties DEF Whole
  \* Of a single character nothing is left.
  <1>2. CASE n = 1
    <2>1. Last(path) = {}
      BY <1>2 DEF Last
    <2>2. Pieces(Trimmed, "/") = 0
      BY <1>1, <2>1, UpIs
    <2> DEFINE e2 == EraseAt(Erase(path), n - 1)
    <2>3. /\ Erase(path) \in Seq(Byte) /\ Len(Erase(path)) = 1
      BY <1>2, ErasedType
    <2>4. /\ e2 \in Seq(Byte) /\ Len(e2) = 1 /\ e2[1] = NUL
      <3> DEFINE e1 == Erase(path)
      <3>1. DOMAIN e1 = 1 .. 1 /\ e1 \in Seq(Byte) /\ Len(e1) = 1
        BY <2>3, LenProperties
      <3> HIDE DEF e1
      <3>2. EraseAt(e1, 0) \in Seq(Byte) /\ Len(EraseAt(e1, 0)) = 1
        BY <3>1, ErasedType
      <3>3. EraseAt(e1, 0)[1] = NUL
        BY <3>1 DEF EraseAt
      <3>4. QED
        BY <1>2, <3>2, <3>3 DEF e1
    <2> HIDE DEF e2
    <2>5. d \in Seq(Byte) /\ Len(d) = 1 /\ d[1] = NUL
      <3>1. d = Erase(e2)
        BY DEF Dropped, e2
      <3>2. Erase(e2)[1] = NUL
        BY <2>4 DEF Erase
      <3>3. QED
        BY <2>4, <3>1, <3>2, ErasedType
    <2> HIDE DEF d
    <2>6. ASSUME NEW t \in Seq(Byte), Len(t) = 1, t[1] = NUL PROVE CStr(t) = <<>>
      <3>1. <<>> \in Seq(Byte) /\ Len(<<>>) = 0 /\ NoNul(<<>>)
        BY DEF NoNul
      <3>2. Len(<<>>) <= Len(t) /\ (Len(<<>>) < Len(t) => t[Len(<<>>) + 1] = NUL)
        BY <2>6
      <3>3. \A i \in 1 .. Len(<<>>) : t[i] = <<>>[i]
        OBVIOUS
      <3>4. QED
        BY <3>1, <3>2, <3>3, CStrIs
    <2>7. /\ EraseAt(d, Stop(d)) \in Seq(Byte)
          /\ Len(EraseAt(d, Stop(d))) = 1
          /\ EraseAt(d, Stop(d))[1] = NUL
      <3>1. Stop(d) \in Int /\ DOMAIN d = 1 .. 1
        BY <2>5, StopIs, LenProperties
      <3>2. EraseAt(d, Stop(d)) \in Seq(Byte) /\ Len(EraseAt(d, Stop(d))) = 1
        BY <2>5, <3>1, ErasedType
      <3>3. EraseAt(d, Stop(d))[1] = NUL
        BY <2>5, <3>1 DEF EraseAt
      <3>4. QED
        BY <3>2, <3>3
    <2>8. DropDir(path) = <<>> /\ DropDirC(path) = <<>>
      BY <2>5, <2>6, <2>7 DEF DropDir, DropDirC, d
    <2>9. QED
      BY <1>2, <2>2, <2>8
  <1>3. CASE n >= 2
    <2>1. /\ d \in Seq(Byte) /\ Len(d) = n /\ Stop(d) = q
          /\ \A i \in 1 .. n : d[i] = IF i - 1 > q THEN NUL ELSE path[i]
      BY <1>3, DroppedIs
    <2>2. q \in Nat /\ q <= n - 2
      BY <1>3, CutIs
    <2>3. Last(path) = {} => q = 0
      BY DEF Cut
    <2>4. Last(path) # {} => path[q + 1] = "/"
      BY CutIs DEF Last, Chr
    <2> HIDE DEF d, q
    <2>5. /\ up \in Seq(Byte) /\ Len(up) = q
          /\ \A i \in 1 .. q : up[i] = path[i]
      <3>1. 0 + q <= n /\ \A i \in 1 .. q : 0 + i = i
        BY <1>1, <2>2
      <3>2. /\ up \in Seq(Byte) /\ Len(up) = q
            /\ \A i \in 1 .. q : up[i] = path[0 + i]
        BY <2>2, <3>1, SubstrProperties
      <3>3. QED
        BY <3>1, <3>2
    <2> HIDE DEF up
    <2>6. NoNul(up)
      BY <1>1, <2>2, <2>5 DEF NoNul
    <2>7. CStr(EraseAt(d, q)) = up
      <3> DEFINE e == EraseAt(d, q)
      <3>1. /\ e \in Seq(Byte) /\ Len(e) = n /\ e[q + 1] = NUL
            /\ \A i \in 1 .. q : e[i] = path[i]
        <4>1. DOMAIN d = 1 .. n /\ q \in Int /\ q + 1 \in 1 .. n
          BY <1>1, <2>1, <2>2, LenProperties
        <4>2. e \in Seq(Byte) /\ Len(e) = n
          BY <2>1, <4>1, ErasedType
        <4>3. e[q + 1] = NUL
          BY <4>1 DEF EraseAt
        <4>4. ASSUME NEW i \in 1 .. q PROVE e[i] = path[i]
          <5>1. i \in 1 .. n /\ i # q + 1 /\ ~(i - 1 > q)
            BY <1>1, <2>2
          <5>2. e[i] = d[i]
            BY <4>1, <5>1 DEF EraseAt
          <5>3. QED
            BY <2>1, <5>1, <5>2
        <4>5. QED
          BY <4>2, <4>3, <4>4
      <3> HIDE DEF e
      <3>2. Len(up) <= Len(e) /\ \A i \in 1 .. Len(up) : e[i] = up[i]
        BY <1>1, <2>2, <2>5, <3>1
      <3>3. Len(up) < Len(e) => e[Len(up) + 1] = NUL
        BY <2>5, <3>1
      <3>4. QED
        BY <2>5, <2>6, <3>1, <3>2, <3>3, CStrIs DEF e
    <2> DEFINE c == SubSeq(path, 1, q + 1)
    <2>8. /\ c \in Seq(Byte) /\ Len(c) = q + 1 /\ NoNul(c)
          /\ \A i \in 1 .. q + 1 : c[i] = path[i]
      <3>1. /\ \A i \in 1 .. q + 1 : path[i] \in Byte
            /\ (q + 1) - 1 + 1 = q + 1 /\ \A i \in 1 .. q + 1 : 1 + i - 1 = i
        BY <1>1, <2>2, ElementOfSeq
      <3>2. /\ c \in Seq(Byte) /\ Len(c) = q + 1
            /\ \A i \in 1 .. q + 1 : c[i] = path[i]
        BY <2>2, <3>1, SubSeqProperties
      <3>3. QED
        BY <1>1, <2>2, <3>2 DEF NoNul
    <2> HIDE DEF c
    <2>9. CStr(d) = c
      <3>1. Len(c) <= Len(d) /\ \A i \in 1 .. Len(c) : d[i] = c[i]
        BY <1>1, <2>1, <2>2, <2>8
      <3>2. Len(c) < Len(d) => d[Len(c) + 1] = NUL
        BY <1>1, <2>1, <2>2, <2>8
      <3>3. QED
        BY <2>1, <2>8, <3>1, <3>2, CStrIs
    <2>10. ASSUME Last(path) # {} PROVE c = up \o <<"/">>
      <3> DEFINE u == up \o <<"/">>
      <3>1. u \in Seq(Byte) /\ Len(u) = q + 1 /\ u[q + 1] = "/" /\ \A i \in 1 .. q : u[i] = up[i]
        <4>1. <<"/">> \in Seq(Byte) /\ Len(<<"/">>) = 1
          BY DEF Byte, Char
        <4>2. QED
          BY <2>2, <2>5, <4>1, ConcatProperties
      <3> HIDE DEF u
      <3>2. \A i \in 1 .. q + 1 : c[i] = u[i]
        BY <2>2, <2>4, <2>5, <2>8, <2>10, <3>1
      <3>3. QED
        BY <2>8, <3>1, <3>2, SeqEqual DEF u
    <2>11. DropDir(path) = up /\ DropDirC(path) = c
      BY <2>1, <2>7, <2>9 DEF DropDir, DropDirC, d
    <2>12. Last(path) = {} => up = <<>>
      BY <2>3, <2>5, EmptySeq
    <2>13. Len(c) < n
      BY <1>1, <2>2, <2>8
    <2>14. /\ Pieces(Trimmed, "/") = 0 <=> Last(path) = {}
           /\ Pieces(Trimmed, "/") \in Nat
           /\ Last(path) # {} => Substr(Trimmed, 0, RFind(Trimmed, "/", npos)) = up
      BY <1>1, UpIs DEF up, q
    <2>15. QED
      BY <2>10, <2>11, <2>12, <2>13, <2>14
  <1>4. QED
    BY <1>1, <1>2, <1>3

\* Each dropDir takes one directory off a path of any length.
THEOREM SpecDropsOneDir == Spec => []DropsOneDir
  <1>1. Inv => DropsOneDir
    BY DropsOne DEF Inv, Terminated
  <1>2. QED
    BY <1>1, InvInit, InvStep, PTL DEF Spec

\* A set with 0 and every successor below n has every number up to n.  (The
\* induction theorems of the library have predicates as parameters; here a
\* predicate is the set of the numbers that satisfy it.)
LEMMA Induct ==
    ASSUME NEW n \in Nat, NEW T, 0 \in T, \A k \in 0 .. n - 1 : k \in T => k + 1 \in T
    PROVE  0 .. n \subseteq T
  <1> DEFINE B == {k \in 0 .. n : k \notin T}
  <1> SUFFICES ASSUME B # {} PROVE FALSE
    OBVIOUS
  <1>1. B \in SUBSET Nat
    OBVIOUS
  <1>2. PICK k \in B : \A j \in B : k <= j
    BY <1>1, Least
  <1>3. k - 1 \in 0 .. n - 1 /\ k - 1 \notin B
    BY <1>2
  <1>4. QED
    BY <1>2, <1>3

-----------------------------------------------------------------------------
(* The places of a character divide a string into pieces.                  *)

\* The places of c, with one in front of the string and one behind it.
Marks(s, c) == Places(s, c) \cup {0, Len(s) + 1}
Before(s, c, i) == {j \in Marks(s, c) : j < i}

\* i is the k-th of them.
Mark(s, c, k, i) == i \in Marks(s, c) /\ Cardinality(Before(s, c, i)) = k
Place(s, c, k) == CHOOSE i \in Marks(s, c) : Cardinality(Before(s, c, i)) = k

LEMMA PieceIs ==
    ASSUME NEW s, NEW c, NEW k
    PROVE  Piece(s, c, k) = SubSeq(s, Place(s, c, k) + 1, Place(s, c, k + 1) - 1)
  BY DEF Piece, Place, Marks, Before

LEMMA MarksFinite ==
    ASSUME NEW s \in Seq(Byte), NEW c
    PROVE  /\ Len(s) \in Nat /\ Marks(s, c) \subseteq 0 .. Len(s) + 1
           /\ Places(s, c) \subseteq 1 .. Len(s) /\ IsFiniteSet(Places(s, c))
           /\ Pieces(s, c) \in Nat
           /\ \A i : IsFiniteSet(Before(s, c, i)) /\ Cardinality(Before(s, c, i)) \in Nat
  <1>1. /\ Len(s) \in Nat /\ Marks(s, c) \subseteq 0 .. Len(s) + 1
        /\ Places(s, c) \subseteq 1 .. Len(s)
    BY LenProperties DEF Marks, Places
  <1>2. ASSUME NEW T \in SUBSET (0 .. Len(s) + 1)
        PROVE  IsFiniteSet(T) /\ Cardinality(T) \in Nat
    <2>1. IsFiniteSet(0 .. Len(s) + 1)
      <3>1. 0 \in Int /\ Len(s) + 1 \in Int
        BY <1>1
      <3>2. QED
        BY <3>1, FS_Interval
    <2>2. QED
      BY <2>1, FS_Subset, FS_CardinalityType
  <1>3. Places(s, c) \in SUBSET (0 .. Len(s) + 1)
    BY <1>1
  <1>4. ASSUME NEW i PROVE Before(s, c, i) \in SUBSET (0 .. Len(s) + 1)
    BY <1>1 DEF Before
  <1>5. QED
    BY <1>1, <1>2, <1>3, <1>4 DEF Pieces

\* The more marks in front, the further behind.
LEMMA MarkOrder ==
    ASSUME NEW s \in Seq(Byte), NEW c, NEW k, NEW i, Mark(s, c, k, i),
           NEW l, NEW j, Mark(s, c, l, j), i < j
    PROVE  k < l
  <1>1. i \in Nat /\ j \in Nat
    BY MarksFinite DEF Mark
  <1>2. Before(s, c, i) \in SUBSET Before(s, c, j) /\ i \in Before(s, c, j)
    <2>1. ASSUME NEW x \in Before(s, c, i) PROVE x \in Before(s, c, j)
      <3>1. x \in Marks(s, c) /\ x < i /\ Marks(s, c) \subseteq 0 .. Len(s) + 1
        BY MarksFinite DEF Before
      <3>2. x < j
        BY <1>1, <3>1
      <3>3. QED
        BY <3>1, <3>2 DEF Before
    <2>2. i \in Before(s, c, j)
      BY DEF Before, Mark
    <2>3. QED
      BY <2>1, <2>2
  <1>3. i \notin Before(s, c, i)
    BY <1>1 DEF Before
  <1>4. IsFiniteSet(Before(s, c, j))
    BY MarksFinite
  <1>5. /\ Cardinality(Before(s, c, i)) <= Cardinality(Before(s, c, j))
        /\ Cardinality(Before(s, c, j)) = Cardinality(Before(s, c, i)) =>
             Before(s, c, j) = Before(s, c, i)
    BY <1>2, <1>4, FS_Subset
  <1>6. k \in Nat /\ l \in Nat /\ k <= l /\ k # l
    BY <1>2, <1>3, <1>5, MarksFinite DEF Mark
  <1>7. QED
    BY <1>6

LEMMA MarkUnique ==
    ASSUME NEW s \in Seq(Byte), NEW c, NEW k, NEW i, Mark(s, c, k, i),
           NEW j, Mark(s, c, k, j)
    PROVE  i = j
  <1>1. i \in Nat /\ j \in Nat /\ k \in Nat
    BY MarksFinite DEF Mark
  <1>2. ~(i < j) /\ ~(j < i)
    BY <1>1, MarkOrder
  <1>3. QED
    BY <1>1, <1>2

LEMMA MarkPlace ==
    ASSUME NEW s \in Seq(Byte), NEW c, NEW k, NEW i, Mark(s, c, k, i)
    PROVE  Place(s, c, k) = i
  <1>1. Mark(s, c, k, Place(s, c, k))
    BY DEF Mark, Place
  <1>2. QED
    BY <1>1, MarkUnique

LEMMA MarkFirst ==
    ASSUME NEW s \in Seq(Byte), NEW c
    PROVE  Mark(s, c, 0, 0)
  <1>1. Before(s, c, 0) = {}
    BY MarksFinite DEF Before
  <1>2. QED
    BY <1>1, FS_EmptySet DEF Mark, Marks

LEMMA MarkLast ==
    ASSUME NEW s \in Seq(Byte), NEW c
    PROVE  Mark(s, c, Pieces(s, c) + 1, Len(s) + 1)
  <1>1. Before(s, c, Len(s) + 1) = Places(s, c) \cup {0} /\ 0 \notin Places(s, c)
    BY MarksFinite DEF Before, Marks
  <1>2. Cardinality(Places(s, c) \cup {0}) = Cardinality(Places(s, c)) + 1
    BY <1>1, MarksFinite, FS_AddElement
  <1>3. QED
    BY <1>1, <1>2 DEF Mark, Marks, Pieces

\* The next of the marks is the least behind.
LEMMA MarkNext ==
    ASSUME NEW s \in Seq(Byte), NEW c, NEW k, NEW i, Mark(s, c, k, i), i # Len(s) + 1
    PROVE  \E j : /\ Mark(s, c, k + 1, j) /\ i < j
                  /\ \A x \in Places(s, c) : ~(i < x /\ x < j)
  <1> DEFINE T == {x \in Marks(s, c) : i < x}
  <1>1. Len(s) \in Nat /\ Marks(s, c) \subseteq 0 .. Len(s) + 1 /\ i \in Marks(s, c)
    BY MarksFinite DEF Mark
  <1>2. Len(s) + 1 \in T /\ T \in SUBSET Nat
    BY <1>1 DEF Marks
  <1>3. PICK j \in T : \A x \in T : j <= x
    <2> HIDE DEF T
    <2>1. QED
      BY <1>2, Least
  <1>4. j \in Marks(s, c) /\ i < j /\ \A x \in Marks(s, c) : x < j <=> x < i \/ x = i
    BY <1>1, <1>3
  <1>5. Before(s, c, j) = Before(s, c, i) \cup {i} /\ i \notin Before(s, c, i)
    BY <1>1, <1>4 DEF Before
  <1>6. Cardinality(Before(s, c, i) \cup {i}) = Cardinality(Before(s, c, i)) + 1
    BY <1>5, MarksFinite, FS_AddElement
  <1>7. Mark(s, c, k + 1, j)
    BY <1>4, <1>5, <1>6 DEF Mark
  <1>8. \A x \in Places(s, c) : ~(i < x /\ x < j)
    BY <1>1, <1>4 DEF Marks
  <1>9. QED
    BY <1>4, <1>7, <1>8

LEMMA MarksExist ==
    ASSUME NEW s \in Seq(Byte), NEW c, NEW k \in 0 .. Pieces(s, c) + 1
    PROVE  Mark(s, c, k, Place(s, c, k))
  <1> DEFINE n == Pieces(s, c) + 1
             T == {x \in Nat : \E i : Mark(s, c, x, i)}
  <1>1. n \in Nat
    BY MarksFinite
  <1>2. 0 \in T
    BY MarkFirst
  <1>3. ASSUME NEW x \in 0 .. n - 1, x \in T PROVE x + 1 \in T
    <2>1. PICK i : Mark(s, c, x, i)
      BY <1>3
    <2>2. i # Len(s) + 1
      <3>1. SUFFICES ASSUME i = Len(s) + 1 PROVE FALSE
        OBVIOUS
      <3>2. x = n
        BY <2>1, <3>1, MarkLast DEF Mark
      <3>3. QED
        BY <1>1, <3>2
    <2>3. PICK j : Mark(s, c, x + 1, j)
      BY <2>1, <2>2, MarkNext
    <2>4. QED
      BY <2>3
  <1> HIDE DEF T, n
  <1>4. 0 .. n \subseteq T
    BY <1>1, <1>2, <1>3, Induct
  <1>5. PICK i : Mark(s, c, k, i)
    BY <1>4 DEF T, n
  <1>6. QED
    BY <1>5, MarkPlace

\* What a search from one mark to the next may use: no c is between them.
Follow(s, c, k) ==
    /\ Place(s, c, k) \in Nat /\ Place(s, c, k + 1) \in 1 .. Len(s) + 1
    /\ Place(s, c, k) < Place(s, c, k + 1)
    /\ \A x \in 1 .. Len(s) : Place(s, c, k) < x /\ x < Place(s, c, k + 1) => s[x] # c
    /\ k < Pieces(s, c) => Place(s, c, k + 1) <= Len(s) /\ s[Place(s, c, k + 1)] = c
    /\ k = Pieces(s, c) => Place(s, c, k + 1) = Len(s) + 1

LEMMA PlaceFirst ==
    ASSUME NEW s \in Seq(Byte), NEW c
    PROVE  Place(s, c, 0) = 0 /\ Place(s, c, Pieces(s, c) + 1) = Len(s) + 1
  BY MarkFirst, MarkLast, MarkPlace

LEMMA PlacesFollow ==
    ASSUME NEW s \in Seq(Byte), NEW c, NEW k \in 0 .. Pieces(s, c)
    PROVE  Follow(s, c, k)
  <1> DEFINE n == Pieces(s, c)
             i == Place(s, c, k)
  <1>1. n \in Nat /\ Len(s) \in Nat /\ Marks(s, c) \subseteq 0 .. Len(s) + 1
    BY MarksFinite
  <1>2. k \in 0 .. n + 1 /\ k + 1 \in 0 .. n + 1 /\ k # n + 1
    BY <1>1
  <1>3. Mark(s, c, k, i)
    BY <1>2, MarksExist
  <1>4. i # Len(s) + 1
    BY <1>2, <1>3, MarkLast DEF Mark
  <1>5. PICK j : Mark(s, c, k + 1, j) /\ i < j /\ \A x \in Places(s, c) : ~(i < x /\ x < j)
    BY <1>3, <1>4, MarkNext
  <1>6. j = Place(s, c, k + 1)
    BY <1>5, MarkPlace
  <1>7. i \in 0 .. Len(s) + 1 /\ j \in 0 .. Len(s) + 1
    BY <1>1, <1>3, <1>5 DEF Mark
  <1>8. ASSUME k < n PROVE j <= Len(s) /\ s[j] = c
    <2>1. j # Len(s) + 1
      BY <1>1, <1>5, <1>8, MarkLast DEF Mark
    <2>2. j \in Places(s, c)
      BY <1>5, <1>7, <2>1 DEF Mark, Marks
    <2>3. QED
      BY <1>7, <2>1, <2>2 DEF Places
  <1>9. ASSUME k = n PROVE j = Len(s) + 1
    BY <1>6, <1>9, PlaceFirst
  <1>10. \A x \in 1 .. Len(s) : i < x /\ x < j => s[x] # c
    BY <1>5 DEF Places
  <1> HIDE DEF i
  <1>11. QED
    BY <1>1, <1>5, <1>6, <1>7, <1>8, <1>9, <1>10 DEF Follow, i

-----------------------------------------------------------------------------
(* A search from one mark goes to the next.                                *)

LEMMA FindIs ==
    ASSUME NEW s \in Seq(Byte), NEW c, NEW from \in Nat, NEW r \in from .. Len(s) - 1,
           s[r + 1] = c, \A x \in 1 .. Len(s) : from < x /\ x < r + 1 => s[x] # c
    PROVE  Find(s, c, from) = r
  <1> DEFINE I == {i \in from .. Len(s) - 1 : Chr(s, i) = c}
  <1>1. Len(s) \in Nat
    BY LenProperties
  <1>2. r \in I
    BY <1>1 DEF Chr
  <1>3. Min(I) \in I /\ \A i \in I : Min(I) <= i
    <2>1. I \in SUBSET Nat /\ I # {}
      BY <1>1, <1>2
    <2> HIDE DEF I
    <2>2. QED
      BY <2>1, MinIs
  <1>4. Min(I) \in from .. Len(s) - 1 /\ s[Min(I) + 1] = c /\ Min(I) <= r
    BY <1>1, <1>2, <1>3 DEF Chr
  <1>5. Find(s, c, from) = Min(I)
    BY <1>2 DEF Find
  <1> HIDE DEF I
  <1>6. Min(I) + 1 \in 1 .. Len(s) /\ from < Min(I) + 1
    BY <1>1, <1>4
  <1>7. ~(Min(I) + 1 < r + 1)
    BY <1>4, <1>6
  <1>8. QED
    BY <1>4, <1>5, <1>7

LEMMA FindNone ==
    ASSUME NEW s \in Seq(Byte), NEW c, NEW from \in Nat,
           \A x \in 1 .. Len(s) : from < x => s[x] # c
    PROVE  Find(s, c, from) = npos
  <1>1. Len(s) \in Nat
    BY LenProperties
  <1>2. ASSUME NEW i \in from .. Len(s) - 1 PROVE Chr(s, i) # c
    <2>1. i + 1 \in 1 .. Len(s) /\ from < i + 1
      BY <1>1
    <2>2. Chr(s, i) = s[i + 1]
      BY <1>1 DEF Chr
    <2>3. QED
      BY <2>1, <2>2
  <1>3. QED
    BY <1>2 DEF Find

LEMMA FindNext ==
    ASSUME NEW s \in Seq(Byte), NEW c, NEW k \in 0 .. Pieces(s, c)
    PROVE  Find(s, c, Place(s, c, k)) =
             IF k < Pieces(s, c) THEN Place(s, c, k + 1) - 1 ELSE npos
  <1> DEFINE i == Place(s, c, k)
             j == Place(s, c, k + 1)
  <1>1. /\ i \in Nat /\ j \in 1 .. Len(s) + 1 /\ i < j
        /\ \A x \in 1 .. Len(s) : i < x /\ x < j => s[x] # c
        /\ k < Pieces(s, c) => j <= Len(s) /\ s[j] = c
        /\ k = Pieces(s, c) => j = Len(s) + 1
    BY PlacesFollow DEF Follow
  <1>2. Len(s) \in Nat /\ Pieces(s, c) \in Nat
    BY MarksFinite
  <1> HIDE DEF i, j
  <1>3. CASE k < Pieces(s, c)
    <2>1. j - 1 \in i .. Len(s) - 1 /\ (j - 1) + 1 = j
      BY <1>1, <1>2, <1>3
    <2>2. Find(s, c, i) = j - 1
      BY <1>1, <1>3, <2>1, FindIs
    <2>3. QED
      BY <1>3, <2>2 DEF i, j
  <1>4. CASE k = Pieces(s, c)
    <2>1. \A x \in 1 .. Len(s) : i < x => s[x] # c
      BY <1>1, <1>2, <1>4
    <2>2. Find(s, c, i) = npos
      BY <1>1, <2>1, FindNone
    <2>3. QED
      BY <1>2, <1>4, <2>2 DEF i
  <1>5. QED
    BY <1>2, <1>3, <1>4

\* What lies between is a piece.
LEMMA PieceFrom ==
    ASSUME NEW s \in Seq(Byte), NEW c, NEW k \in 0 .. Pieces(s, c)
    PROVE  Substr(s, Place(s, c, k), Find(s, c, Place(s, c, k)) - Place(s, c, k)) =
             Piece(s, c, k)
  <1> DEFINE i == Place(s, c, k)
             j == Place(s, c, k + 1)
             f == Find(s, c, i)
  <1>1. /\ i \in Nat /\ j \in 1 .. Len(s) + 1 /\ i < j
        /\ k = Pieces(s, c) => j = Len(s) + 1
    BY PlacesFollow DEF Follow
  <1>2. Len(s) \in Nat /\ Pieces(s, c) \in Nat
    BY MarksFinite
  <1>3. f = IF k < Pieces(s, c) THEN j - 1 ELSE npos
    BY FindNext
  <1>4. Piece(s, c, k) = SubSeq(s, i + 1, j - 1)
    BY PieceIs
  <1> HIDE DEF i, j, f
  <1>5. CASE k < Pieces(s, c)
    <2>1. f - i >= 0 /\ i + (f - i) = j - 1 /\ j - 1 <= Len(s)
      BY <1>1, <1>2, <1>3, <1>5
    <2>2. Substr(s, i, f - i) = SubSeq(s, i + 1, j - 1)
      BY <2>1, <1>1, <1>2, <1>3, <1>5 DEF Substr
    <2>3. QED
      BY <1>4, <2>2 DEF i, f
  <1>6. CASE k = Pieces(s, c)
    <2>1. f - i < 0 /\ j - 1 = Len(s)
      BY <1>1, <1>2, <1>3, <1>6 DEF npos
    <2>2. Substr(s, i, f - i) = SubSeq(s, i + 1, j - 1)
      BY <2>1 DEF Substr
    <2>3. QED
      BY <1>4, <2>2 DEF i, f
  <1>7. QED
    BY <1>2, <1>5, <1>6

\* Counting round m + 1 places.
LEMMA Round ==
    ASSUME NEW m \in Nat
    PROVE  /\ 0 % (m + 1) = 0
           /\ \A x \in Nat : /\ x % (m + 1) \in 0 .. m
                             /\ (x + 1) % (m + 1) =
                                  IF x % (m + 1) < m THEN (x % (m + 1)) + 1 ELSE 0
  OBVIOUS

LEMMA ParsePathIs ==
    ASSUME NEW p \in Seq(Byte), NEW count \in Nat
    PROVE  ParsePath(p, count) = Piece(p, "/", (count + 1) % (Pieces(p, "/") + 1))
  <1> DEFINE m == Pieces(p, "/")
             at(i) == Place(p, "/", i % (m + 1))
             F(f) == [i \in 0 .. count + 1 |-> IF i = 0 THEN 0 ELSE Find(p, "/", f[i - 1]) + 1]
             g == [i \in 0 .. count + 1 |-> at(i)]
             beg == CHOOSE f : f = F(f)
             T == {i \in 0 .. count + 1 : beg[i] = at(i)}
  <1>1. m \in Nat
    BY MarksFinite
  <1>2. at(0) = 0
    BY <1>1, Round, PlaceFirst
  <1>3. ASSUME NEW i \in Nat PROVE at(i + 1) = Find(p, "/", at(i)) + 1
    <2> DEFINE k == i % (m + 1)
    <2>1. k \in 0 .. m /\ (i + 1) % (m + 1) = IF k < m THEN k + 1 ELSE 0
      BY <1>1, Round
    <2> HIDE DEF k
    <2>2. Find(p, "/", Place(p, "/", k)) = IF k < m THEN Place(p, "/", k + 1) - 1 ELSE npos
      BY <2>1, FindNext
    <2>3. k < m => Place(p, "/", k + 1) \in Int
      BY <2>1, PlacesFollow, LenProperties DEF Follow
    <2>4. Place(p, "/", 0) = 0
      BY PlaceFirst
    <2>5. QED
      BY <2>1, <2>2, <2>3, <2>4 DEF npos, k
  <1> HIDE DEF m, at
  <1>4. g = F(g)
    <2>1. ASSUME NEW i \in 0 .. count + 1
          PROVE  g[i] = IF i = 0 THEN 0 ELSE Find(p, "/", g[i - 1]) + 1
      <3>1. CASE i = 0
        BY <1>2, <3>1
      <3>2. CASE i # 0
        <4>1. i - 1 \in 0 .. count + 1 /\ i - 1 \in Nat /\ (i - 1) + 1 = i
          BY <3>2
        <4>2. at(i) = Find(p, "/", at(i - 1)) + 1
          BY <1>3, <4>1
        <4>3. QED
          BY <3>2, <4>1, <4>2
      <3>3. QED
        BY <3>1, <3>2
    <2>2. QED
      BY <2>1
  <1>5. beg = F(beg)
    <2> HIDE DEF F, g
    <2>1. QED
      BY <1>4
  <1> HIDE DEF beg
  <1>6. 0 \in T
    BY <1>2, <1>5
  <1>7. ASSUME NEW i \in 0 .. (count + 1) - 1, i \in T PROVE i + 1 \in T
    <2>1. i + 1 \in 0 .. count + 1 /\ i + 1 # 0 /\ (i + 1) - 1 = i /\ i \in Nat
      OBVIOUS
    <2>2. beg[i + 1] = Find(p, "/", beg[i]) + 1
      BY <1>5, <2>1
    <2>3. QED
      BY <1>3, <1>7, <2>1, <2>2
  <1>8. count + 1 \in T
    <2>1. count + 1 \in Nat
      OBVIOUS
    <2> HIDE DEF T
    <2>2. 0 .. count + 1 \subseteq T
      BY <1>6, <1>7, <2>1, Induct
    <2>3. QED
      BY <2>2
  <1>9. beg[count + 1] = Place(p, "/", (count + 1) % (m + 1))
    BY <1>8 DEF at
  <1>10. ParsePath(p, count) =
           Substr(p, beg[count + 1], Find(p, "/", beg[count + 1]) - beg[count + 1])
    BY DEF ParsePath, beg
  <1>11. (count + 1) % (m + 1) \in 0 .. m
    <2>1. count + 1 \in Nat
      OBVIOUS
    <2>2. QED
      BY <1>1, <2>1
  <1>12. QED
    BY <1>9, <1>10, <1>11, PieceFrom DEF m

LEMMA ParseStringIs ==
    ASSUME NEW line \in Seq(Byte), NEW pos \in 1 .. MaxCount, MaxCount \in Nat
    PROVE  ParseString(line, pos) =
             IF Pieces(line, "'") < 2 * pos THEN <<>> ELSE Piece(line, "'", 2 * pos - 1)
  <1> DEFINE m == Pieces(line, "'")
             P(k) == Place(line, "'", k)
             at(i) == IF 2 * i <= m THEN P(2 * i) ELSE npos
             E(v) == LET o == Find(line, "'", v)
                         c == IF o = npos THEN npos ELSE Find(line, "'", o + 1)
                     IN  IF v = npos \/ c = npos THEN npos ELSE c + 1
             F(f) == [i \in 0 .. MaxCount |-> IF i = 0 THEN 0 ELSE E(f[i - 1])]
             g == [i \in 0 .. MaxCount |-> at(i)]
             close == CHOOSE f : f = F(f)
             T == {i \in 0 .. MaxCount : close[i] = at(i)}
  <1>1. m \in Nat
    BY MarksFinite
  <1>2. at(0) = 0
    BY <1>1, PlaceFirst
  <1>3. ASSUME NEW k \in 0 .. m
        PROVE  /\ Find(line, "'", P(k)) = IF k < m THEN P(k + 1) - 1 ELSE npos
               /\ P(k) \in Nat /\ P(k + 1) \in Nat /\ P(k) < P(k + 1) /\ P(k + 1) <= Len(line) + 1
    <2>1. Find(line, "'", P(k)) = IF k < m THEN P(k + 1) - 1 ELSE npos
      BY FindNext
    <2>2. /\ P(k) \in Nat /\ P(k + 1) \in 1 .. Len(line) + 1 /\ P(k) < P(k + 1)
      BY PlacesFollow DEF Follow
    <2>3. QED
      BY <2>1, <2>2, LenProperties
  <1> HIDE DEF m, P
  <1>4. ASSUME NEW i \in Nat PROVE at(i + 1) = E(at(i))
    <2>1. CASE 2 * i > m
      <3>1. ~(2 * i <= m) /\ ~(2 * (i + 1) <= m)
        BY <1>1, <2>1
      <3>2. QED
        BY <3>1
    <2>2. CASE 2 * i <= m
      <3> DEFINE v == P(2 * i)
                 o == Find(line, "'", v)
      <3>1. 2 * i \in 0 .. m /\ 2 * (i + 1) = (2 * i + 1) + 1
        BY <1>1, <2>2
      <3>2. at(i) = v /\ v # npos
        BY <1>3, <2>2, <3>1 DEF npos
      <3>3. o = IF 2 * i < m THEN P(2 * i + 1) - 1 ELSE npos
        BY <1>3, <3>1
      <3> HIDE DEF v, o
      <3>4. CASE ~(2 * i < m)
        <4>1. ~(2 * (i + 1) <= m) /\ o = npos
          BY <1>1, <3>3, <3>4
        <4>2. QED
          BY <3>2, <4>1 DEF v, o
      <3>5. CASE 2 * i < m
        <4>1. 2 * i + 1 \in 0 .. m
          BY <1>1, <3>5
        <4>2. /\ P(2 * i + 1) \in Nat /\ P(2 * i + 1) > 0
          BY <1>3, <3>1, <3>5
        <4>3. o # npos /\ o + 1 = P(2 * i + 1)
          BY <3>3, <3>5, <4>2 DEF npos
        <4>4. /\ Find(line, "'", o + 1) =
                   IF 2 * i + 1 < m THEN P((2 * i + 1) + 1) - 1 ELSE npos
              /\ P((2 * i + 1) + 1) \in Nat /\ P((2 * i + 1) + 1) > 0
          BY <1>3, <4>1, <4>2, <4>3
        <4>5. E(v) = IF 2 * i + 1 < m THEN P((2 * i + 1) + 1) ELSE npos
          BY <3>2, <4>3, <4>4 DEF npos, o
        <4>6. 2 * (i + 1) <= m <=> 2 * i + 1 < m
          BY <1>1
        <4>7. QED
          BY <3>1, <3>2, <4>5, <4>6
      <3>6. QED
        BY <3>4, <3>5
    <2>3. QED
      BY <1>1, <2>1, <2>2
  <1> HIDE DEF at, E
  <1>5. g = F(g)
    <2>1. ASSUME NEW i \in 0 .. MaxCount
          PROVE  g[i] = IF i = 0 THEN 0 ELSE E(g[i - 1])
      <3>1. CASE i = 0
        BY <1>2, <3>1
      <3>2. CASE i # 0
        <4>1. i - 1 \in 0 .. MaxCount /\ i - 1 \in Nat /\ (i - 1) + 1 = i
          BY <3>2
        <4>2. at(i) = E(at(i - 1))
          BY <1>4, <4>1
        <4>3. QED
          BY <3>2, <4>1, <4>2
      <3>3. QED
        BY <3>1, <3>2
    <2>2. QED
      BY <2>1
  <1>6. close = F(close)
    <2> HIDE DEF F, g
    <2>1. QED
      BY <1>5
  <1> HIDE DEF close
  <1>7. 0 \in T
    BY <1>2, <1>6
  <1>8. ASSUME NEW i \in 0 .. MaxCount - 1, i \in T PROVE i + 1 \in T
    <2>1. i + 1 \in 0 .. MaxCount /\ i + 1 # 0 /\ (i + 1) - 1 = i /\ i \in Nat
      OBVIOUS
    <2>2. close[i + 1] = E(close[i])
      BY <1>6, <2>1
    <2>3. QED
      BY <1>4, <1>8, <2>1, <2>2
  <1>9. close[pos] = at(pos) /\ close[pos - 1] = at(pos - 1)
    <2> HIDE DEF T
    <2>1. 0 .. MaxCount \subseteq T
      BY <1>7, <1>8, Induct
    <2>2. pos \in T /\ pos - 1 \in T
      BY <2>1
    <2>3. QED
      BY <2>2 DEF T
  <1> DEFINE o == Find(line, "'", close[pos - 1])
  <1>10. ParseString(line, pos) = IF pos <= 0 \/ close[pos] = npos THEN <<>>
                                  ELSE Substr(line, o + 1, close[pos] - o - 2)
    BY DEF ParseString, close, F, E
  <1>11. CASE m < 2 * pos
    <2>1. close[pos] = npos
      BY <1>1, <1>9, <1>11 DEF at
    <2>2. QED
      BY <1>10, <1>11, <2>1 DEF m
  <1>12. CASE ~(m < 2 * pos)
    <2> DEFINE k == 2 * pos - 1
               i == P(k)
               j == P(k + 1)
    <2>1. /\ k \in 0 .. m /\ k < m /\ k - 1 \in 0 .. m /\ (k - 1) + 1 = k /\ k - 1 < m
          /\ 2 * pos = k + 1 /\ 2 * (pos - 1) = k - 1 /\ 2 * pos <= m /\ 2 * (pos - 1) <= m
      BY <1>1, <1>12
    <2>2. close[pos] = j /\ close[pos - 1] = P(k - 1)
      BY <1>9, <2>1 DEF at
    <2>3. o = i - 1
      BY <1>3, <2>1, <2>2
    <2>4. i \in Nat /\ j \in Nat /\ i < j /\ j <= Len(line) + 1
      BY <1>3, <2>1
    <2>5. ParseString(line, pos) = Substr(line, o + 1, close[pos] - o - 2)
      BY <1>10, <2>2, <2>4 DEF npos
    <2>6. Piece(line, "'", k) = SubSeq(line, i + 1, j - 1)
      BY PieceIs DEF P
    <2> HIDE DEF i, j, o
    <2>7. o + 1 = i /\ close[pos] - o - 2 = j - 1 - i
      BY <2>2, <2>3, <2>4
    <2>8. Substr(line, i, j - 1 - i) = SubSeq(line, i + 1, j - 1)
      <3>1. ~(j - 1 - i < 0 \/ i + (j - 1 - i) > Len(line)) /\ i + (j - 1 - i) = j - 1
        BY <2>4, LenProperties
      <3>2. QED
        BY <3>1 DEF Substr
    <2>9. QED
      BY <1>12, <2>5, <2>6, <2>7, <2>8 DEF m
  <1>13. QED
    BY <1>11, <1>12

\* Going back from one mark, of the string without its last character, to
\* the mark in front.
LEMMA RFindIs ==
    ASSUME NEW s \in Seq(Byte), NEW c, NEW to \in 0 .. Len(s) - 1, NEW r \in 0 .. to,
           s[r + 1] = c, \A x \in 1 .. Len(s) : r + 1 < x /\ x <= to + 1 => s[x] # c
    PROVE  RFind(s, c, to) = r
  <1> DEFINE I == {i \in 0 .. Len(s) - 1 : Chr(s, i) = c /\ (i <= to \/ to < 0)}
  <1>1. Len(s) \in Nat
    BY LenProperties
  <1>2. r \in I
    BY <1>1 DEF Chr
  <1>3. Max(I) \in I /\ \A i \in I : Max(I) >= i
    <2>1. I \in SUBSET (0 .. Len(s)) /\ I # {}
      BY <1>1, <1>2
    <2> HIDE DEF I
    <2>2. QED
      BY <1>1, <2>1, MaxIs
  <1>4. Max(I) \in 0 .. Len(s) - 1 /\ s[Max(I) + 1] = c /\ Max(I) <= to /\ Max(I) >= r
    BY <1>1, <1>2, <1>3 DEF Chr
  <1>5. RFind(s, c, to) = Max(I)
    BY <1>2 DEF RFind
  <1> HIDE DEF I
  <1>6. Max(I) + 1 \in 1 .. Len(s) /\ Max(I) + 1 <= to + 1
    BY <1>1, <1>4
  <1>7. ~(r + 1 < Max(I) + 1)
    BY <1>4, <1>6
  <1>8. QED
    BY <1>4, <1>5, <1>7

LEMMA FrontProperties ==
    ASSUME NEW s \in Seq(Byte), s # <<>>
    PROVE  /\ Substr(s, 0, Len(s) - 1) \in Seq(Byte)
           /\ Len(Substr(s, 0, Len(s) - 1)) = Len(s) - 1
           /\ \A i \in 1 .. Len(s) - 1 : Substr(s, 0, Len(s) - 1)[i] = s[i]
  <1> DEFINE n == Len(s) - 1
  <1>1. n \in Nat /\ 0 + n <= Len(s) /\ \A i \in 1 .. n : 0 + i = i
    BY EmptySeq, LenProperties
  <1> HIDE DEF n
  <1>2. /\ Substr(s, 0, n) \in Seq(Byte) /\ Len(Substr(s, 0, n)) = n
        /\ \A i \in 1 .. n : Substr(s, 0, n)[i] = s[0 + i]
    BY <1>1, SubstrProperties
  <1>3. QED
    BY <1>1, <1>2 DEF n

LEMMA ParsePathrIs ==
    ASSUME NEW q \in Seq(Byte), q # <<>>, NEW count \in Nat,
           count < Pieces(Substr(q, 0, Len(q) - 1), "/")
    PROVE  ParsePathr(q, count) =
             Piece(Substr(q, 0, Len(q) - 1), "/",
                   Pieces(Substr(q, 0, Len(q) - 1), "/") - count)
  <1> DEFINE p == Substr(q, 0, Len(q) - 1)
             m == Pieces(p, "/")
             P(k) == Place(p, "/", k)
             at(i) == P(m + 1 - i)
             F(f) == [i \in 0 .. count + 1 |->
                        IF i = 0 THEN Len(q) ELSE RFind(q, "/", f[i - 1] - 2) + 1]
             g == [i \in 0 .. count + 1 |-> at(i)]
             beg == CHOOSE f : f = F(f)
             T == {i \in 0 .. count + 1 : beg[i] = at(i)}
             n == Len(q)
  <1>1. /\ n \in Nat /\ p \in Seq(Byte) /\ Len(p) = n - 1
        /\ \A i \in 1 .. n - 1 : p[i] = q[i]
    BY FrontProperties, LenProperties
  <1>2. m \in Nat /\ count < m
    BY <1>1, MarksFinite
  <1>3. P(m + 1) = n
    BY <1>1, PlaceFirst
  <1>4. ASSUME NEW k \in 0 .. m
        PROVE  /\ P(k) \in Nat /\ P(k + 1) \in 1 .. n /\ P(k) < P(k + 1)
               /\ \A x \in 1 .. n - 1 : P(k) < x /\ x < P(k + 1) => q[x] # "/"
               /\ k < m => P(k + 1) <= n - 1 /\ q[P(k + 1)] = "/"
    <2> DEFINE i == P(k)
               j == P(k + 1)
    <2>1. Follow(p, "/", k)
      BY <1>1, PlacesFollow
    <2>2. /\ i \in Nat /\ j \in 1 .. (n - 1) + 1 /\ i < j
          /\ \A x \in 1 .. n - 1 : i < x /\ x < j => p[x] # "/"
          /\ k < m => j <= n - 1 /\ p[j] = "/"
      BY <1>1, <2>1 DEF Follow
    <2> HIDE DEF p, m, n, P, i, j
    <2>3. /\ \A x \in 1 .. n - 1 : i < x /\ x < j => q[x] # "/"
          /\ k < m => q[j] = "/" /\ j \in 1 .. n - 1
      BY <1>1, <2>2
    <2>4. j \in 1 .. n
      BY <1>1, <2>2
    <2>5. QED
      BY <2>2, <2>3, <2>4 DEF i, j
  <1> HIDE DEF p, m, n, P
  <1>5. ASSUME NEW i \in 0 .. count PROVE at(i + 1) = RFind(q, "/", at(i) - 2) + 1
    <2> DEFINE k == m - i
               a == P(k)
               b == P(k + 1)
               h == P(k - 1)
    <2>1. /\ k \in 1 .. m /\ k - 1 \in 0 .. m /\ (k - 1) + 1 = k /\ k - 1 < m /\ k \in 0 .. m
          /\ m + 1 - i = k + 1 /\ m + 1 - (i + 1) = k
      BY <1>2
    <2>2. /\ a \in Nat /\ b \in 1 .. n /\ a < b
          /\ \A x \in 1 .. n - 1 : a < x /\ x < b => q[x] # "/"
      BY <1>4, <2>1
    <2>3. a \in 1 .. n - 1 /\ q[a] = "/"
      <3>1. P((k - 1) + 1) \in 1 .. n /\ P((k - 1) + 1) <= n - 1 /\ q[P((k - 1) + 1)] = "/"
        BY <1>4, <2>1
      <3>2. QED
        BY <1>1, <2>1, <3>1
    <2>4. at(i + 1) = a /\ at(i) = b
      BY <2>1
    <2> HIDE DEF k, a, b, at
    <2>5. /\ b - 2 \in 0 .. n - 1 /\ a - 1 \in 0 .. b - 2 /\ (a - 1) + 1 = a
          /\ \A x \in 1 .. n : a < x /\ x <= (b - 2) + 1 => x \in 1 .. n - 1 /\ x < b
      BY <1>1, <2>2, <2>3
    <2>6. RFind(q, "/", b - 2) = a - 1
      <3>1. b - 2 \in 0 .. Len(q) - 1 /\ q[(a - 1) + 1] = "/"
        BY <2>3, <2>5 DEF n
      <3>2. \A x \in 1 .. Len(q) : (a - 1) + 1 < x /\ x <= (b - 2) + 1 => q[x] # "/"
        BY <2>2, <2>5 DEF n
      <3>3. QED
        BY <2>5, <3>1, <3>2, RFindIs
    <2>7. QED
      BY <2>4, <2>5, <2>6
  <1>6. at(0) = n
    BY <1>2, <1>3
  <1> HIDE DEF at
  <1>7. g = F(g)
    <2>1. ASSUME NEW i \in 0 .. count + 1
          PROVE  g[i] = IF i = 0 THEN Len(q) ELSE RFind(q, "/", g[i - 1] - 2) + 1
      <3>1. CASE i = 0
        BY <1>6, <3>1 DEF n
      <3>2. CASE i # 0
        <4>1. i - 1 \in 0 .. count + 1 /\ i - 1 \in 0 .. count /\ (i - 1) + 1 = i
          BY <3>2
        <4>2. at(i) = RFind(q, "/", at(i - 1) - 2) + 1
          BY <1>5, <4>1
        <4>3. QED
          BY <3>2, <4>1, <4>2
      <3>3. QED
        BY <3>1, <3>2
    <2>2. QED
      BY <2>1
  <1>8. beg = F(beg)
    <2> HIDE DEF F, g
    <2>1. QED
      BY <1>7
  <1> HIDE DEF beg
  <1>9. 0 \in T
    BY <1>6, <1>8 DEF n
  <1>10. ASSUME NEW i \in 0 .. (count + 1) - 1, i \in T PROVE i + 1 \in T
    <2>1. i + 1 \in 0 .. count + 1 /\ i + 1 # 0 /\ (i + 1) - 1 = i /\ i \in 0 .. count
      OBVIOUS
    <2>2. beg[i + 1] = RFind(q, "/", beg[i] - 2) + 1
      BY <1>8, <2>1
    <2>3. QED
      BY <1>5, <1>10, <2>1, <2>2
  <1>11. beg[count + 1] = at(count + 1) /\ beg[count] = at(count)
    <2>1. count + 1 \in Nat
      OBVIOUS
    <2> HIDE DEF T
    <2>2. 0 .. count + 1 \subseteq T
      BY <1>9, <1>10, <2>1, Induct
    <2>3. count + 1 \in T /\ count \in T
      BY <2>2
    <2>4. QED
      BY <2>3 DEF T
  <1>12. ParsePathr(q, count) = Substr(q, beg[count + 1], beg[count] - 1 - beg[count + 1])
    BY DEF ParsePathr, beg, F
  <1> DEFINE k == m - count
             i == P(k)
             j == P(k + 1)
  <1>13. k \in 0 .. m /\ m + 1 - (count + 1) = k /\ m + 1 - count = k + 1
    BY <1>2
  <1>14. beg[count + 1] = i /\ beg[count] = j
    BY <1>11, <1>13 DEF at
  <1>15. i \in Nat /\ j \in 1 .. n /\ i < j
    BY <1>4, <1>13
  <1>16. Piece(p, "/", k) = SubSeq(p, i + 1, j - 1)
    BY PieceIs DEF P
  <1> HIDE DEF k, i, j
  <1>17. Substr(q, i, j - 1 - i) = SubSeq(p, i + 1, j - 1)
    <2>1. /\ j - 1 - i \in Nat /\ i + (j - 1 - i) <= Len(q) /\ i + (j - 1 - i) <= Len(p)
      BY <1>1, <1>15 DEF n
    <2> DEFINE d == j - 1 - i
               u == Substr(q, i, d)
               v == Substr(p, i, d)
    <2>2. ~(d < 0 \/ i + d > Len(p)) /\ i + d = j - 1 /\ d \in Nat
      BY <1>1, <1>15, <2>1
    <2>3. v = SubSeq(p, i + 1, j - 1)
      <3> HIDE DEF d
      <3>1. QED
        BY <2>2 DEF Substr
    <2>4. u \in Seq(Byte) /\ Len(u) = d /\ \A x \in 1 .. d : u[x] = q[i + x]
      <3> HIDE DEF d
      <3>1. QED
        BY <1>15, <2>1, <2>2, SubstrProperties DEF d
    <2>5. v \in Seq(Byte) /\ Len(v) = d /\ \A x \in 1 .. d : v[x] = p[i + x]
      <3> HIDE DEF d
      <3>1. QED
        BY <1>1, <1>15, <2>1, <2>2, SubstrProperties DEF d
    <2>6. \A x \in 1 .. d : i + x \in 1 .. n - 1
      BY <1>1, <1>15
    <2> HIDE DEF d, u, v
    <2>7. \A x \in 1 .. d : u[x] = v[x]
      BY <1>1, <2>4, <2>5, <2>6
    <2>8. u = v
      BY <2>4, <2>5, <2>7, SeqEqual
    <2>9. QED
      BY <2>3, <2>8 DEF u, d
  <1>18. ParsePathr(q, count) = Piece(p, "/", k)
    BY <1>12, <1>14, <1>16, <1>17
  <1>19. QED
    BY <1>18 DEF p, m, k

-----------------------------------------------------------------------------
(* What a pattern matches.                                                 *)

Starless(s) == \A i \in 1 .. Len(s) : s[i] # "*"

LEMMA RestProperties ==
    ASSUME NEW s \in Seq(Byte), NEW o \in Nat
    PROVE  /\ Rest(s, o) \in Seq(Byte)
           /\ Len(Rest(s, o)) = IF o < Len(s) THEN Len(s) - o ELSE 0
           /\ \A i \in 1 .. Len(Rest(s, o)) : Rest(s, o)[i] = s[o + i] /\ o + i \in 1 .. Len(s)
           /\ Rest(s, o) = SubSeq(s, o + 1, Len(s))
  <1>1. Len(s) \in Nat /\ \A i \in o + 1 .. Len(s) : s[i] \in Byte
    BY LenProperties, ElementOfSeq
  <1>2. Rest(s, o) = SubSeq(s, o + 1, Len(s))
    BY DEF Rest, Substr, npos
  <1>3. CASE o < Len(s)
    <2>1. /\ Rest(s, o) \in Seq(Byte) /\ Len(Rest(s, o)) = Len(s) - o
          /\ \A i \in 1 .. Len(s) - o : Rest(s, o)[i] = s[o + i]
      <3> DEFINE k == o + 1
      <3>1. /\ Len(s) - k + 1 = Len(s) - o /\ \A i \in 1 .. Len(s) - o : k + i - 1 = o + i
            /\ k \in Nat /\ k <= Len(s) /\ \A i \in k .. Len(s) : s[i] \in Byte
        BY <1>1, <1>3
      <3> HIDE DEF k
      <3>2. /\ SubSeq(s, k, Len(s)) \in Seq(Byte) /\ Len(SubSeq(s, k, Len(s))) = Len(s) - k + 1
            /\ \A i \in 1 .. Len(s) - k + 1 : SubSeq(s, k, Len(s))[i] = s[k + i - 1]
        BY <1>1, <3>1, SubSeqProperties
      <3>3. QED
        BY <1>2, <3>1, <3>2 DEF k
    <2>2. QED
      BY <1>1, <1>2, <1>3, <2>1
  <1>4. CASE ~(o < Len(s))
    <2>1. Rest(s, o) = <<>>
      BY <1>1, <1>2, <1>4, SubSeqProperties, EmptySeq
    <2>2. QED
      BY <1>2, <1>4, <2>1
  <1>5. QED
    BY <1>3, <1>4

LEMMA RestAll ==
    ASSUME NEW s \in Seq(Byte)
    PROVE  Rest(s, 0) = s
  <1>1. /\ Rest(s, 0) \in Seq(Byte) /\ Len(s) \in Nat
        /\ Len(Rest(s, 0)) = IF 0 < Len(s) THEN Len(s) - 0 ELSE 0
        /\ \A i \in 1 .. Len(Rest(s, 0)) : Rest(s, 0)[i] = s[0 + i]
    BY RestProperties, LenProperties
  <1>2. Len(Rest(s, 0)) = Len(s) /\ \A i \in 1 .. Len(s) : 0 + i = i
    BY <1>1
  <1>3. QED
    BY <1>1, <1>2, SeqEqual

\* A search finds what there is.
LEMMA FindSome ==
    ASSUME NEW s \in Seq(Byte), NEW c, NEW from \in Nat,
           NEW y \in 1 .. Len(s), from < y, s[y] = c
    PROVE  /\ Find(s, c, from) \in from .. Len(s) - 1
           /\ s[Find(s, c, from) + 1] = c
  <1> DEFINE I == {i \in from .. Len(s) - 1 : Chr(s, i) = c}
  <1>1. Len(s) \in Nat
    BY LenProperties
  <1>2. y - 1 \in I
    BY <1>1 DEF Chr
  <1>3. Min(I) \in I
    <2>1. I \in SUBSET Nat /\ I # {}
      BY <1>1, <1>2
    <2> HIDE DEF I
    <2>2. QED
      BY <2>1, MinIs
  <1>4. Find(s, c, from) = Min(I)
    BY <1>2 DEF Find
  <1>5. Min(I) \in from .. Len(s) - 1 /\ s[Min(I) + 1] = c
    BY <1>1, <1>3 DEF Chr
  <1>6. QED
    BY <1>4, <1>5

\* One call of matches, on what is left behind the first o characters, and v
\* for what the next call returns; Jump is where that one starts.
Front(p, o) == IF Chr(Rest(p, o), 0) = "*" THEN 1 ELSE 0
End(p, o) == Find(Rest(p, o), "*", Front(p, o))
Jump(p, o) == o + End(p, o)
Match(p, s, o, v) ==
    IF Rest(p, o) = Rest(s, o) \/ Rest(p, o) = <<>> \/ Rest(s, o) = <<>>
    THEN Rest(p, o) = Rest(s, o)
    ELSE \/ Rest(p, o) = <<"*">>
         \/ /\ Front(p, o) = 1 /\ End(p, o) = npos
            /\ Contains(Rest(s, o), Substr(Rest(p, o), Front(p, o), End(p, o)))
         \/ /\ End(p, o) # npos
            /\ Substr(Rest(p, o), Front(p, o), End(p, o)) =
                 Substr(Rest(s, o), Front(p, o), End(p, o))
            /\ v

\* The star at o, and what is behind it.
LEMMA AtStar ==
    ASSUME NEW p \in Seq(Byte), NEW o \in 0 .. Len(p) - 1, p[o + 1] = "*",
           NEW s \in Seq(Byte), Starless(s)
    PROVE  /\ Front(p, o) = 1 /\ Rest(p, o) # <<>> /\ Rest(p, o) # Rest(s, o)
           /\ Rest(s, o) = <<>> <=> Len(s) <= o
           /\ Starless(Rest(s, o))
  <1> DEFINE a == Rest(p, o)
             b == Rest(s, o)
  <1>1. o \in Nat /\ Len(p) \in Nat /\ Len(s) \in Nat /\ o < Len(p)
    BY LenProperties
  <1>2. /\ a \in Seq(Byte) /\ Len(a) = Len(p) - o
        /\ \A i \in 1 .. Len(a) : a[i] = p[o + i]
    BY <1>1, RestProperties
  <1>3. /\ b \in Seq(Byte) /\ Len(b) = IF o < Len(s) THEN Len(s) - o ELSE 0
        /\ \A i \in 1 .. Len(b) : b[i] = s[o + i] /\ o + i \in 1 .. Len(s)
    BY <1>1, RestProperties
  <1> HIDE DEF a, b
  <1>4. 1 \in 1 .. Len(a) /\ a[1] = "*"
    BY <1>1, <1>2
  <1>5. Starless(b)
    BY <1>3 DEF Starless
  <1>6. a # <<>> /\ a # b
    BY <1>2, <1>4, <1>5 DEF Starless
  <1>7. Front(p, o) = 1
    BY <1>2, <1>4 DEF Front, Chr, a
  <1>8. b = <<>> <=> Len(s) <= o
    BY <1>1, <1>3, EmptySeq
  <1>9. QED
    BY <1>5, <1>6, <1>7, <1>8 DEF a, b

\* The last star stands for something with the text behind it.
Behind(p, s, o) == Len(s) > o /\ Contains(Rest(s, o), SubSeq(p, o + 2, Len(p)))

LEMMA LastStar ==
    ASSUME NEW p \in Seq(Byte), NEW o \in 0 .. Len(p) - 1, p[o + 1] = "*",
           \A x \in 1 .. Len(p) : o + 1 < x => p[x] # "*",
           NEW s \in Seq(Byte), Starless(s), NEW v
    PROVE  Match(p, s, o, v) <=> Behind(p, s, o)
  <1> DEFINE a == Rest(p, o)
             b == Rest(s, o)
             t == SubSeq(p, o + 2, Len(p))
  <1>1. o \in Nat /\ Len(p) \in Nat /\ Len(s) \in Nat /\ o < Len(p)
    BY LenProperties
  <1>2. /\ Front(p, o) = 1 /\ a # <<>> /\ a # b
        /\ b = <<>> <=> Len(s) <= o
    BY AtStar
  <1>3. /\ a \in Seq(Byte) /\ Len(a) = Len(p) - o
        /\ \A i \in 1 .. Len(a) : a[i] = p[o + i]
    BY <1>1, RestProperties
  <1>4. b \in Seq(Byte)
    BY <1>1, RestProperties
  <1>5. End(p, o) = npos
    <2> HIDE DEF a
    <2>1. \A x \in 1 .. Len(a) : 1 < x => a[x] # "*"
      <3>1. \A x \in 1 .. Len(a) : 1 < x => o + x \in 1 .. Len(p) /\ o + 1 < o + x
        BY <1>1, <1>3
      <3>2. QED
        BY <1>3, <3>1
    <2>2. Find(a, "*", 1) = npos
      BY <1>3, <2>1, FindNone
    <2>3. QED
      BY <1>2, <2>2 DEF End, a
  <1>6. Substr(a, 1, npos) = t /\ (a = <<"*">> => t = <<>>)
    <2>1. Substr(a, 1, npos) = Rest(a, 1)
      BY DEF Rest
    <2>2. t = Rest(p, o + 1)
      <3> DEFINE k == o + 1
      <3>1. k \in Nat /\ k + 1 = o + 2
        BY <1>1
      <3> HIDE DEF k
      <3>2. Rest(p, k) = SubSeq(p, k + 1, Len(p))
        BY <3>1, RestProperties
      <3>3. QED
        BY <3>1, <3>2 DEF k
    <2> DEFINE u == Rest(a, 1)
               w == Rest(p, o + 1)
    <2>3. /\ u \in Seq(Byte) /\ Len(u) = IF 1 < Len(a) THEN Len(a) - 1 ELSE 0
          /\ \A i \in 1 .. Len(u) : u[i] = a[1 + i] /\ 1 + i \in 1 .. Len(a)
      <3> HIDE DEF a
      <3>1. QED
        BY <1>3, RestProperties
    <2>4. /\ w \in Seq(Byte) /\ Len(w) = IF o + 1 < Len(p) THEN Len(p) - (o + 1) ELSE 0
          /\ \A i \in 1 .. Len(w) : w[i] = p[(o + 1) + i]
      <3> DEFINE k == o + 1
      <3>1. k \in Nat
        BY <1>1
      <3> HIDE DEF k
      <3>2. /\ Rest(p, k) \in Seq(Byte)
            /\ Len(Rest(p, k)) = IF k < Len(p) THEN Len(p) - k ELSE 0
            /\ \A i \in 1 .. Len(Rest(p, k)) : Rest(p, k)[i] = p[k + i]
        BY <3>1, RestProperties
      <3>3. QED
        BY <3>2 DEF k
    <2> HIDE DEF a, u, w
    <2>5. Len(u) = Len(w)
      BY <1>1, <1>3, <2>3, <2>4
    <2>6. \A i \in 1 .. Len(u) : u[i] = w[i]
      <3> SUFFICES ASSUME NEW i \in 1 .. Len(u) PROVE u[i] = w[i]
        OBVIOUS
      <3>1. u[i] = p[o + (1 + i)]
        BY <1>3, <2>3
      <3>2. o + (1 + i) = (o + 1) + i
        BY <1>1
      <3>3. QED
        BY <2>4, <2>5, <3>1, <3>2
    <2>7. u = w
      BY <2>3, <2>4, <2>5, <2>6, SeqEqual
    <2>8. ASSUME a = <<"*">> PROVE u = <<>>
      <3>1. Len(a) = 1
        BY <2>8
      <3>2. QED
        BY <2>3, <3>1, EmptySeq
    <2>9. QED
      BY <2>1, <2>2, <2>7, <2>8 DEF u, w
  <1>7. Contains(b, <<>>)
    <2> HIDE DEF b
    <2>1. Substr(b, 0, 0) = <<>> /\ 0 \in 0 .. Len(b) - 0 /\ Len(<<>>) = 0
      <3>1. Len(b) \in Nat
        BY <1>4, LenProperties
      <3>2. Substr(b, 0, 0) \in Seq(Byte) /\ Len(Substr(b, 0, 0)) = 0
        BY <1>4, <3>1, SubstrProperties
      <3>3. QED
        BY <3>1, <3>2, EmptySeq
    <2>2. QED
      BY <2>1 DEF Contains
  <1>8. Match(p, s, o, v) <=> IF b = <<>> THEN FALSE ELSE a = <<"*">> \/ Contains(b, t)
    <2> HIDE DEF t
    <2>1. QED
      BY <1>2, <1>5, <1>6 DEF Match, a, b
  <1> HIDE DEF a, b, t
  <1>9. Behind(p, s, o) <=> Len(s) > o /\ Contains(b, t)
    BY DEF Behind, b, t
  <1>10. QED
    BY <1>1, <1>2, <1>6, <1>7, <1>8, <1>9

LEMMA StarlessSubstr ==
    ASSUME NEW s \in Seq(Byte), Starless(s), NEW b \in Nat, NEW n \in Nat
    PROVE  Starless(Substr(s, b, n))
  <1> DEFINE m == IF n < 0 \/ b + n > Len(s) THEN Len(s) ELSE b + n
  <1>1. Len(s) \in Nat /\ m \in Nat /\ m <= Len(s)
    BY LenProperties
  <1>2. Substr(s, b, n) = SubSeq(s, b + 1, m)
    BY DEF Substr
  <1> HIDE DEF m
  <1>3. /\ Len(SubSeq(s, b + 1, m)) = IF b + 1 <= m THEN m - (b + 1) + 1 ELSE 0
        /\ \A i \in 1 .. m - (b + 1) + 1 : SubSeq(s, b + 1, m)[i] = s[(b + 1) + i - 1]
    <2>1. \A i \in b + 1 .. m : s[i] \in Byte
      BY <1>1, ElementOfSeq
    <2>2. QED
      BY <1>1, <2>1, SubSeqProperties
  <1>4. \A i \in 1 .. m - (b + 1) + 1 : (b + 1) + i - 1 \in 1 .. Len(s)
    BY <1>1
  <1>5. QED
    BY <1>1, <1>2, <1>3, <1>4 DEF Starless

\* One star more is looked for as it stands, and there is none.
LEMMA StarMore ==
    ASSUME NEW p \in Seq(Byte), NEW o \in 0 .. Len(p) - 1, p[o + 1] = "*",
           NEW y \in 1 .. Len(p), o + 1 < y, p[y] = "*",
           NEW s \in Seq(Byte), Starless(s), NEW v
    PROVE  ~Match(p, s, o, v)
  <1> DEFINE a == Rest(p, o)
             b == Rest(s, o)
             e == Find(a, "*", 1)
  <1>1. o \in Nat /\ Len(p) \in Nat /\ Len(s) \in Nat /\ o < Len(p)
    BY LenProperties
  <1>2. Front(p, o) = 1 /\ a # <<>> /\ a # b /\ Starless(b)
    BY AtStar
  <1>3. /\ a \in Seq(Byte) /\ Len(a) = Len(p) - o
        /\ \A i \in 1 .. Len(a) : a[i] = p[o + i]
    BY <1>1, RestProperties
  <1>4. b \in Seq(Byte)
    BY <1>1, RestProperties
  <1>5. End(p, o) = e
    BY <1>2 DEF End
  <1>6. e \in 1 .. Len(a) - 1 /\ a[e + 1] = "*"
    <2> HIDE DEF a
    <2>1. y - o \in 1 .. Len(a) /\ 1 < y - o /\ o + (y - o) = y
      BY <1>1, <1>3
    <2>2. a[y - o] = "*"
      BY <1>3, <2>1
    <2>3. QED
      BY <1>3, <2>1, <2>2, FindSome
  <1> HIDE DEF a, b, e
  <1>7. e \in Nat /\ 1 + e <= Len(a) /\ 1 + e = e + 1 /\ e \in 1 .. e /\ Len(a) > 1 /\ e # npos
    BY <1>3, <1>6, LenProperties DEF npos
  <1>8. a # <<"*">>
    <2> SUFFICES ASSUME a = <<"*">> PROVE FALSE
      OBVIOUS
    <2>1. Len(a) = 1
      OBVIOUS
    <2>2. Len(a) > 1
      BY <1>7
    <2>3. QED
      BY <2>1, <2>2
  <1>9. Substr(a, 1, e) # Substr(b, 1, e)
    <2>1. Len(Substr(a, 1, e)) = e /\ Substr(a, 1, e)[e] = a[1 + e]
      <3> DEFINE k == 1
      <3>1. k \in Nat /\ e \in Nat /\ k + e <= Len(a) /\ a \in Seq(Byte)
        BY <1>3, <1>7
      <3> HIDE DEF k
      <3>2. /\ Substr(a, k, e) \in Seq(Byte) /\ Len(Substr(a, k, e)) = e
            /\ \A i \in 1 .. e : Substr(a, k, e)[i] = a[k + i]
        BY <3>1, SubstrProperties
      <3>3. QED
        BY <1>7, <3>2 DEF k
    <2>2. ~Starless(Substr(a, 1, e))
      BY <1>6, <1>7, <2>1 DEF Starless
    <2>3. Starless(Substr(b, 1, e))
      BY <1>2, <1>4, <1>7, StarlessSubstr
    <2>4. QED
      BY <2>2, <2>3
  <1>10. QED
    BY <1>2, <1>5, <1>7, <1>8, <1>9 DEF Match, a, b

\* In front of the first star, at j, the pattern matches itself.
LEMMA BeforeStar ==
    ASSUME NEW p \in Seq(Byte), NEW j \in 1 .. Len(p) - 1, p[j + 1] = "*",
           \A x \in 1 .. j : p[x] # "*",
           NEW s \in Seq(Byte), Starless(s), NEW v \in BOOLEAN
    PROVE  /\ Jump(p, 0) = j
           /\ Match(p, s, 0, v) <=> s # <<>> /\ SubSeq(p, 1, j) = Substr(s, 0, j) /\ v
  <1>1. Rest(p, 0) = p /\ Rest(s, 0) = s
    BY RestAll
  <1>2. Len(p) \in Nat /\ 1 \in 1 .. j /\ j + 1 \in 1 .. Len(p) /\ j \in Nat /\ j # npos
    BY LenProperties DEF npos
  <1>3. Front(p, 0) = 0
    BY <1>1, <1>2 DEF Front, Chr
  <1>4. Find(p, "*", 0) = j
    <2>1. j \in 0 .. Len(p) - 1 /\ \A x \in 1 .. Len(p) : 0 < x /\ x < j + 1 => p[x] # "*"
      BY <1>2
    <2>2. QED
      BY <1>2, <2>1, FindIs
  <1>5. End(p, 0) = j
    BY <1>1, <1>3, <1>4 DEF End
  <1>6. Substr(p, 0, j) = SubSeq(p, 1, j)
    BY <1>2 DEF Substr
  <1>7. p # s /\ p # <<>> /\ p # <<"*">>
    BY <1>2 DEF Starless
  <1>8. Jump(p, 0) = j
    BY <1>2, <1>5 DEF Jump
  <1>9. Match(p, s, 0, v) <=> s # <<>> /\ SubSeq(p, 1, j) = Substr(s, 0, j) /\ v
    BY <1>1, <1>2, <1>3, <1>5, <1>6, <1>7 DEF Match
  <1>10. QED
    BY <1>8, <1>9

LEMMA NoStars ==
    ASSUME NEW p \in Seq(Byte), p # <<>>, Starless(p), NEW s \in Seq(Byte), NEW v
    PROVE  Match(p, s, 0, v) <=> s = p
  <1>1. Rest(p, 0) = p /\ Rest(s, 0) = s
    BY RestAll
  <1>2. Len(p) \in Nat /\ 1 \in 1 .. Len(p)
    BY EmptySeq, LenProperties
  <1>3. Front(p, 0) = 0
    BY <1>1, <1>2 DEF Front, Chr, Starless
  <1>4. Find(p, "*", 0) = npos
    BY FindNone DEF Starless
  <1>5. End(p, 0) = npos
    BY <1>1, <1>3, <1>4 DEF End
  <1>6. p # <<"*">>
    BY <1>2 DEF Starless
  <1>7. QED
    BY <1>1, <1>3, <1>5, <1>6 DEF Match

\* The next call starts at a star, whose value does not depend on another
\* call, so that there is a function that from can be.
LEMMA StarAlone ==
    ASSUME NEW p \in Seq(Byte), NEW o \in 0 .. Len(p) - 1, p[o + 1] = "*",
           NEW s \in Seq(Byte), Starless(s), NEW v, NEW w
    PROVE  Match(p, s, o, v) <=> Match(p, s, o, w)
  <1>1. CASE \E y \in 1 .. Len(p) : o + 1 < y /\ p[y] = "*"
    BY <1>1, StarMore
  <1>2. CASE ~\E y \in 1 .. Len(p) : o + 1 < y /\ p[y] = "*"
    BY <1>2, LastStar
  <1>3. QED
    BY <1>1, <1>2

LEMMA JumpIs ==
    ASSUME NEW p \in Seq(Byte), NEW o \in 0 .. Len(p), End(p, o) # npos
    PROVE  Jump(p, o) \in 0 .. Len(p) - 1 /\ p[Jump(p, o) + 1] = "*"
  <1> DEFINE a == Rest(p, o)
             b == Front(p, o)
             e == Find(a, "*", b)
  <1>1. /\ o \in Nat /\ Len(p) \in Nat /\ o <= Len(p)
        /\ a \in Seq(Byte) /\ Len(a) = IF o < Len(p) THEN Len(p) - o ELSE 0
        /\ \A i \in 1 .. Len(a) : a[i] = p[o + i]
    BY LenProperties, RestProperties
  <1>2. b \in Nat
    BY DEF Front
  <1>3. End(p, o) = e
    BY DEF End
  <1> HIDE DEF a, b
  <1>4. PICK y \in 1 .. Len(a) : b < y /\ a[y] = "*"
    BY <1>1, <1>2, <1>3, FindNone
  <1>5. e \in b .. Len(a) - 1 /\ a[e + 1] = "*"
    BY <1>1, <1>2, <1>4, FindSome
  <1> HIDE DEF e
  <1>6. /\ e \in Nat /\ e + 1 \in 1 .. Len(a) /\ Len(a) = Len(p) - o
        /\ o + e \in 0 .. Len(p) - 1 /\ o + (e + 1) = (o + e) + 1
    BY <1>1, <1>2, <1>5
  <1>7. p[(o + e) + 1] = "*"
    BY <1>1, <1>5, <1>6
  <1>8. QED
    BY <1>3, <1>6, <1>7 DEF Jump

\* So matches is what its first call says, with what the call at the first
\* star says.
LEMMA MatchesIs ==
    ASSUME NEW p \in Seq(Byte), NEW s \in Seq(Byte), Starless(s)
    PROVE  \E f : /\ Matches(p, s) = f[0]
                  /\ \A o \in 0 .. Len(p) : f[o] = Match(p, s, o, f[Jump(p, o)])
  <1> DEFINE F(f) == [o \in 0 .. Len(p) |-> Match(p, s, o, f[Jump(p, o)])]
             from == CHOOSE f : f = F(f)
             V(o) == Match(p, s, o, FALSE)
             g == [o \in 0 .. Len(p) |-> Match(p, s, o, V(Jump(p, o)))]
  <1>1. ASSUME NEW o \in 0 .. Len(p)
        PROVE  g[o] = Match(p, s, o, g[Jump(p, o)])
    <2>1. CASE End(p, o) = npos
      BY <2>1 DEF Match
    <2>2. CASE End(p, o) # npos
      <3> DEFINE j == Jump(p, o)
      <3>1. j \in 0 .. Len(p) - 1 /\ p[j + 1] = "*"
        BY <2>2, JumpIs
      <3>2. j \in 0 .. Len(p)
        BY <3>1, LenProperties
      <3> HIDE DEF j
      <3>3. Match(p, s, j, V(Jump(p, j))) <=> V(j)
        BY <3>1, StarAlone
      <3>4. g[j] = Match(p, s, j, V(Jump(p, j)))
        BY <3>2
      <3>5. QED
        BY <3>3, <3>4 DEF j, Match
    <2>3. QED
      BY <2>1, <2>2
  <1>2. g = F(g)
    <2> HIDE DEF V
    <2>1. QED
      BY <1>1
  <1>3. from = F(from)
    <2> HIDE DEF F, g
    <2>1. QED
      BY <1>2
  <1>4. Matches(p, s) = from[0]
    BY DEF Matches, Match, Jump, End, Front
  <1> HIDE DEF from
  <1>5. \A o \in 0 .. Len(p) : from[o] = Match(p, s, o, from[Jump(p, o)])
    BY <1>3
  <1>6. QED
    BY <1>4, <1>5

LEMMA WildcardIs ==
    ASSUME NEW p \in Seq(Byte), p # <<>>, NEW s \in Seq(Byte), Starless(s)
    PROVE  /\ Pieces(p, "*") = 0 => (Matches(p, s) <=> s = p)
           /\ Pieces(p, "*") = 1 =>
                (Matches(p, s) <=>
                   /\ Len(s) > Len(Piece(p, "*", 0))
                   /\ Substr(s, 0, Len(Piece(p, "*", 0))) = Piece(p, "*", 0)
                   /\ Contains(Rest(s, Len(Piece(p, "*", 0))), Piece(p, "*", 1)))
           /\ Pieces(p, "*") > 1 => ~Matches(p, s)
           /\ Matches(p, s) \in BOOLEAN
  <1> DEFINE m == Pieces(p, "*")
             a == Place(p, "*", 1)
             j == a - 1
             b == Place(p, "*", 2)
             pre == Piece(p, "*", 0)
  <1>1. m \in Nat /\ Len(p) \in Nat /\ Len(s) \in Nat
    BY MarksFinite, LenProperties
  <1>2. PICK f : /\ Matches(p, s) = f[0]
                 /\ \A o \in 0 .. Len(p) : f[o] = Match(p, s, o, f[Jump(p, o)])
    BY MatchesIs
  <1>3. Matches(p, s) \in BOOLEAN /\ (Matches(p, s) <=> Match(p, s, 0, f[Jump(p, 0)]))
    <2>1. 0 \in 0 .. Len(p)
      BY <1>1
    <2>2. f[0] = Match(p, s, 0, f[Jump(p, 0)])
      BY <1>2, <2>1
    <2>3. Match(p, s, 0, f[Jump(p, 0)]) \in BOOLEAN
      BY DEF Match
    <2>4. QED
      BY <1>2, <2>2, <2>3
  <1>4. /\ a \in 1 .. Len(p) + 1 /\ \A x \in 1 .. Len(p) : x < a => p[x] # "*"
        /\ m > 0 => a <= Len(p) /\ p[a] = "*"
        /\ m = 0 => a = Len(p) + 1
    <2>1. 0 \in 0 .. m /\ 0 + 1 = 1
      BY <1>1
    <2>2. Follow(p, "*", 0) /\ Place(p, "*", 0) = 0
      BY <2>1, PlacesFollow, PlaceFirst
    <2>3. QED
      BY <1>1, <2>1, <2>2 DEF Follow
  <1>5. ASSUME m > 0
        PROVE  /\ b \in 1 .. Len(p) + 1 /\ a < b
               /\ \A x \in 1 .. Len(p) : a < x /\ x < b => p[x] # "*"
               /\ m > 1 => b <= Len(p) /\ p[b] = "*"
               /\ m = 1 => b = Len(p) + 1
    <2>1. 1 \in 0 .. m /\ 1 + 1 = 2
      BY <1>1, <1>5
    <2>2. Follow(p, "*", 1)
      BY <2>1, PlacesFollow
    <2>3. QED
      BY <1>1, <2>1, <2>2 DEF Follow
  <1>6. pre = SubSeq(p, 1, j) /\ Piece(p, "*", 1) = SubSeq(p, a + 1, b - 1)
    <2>1. pre = SubSeq(p, Place(p, "*", 0) + 1, Place(p, "*", 0 + 1) - 1)
      BY PieceIs
    <2>2. Piece(p, "*", 1) = SubSeq(p, a + 1, Place(p, "*", 1 + 1) - 1)
      BY PieceIs
    <2>3. Place(p, "*", 0) = 0 /\ 0 + 1 = 1 /\ 1 + 1 = 2
      BY PlaceFirst
    <2>4. QED
      BY <2>1, <2>2, <2>3
  <1> HIDE DEF m, a, b, pre
  <1>7. CASE m = 0
    <2>1. Starless(p)
      BY <1>1, <1>4, <1>7 DEF Starless
    <2>2. QED
      BY <1>3, <1>7, <2>1, NoStars DEF m
  <1>8. CASE m > 0
    <2>1. /\ j \in 0 .. Len(p) - 1 /\ j \in Nat /\ j + 1 = a /\ j + 2 = a + 1 /\ p[j + 1] = "*"
      BY <1>1, <1>4, <1>8
    <2>2. Len(pre) = j
      <3> DEFINE k == j
      <3>1. k \in Nat /\ 0 + k <= Len(p) /\ 0 + 1 = 1 /\ 0 + k = k
        BY <1>1, <2>1
      <3> HIDE DEF k
      <3>2. Substr(p, 0, k) \in Seq(Byte) /\ Len(Substr(p, 0, k)) = k
        BY <3>1, SubstrProperties
      <3>3. Substr(p, 0, k) = SubSeq(p, 1, k)
        BY <1>1, <3>1 DEF Substr
      <3>4. QED
        BY <1>6, <3>2, <3>3 DEF k
    <2>3. f[j] = Match(p, s, j, f[Jump(p, j)])
      <3>1. j \in 0 .. Len(p)
        BY <1>1, <2>1
      <3> HIDE DEF j
      <3>2. QED
        BY <1>2, <3>1
    <2>4. Matches(p, s) <=>
            s # <<>> /\ pre = Substr(s, 0, j) /\ Match(p, s, j, f[Jump(p, j)])
      <3>1. CASE j = 0
        <4>1. s # <<>> /\ pre = Substr(s, 0, 0) <=> s # <<>>
          <5>1. pre = <<>>
            BY <1>6, <3>1, SubSeqEmpty
          <5>2. Substr(s, 0, 0) = <<>>
            <6>1. 0 + 0 <= Len(s)
              BY <1>1
            <6>2. Substr(s, 0, 0) \in Seq(Byte) /\ Len(Substr(s, 0, 0)) = 0
              BY <6>1, SubstrProperties
            <6>3. QED
              BY <6>2, EmptySeq
          <5>3. QED
            BY <5>1, <5>2
        <4>2. s = <<>> => ~Match(p, s, 0, f[Jump(p, 0)])
          <5>1. Rest(s, 0) = s /\ Rest(p, 0) = p
            BY RestAll
          <5>2. QED
            BY <5>1 DEF Match
        <4>3. QED
          BY <1>3, <3>1, <4>1, <4>2
      <3>2. CASE j # 0
        <4>1. j \in 1 .. Len(p) - 1 /\ \A x \in 1 .. j : x \in 1 .. Len(p) /\ x < a
          BY <1>1, <2>1, <3>2
        <4>2. \A x \in 1 .. j : p[x] # "*"
          BY <1>4, <4>1
        <4> HIDE DEF j
        <4> DEFINE v == f[j]
        <4>0. v \in BOOLEAN
          BY <2>3 DEF Match
        <4> HIDE DEF v
        <4>3. /\ Jump(p, 0) = j
              /\ Match(p, s, 0, v) <=> s # <<>> /\ SubSeq(p, 1, j) = Substr(s, 0, j) /\ v
          BY <2>1, <4>1, <4>2, <4>0, BeforeStar
        <4>4. QED
          BY <1>3, <1>6, <2>3, <4>3 DEF v
      <3>3. QED
        BY <3>1, <3>2
    <2>5. CASE m = 1
      <3>1. b = Len(p) + 1 /\ \A x \in 1 .. Len(p) : j + 1 < x => p[x] # "*"
        BY <1>1, <1>5, <2>1, <2>5
      <3>2. Match(p, s, j, f[Jump(p, j)]) <=> Behind(p, s, j)
        <4> HIDE DEF j
        <4>1. QED
          BY <2>1, <3>1, LastStar
      <3>3. SubSeq(p, j + 2, Len(p)) = Piece(p, "*", 1)
        BY <1>1, <1>6, <2>1, <3>1
      <3>4. Behind(p, s, j) <=> Len(s) > j /\ Contains(Rest(s, j), Piece(p, "*", 1))
        BY <3>3 DEF Behind
      <3>5. Len(s) > j => s # <<>>
        BY <2>1
      <3> HIDE DEF j
      <3>6. Matches(p, s) <=>
              /\ Len(s) > Len(pre) /\ Substr(s, 0, Len(pre)) = pre
              /\ Contains(Rest(s, Len(pre)), Piece(p, "*", 1))
        BY <2>2, <2>4, <3>2, <3>4, <3>5
      <3>7. QED
        BY <1>3, <2>5, <3>6 DEF m, pre
    <2>6. CASE m > 1
      <3>1. b \in 1 .. Len(p) /\ j + 1 < b /\ p[b] = "*"
        BY <1>1, <1>5, <2>1, <2>6
      <3>2. ~Match(p, s, j, f[Jump(p, j)])
        <4> HIDE DEF j
        <4>1. QED
          BY <2>1, <3>1, StarMore
      <3>3. QED
        BY <1>3, <2>4, <2>6, <3>2 DEF m
    <2>7. QED
      BY <1>1, <1>8, <2>5, <2>6
  <1>9. QED
    BY <1>1, <1>3, <1>7, <1>8

\* Without its last character, which is no c, a string has the same pieces
\* but for the last.
LEMMA FrontPieces ==
    ASSUME NEW q \in Seq(Byte), q # <<>>, NEW c, q[Len(q)] # c
    PROVE  /\ Pieces(Substr(q, 0, Len(q) - 1), c) = Pieces(q, c)
           /\ \A k \in Nat : k < Pieces(q, c) =>
                Piece(Substr(q, 0, Len(q) - 1), c, k) = Piece(q, c, k)
  <1> DEFINE p == Substr(q, 0, Len(q) - 1)
             n == Len(q) - 1
             m == Pieces(q, c)
  <1>1. /\ n \in Nat /\ Len(q) = n + 1 /\ p \in Seq(Byte) /\ Len(p) = n
        /\ \A i \in 1 .. n : p[i] = q[i]
    BY FrontProperties, LenProperties, EmptySeq
  <1> HIDE DEF p, n
  <1>2. Places(p, c) = Places(q, c)
    <2>1. \A i \in 1 .. n + 1 : q[i] = c => i \in 1 .. n
      BY <1>1
    <2>2. QED
      BY <1>1, <2>1 DEF Places
  <1>3. Pieces(p, c) = m /\ m \in Nat
    BY <1>2, MarksFinite DEF Pieces
  <1>4. ASSUME NEW k \in 0 .. m
        PROVE  Place(p, c, k) = Place(q, c, k) /\ Place(p, c, k) \in 0 .. n
    <2> DEFINE i == Place(p, c, k)
    <2>1. Mark(p, c, k, i)
      <3>1. k \in 0 .. Pieces(p, c) + 1
        BY <1>3
      <3>2. QED
        BY <1>1, <3>1, MarksExist
    <2> HIDE DEF i
    <2>2. i # n + 1
      <3>1. Mark(p, c, m + 1, n + 1)
        BY <1>1, <1>3, MarkLast
      <3>2. k # m + 1
        BY <1>3
      <3>3. QED
        BY <2>1, <3>1, <3>2 DEF Mark
    <2>3. i \in 0 .. n /\ i \in Places(q, c) \cup {0}
      BY <1>1, <1>2, <2>1, <2>2, MarksFinite DEF Mark, Marks
    <2>4. Before(p, c, i) = Before(q, c, i)
      <3>1. Marks(p, c) = Places(q, c) \cup {0, n + 1} /\ Marks(q, c) = Places(q, c) \cup {0, n + 2}
        BY <1>1, <1>2 DEF Marks
      <3>2. ~(n + 1 < i) /\ ~(n + 2 < i)
        BY <1>1, <2>3
      <3>3. QED
        BY <3>1, <3>2 DEF Before
    <2>5. Mark(q, c, k, i)
      BY <2>1, <2>3, <2>4 DEF Mark, Marks
    <2>6. Place(q, c, k) = i
      BY <2>5, MarkPlace
    <2>7. QED
      BY <2>3, <2>6 DEF i
  <1>5. ASSUME NEW k \in Nat, k < m PROVE Piece(p, c, k) = Piece(q, c, k)
    <2> DEFINE a == Place(q, c, k) + 1
               b == Place(q, c, k + 1) - 1
    <2>1. k \in 0 .. m /\ k + 1 \in 0 .. m
      BY <1>3, <1>5
    <2>2. Place(p, c, k) = Place(q, c, k) /\ Place(q, c, k) \in 0 .. n
      BY <1>4, <2>1
    <2>3. Place(p, c, k + 1) = Place(q, c, k + 1) /\ Place(q, c, k + 1) \in 0 .. n
      BY <1>4, <2>1
    <2>4. a \in 1 .. n + 1 /\ b \in -1 .. n - 1
      BY <1>1, <2>2, <2>3
    <2>5. Piece(p, c, k) = SubSeq(p, a, b) /\ Piece(q, c, k) = SubSeq(q, a, b)
      BY <2>2, <2>3, PieceIs
    <2> HIDE DEF a, b
    <2>6. \A i \in a .. b : i \in 1 .. n
      BY <1>1, <2>4
    <2>7. SubSeq(p, a, b) = SubSeq(q, a, b)
      BY <1>1, <2>4, <2>6
    <2>8. QED
      BY <2>5, <2>7
  <1>6. QED
    BY <1>3, <1>5 DEF p, n

LEMMA NodesFound ==
    ASSUME path \in Seq(Byte), Whole
    PROVE  NodeAt
  <1>1. path # <<>> /\ MaxCount \in Nat
    BY LetterAssumption DEF Whole
  <1>2. ASSUME NEW count \in 0 .. MaxCount, count < Pieces(path, "/")
        PROVE  ParsePath(path, count) = Piece(path, "/", count + 1)
    <2>1. count \in Nat /\ Pieces(path, "/") \in Nat
      BY <1>1, MarksFinite
    <2>2. (count + 1) % (Pieces(path, "/") + 1) = count + 1
      BY <1>2, <2>1
    <2>3. ParsePath(path, count) = Piece(path, "/", (count + 1) % (Pieces(path, "/") + 1))
      BY <2>1, ParsePathIs
    <2>4. QED
      BY <2>2, <2>3
  <1>3. ASSUME NEW count \in 0 .. MaxCount, count < Pieces(Trimmed, "/"),
               count > 0 \/ path[Len(path)] = "/"
        PROVE  ParsePathr(path, count) = Piece(Trimmed, "/", Pieces(Trimmed, "/") - count)
    <2> DEFINE p == Substr(path, 0, Len(path) - 1)
    <2>1. count \in Nat
      BY <1>1
    <2>2. ASSUME count < Pieces(p, "/")
          PROVE  ParsePathr(path, count) = Piece(p, "/", Pieces(p, "/") - count)
      BY <1>1, <2>1, <2>2, ParsePathrIs
    <2>3. CASE path[Len(path)] = "/"
      <3>1. Trimmed = p
        BY <2>3 DEF Trimmed
      <3> HIDE DEF p
      <3>2. QED
        BY <1>3, <2>2, <3>1
    <2>4. CASE path[Len(path)] # "/"
      <3> DEFINE m == Pieces(path, "/")
      <3>1. Trimmed = path
        BY <2>4 DEF Trimmed
      <3>2. /\ Pieces(p, "/") = m
            /\ \A k \in Nat : k < m => Piece(p, "/", k) = Piece(path, "/", k)
        BY <1>1, <2>4, FrontPieces
      <3>3. m \in Nat
        BY MarksFinite
      <3>4. count < m
        BY <1>3, <3>1
      <3> HIDE DEF p, m
      <3>5. m - count \in Nat /\ m - count < m
        BY <1>3, <2>1, <2>4, <3>3, <3>4
      <3>6. ParsePathr(path, count) = Piece(path, "/", m - count)
        BY <2>2, <3>2, <3>4, <3>5
      <3>7. QED
        BY <3>1, <3>6 DEF m
    <2>5. QED
      BY <2>3, <2>4
  <1>4. QED
    BY <1>2, <1>3 DEF NodeAt

LEMMA QuotesFound ==
    ASSUME path \in Seq(Byte)
    PROVE  Quoted
  <1> DEFINE m == Pieces(path, "'")
  <1>1. MaxCount \in Nat /\ m \in Nat
    BY LetterAssumption, MarksFinite
  <1>2. ASSUME NEW n \in 1 .. MaxCount
        PROVE  ParseString(path, n) = IF m < 2 * n THEN <<>> ELSE Piece(path, "'", 2 * n - 1)
    BY <1>1, ParseStringIs
  <1>3. ParseString(path, 0) = <<>>
    BY DEF ParseString
  <1> HIDE DEF m
  <1>4. ASSUME NEW n \in 0 .. MaxCount
        PROVE  /\ m < 2 * n => ParseString(path, n) = <<>>
               /\ \/ ParseString(path, n) = <<>>
                  \/ \E k \in 0 .. n : /\ 2 * k + 2 <= m
                                       /\ ParseString(path, n) = Piece(path, "'", 2 * k + 1)
    <2>1. CASE n = 0
      BY <1>3, <2>1
    <2>2. CASE n # 0
      <3>1. n \in 1 .. MaxCount
        BY <1>1, <2>2
      <3>2. n - 1 \in 0 .. n /\ 2 * (n - 1) + 2 = 2 * n /\ 2 * (n - 1) + 1 = 2 * n - 1
        BY <1>1, <2>2
      <3>3. CASE m < 2 * n
        BY <1>2, <3>1, <3>3
      <3>4. CASE ~(m < 2 * n)
        <4>1. 2 * (n - 1) + 2 <= m
          BY <1>1, <3>2, <3>4
        <4>2. ParseString(path, n) = Piece(path, "'", 2 * (n - 1) + 1)
          <5>1. ParseString(path, n) = Piece(path, "'", 2 * n - 1)
            BY <1>2, <3>1, <3>4
          <5>2. QED
            BY <3>2, <5>1, Zenon
        <4>3. QED
          BY <3>2, <3>4, <4>1, <4>2
      <3>5. QED
        BY <3>3, <3>4
    <2>3. QED
      BY <2>1, <2>2
  <1>5. QED
    BY <1>4 DEF Quoted, m

LEMMA Wildcards ==
    ASSUME path \in Seq(Byte), Whole
    PROVE  Wildcard
  <1> DEFINE pre == Piece(path, "*", 0)
             post == Piece(path, "*", 1)
             m == Pieces(path, "*")
  <1>1. path # <<>> /\ MaxLen \in Nat /\ m \in Nat
    BY LetterAssumption, MarksFinite DEF Whole
  <1>2. ASSUME NEW s \in Strings(Letter \cup {"/"}, MaxLen)
        PROVE  /\ m = 0 => (Matches(path, s) <=> s = path)
               /\ m > 0 /\ Matches(path, s) =>
                    Substr(s, 0, Len(pre)) = pre /\ Contains(Rest(s, Len(pre)), post)
    <2>1. s \in Seq(Byte) /\ Starless(s)
      <3>1. PICK k \in 0 .. MaxLen : s \in [1 .. k -> Letter \cup {"/"}]
        BY DEF Strings
      <3>2. s \in Seq(Letter \cup {"/"}) /\ Len(s) = k
        BY <1>1, <3>1
      <3>3. "*" \notin Letter \cup {"/"} /\ Letter \cup {"/"} \subseteq Byte
        BY LetterAssumption DEF Byte, Char
      <3>4. s \in Seq(Byte)
        BY <3>2, <3>3, SeqMonotonic
      <3>5. QED
        BY <3>1, <3>2, <3>3, <3>4 DEF Starless
    <2>2. /\ m = 0 => (Matches(path, s) <=> s = path)
          /\ m = 1 => (Matches(path, s) <=>
                         /\ Len(s) > Len(pre) /\ Substr(s, 0, Len(pre)) = pre
                         /\ Contains(Rest(s, Len(pre)), post))
          /\ m > 1 => ~Matches(path, s)
      BY <1>1, <2>1, WildcardIs
    <2> HIDE DEF m, pre, post
    <2>3. m = 0 \/ m = 1 \/ m > 1
      BY <1>1
    <2>4. QED
      BY <1>1, <2>2, <2>3
  <1>3. QED
    BY <1>2 DEF Wildcard

\* On a path of any length, parsePath and parsePathr return the node that
\* their comments promise, parseString a whole quoted string, and matches
\* accepts, of strings of any length, none that its pattern cannot stand for
\* in front of or behind the first star; but for what SomeCommentHolds shows.
THEOREM SpecReadsAsDescribed == Spec => []ReadsAsDescribed
  <1>1. Inv => ReadsAsDescribed
    BY NodesFound, QuotesFound, Wildcards DEF Inv, Terminated, ReadsAsDescribed
  <1>2. QED
    BY <1>1, InvInit, InvStep, PTL DEF Spec
=============================================================================
