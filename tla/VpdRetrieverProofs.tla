------------------------- MODULE VpdRetrieverProofs -------------------------
(***************************************************************************)
(* Theorems about VpdRetriever for any environments, readers, devices and  *)
(* rows.                                                                   *)
(***************************************************************************)
EXTENDS VpdRetriever, SequenceTheorems, FiniteSetTheorems, WellFoundedInduction, TLAPS

\* The children of a row are keys of the table.
LEMMA RowKids ==
    ASSUME NEW row \in Rows
    PROVE  row.kids \in Seq(Id)
  BY KidsAssumption DEF Rows

LEMMA NoRowIsNone == NoRow \notin Rows
  BY RowAssumption DEF Rows

\* What an updater's statement does.
LEMMA Statement ==
    ASSUME TypeOK, NEW e \in Env, Write(e)
    PROVE  /\ CanWrite(e)
           /\ table' \in Table
           /\ removed' \in [Env -> SUBSET Id]
           /\ UNCHANGED <<svars, todo, got, outcome>>
  <1>1. removed' \in [Env -> SUBSET Id]
    <2>1. PICK i \in Id, S \in SUBSET Id : removed' = [removed EXCEPT ![e] = S]
      <3>1. PICK i \in Id :
               \/ removed' = [removed EXCEPT ![e] = @ \ {i}]
               \/ removed' = [removed EXCEPT ![e] = IF e \in holders THEN @ \cup {i} ELSE @]
        BY DEF Write
      <3>2. removed[e] \in SUBSET Id
        BY DEF TypeOK
      <3>3. removed[e] \ {i} \in SUBSET Id /\ removed[e] \cup {i} \in SUBSET Id
        BY <3>2
      <3>4. QED
        BY <3>1, <3>2, <3>3
    <2>2. QED
      BY <2>1 DEF TypeOK
  <1>2. PICK i \in Id : Store(e, i) \/ RemoveRow(e, i)
    BY DEF Write
  <1>3. CASE Store(e, i)
    <2>1. PICK row \in RowsOf[i] : Insert(i, row)
      BY <1>3 DEF Store
    <2>2. row \in Rows
      BY DEF Rows
    <2>3. QED
      BY <1>1, <1>3, <2>1, <2>2 DEF Store, Insert, Write, TypeOK, TableTypeOK, Table
  <1>4. CASE RemoveRow(e, i)
    <2>1. table' \in Table
      BY <1>4 DEF RemoveRow, TypeOK, TableTypeOK, Table
    <2>2. QED
      BY <1>1, <1>4, <2>1 DEF RemoveRow, Write
  <1>5. QED
    BY <1>2, <1>3, <1>4

-----------------------------------------------------------------------------
\* Type correctness: a row that is fetched is a row, and every id to be
\* fetched is a key.
THEOREM Typing == Spec => []TypeOK
  <1>1. Init => TypeOK
    BY ReaderAssumption DEF Init, TypeOK, TableInit, ServiceInit, TableTypeOK, Table
  <1>2. TypeOK /\ [Next]_vars => TypeOK'
    <2> SUFFICES ASSUME TypeOK, [Next]_vars PROVE TypeOK'
      OBVIOUS
    <2> USE DEF TypeOK, TableTypeOK, Table, svars
    <2>1. ASSUME NEW e \in Env, Open(e) PROVE TypeOK'
      BY <2>1 DEF Open, Enter, EnterUnlocked, rvars
    <2>2. ASSUME NEW e \in Env, Close(e) PROVE TypeOK'
      <3>1. todo' \in [Reader -> Seq(Id)]
        BY <2>2 DEF Close
      <3>2. got' \in [Reader -> Seq(Entries)]
        BY <2>2 DEF Close
      <3>3. QED
        BY <2>2, <3>1, <3>2 DEF Close, Leave
    <2>3. ASSUME NEW e \in Env, Write(e) PROVE TypeOK'
      BY <2>3, Statement DEF Write
    <2>4. ASSUME NEW r \in Reader, StartTree(r) PROVE TypeOK'
      BY <2>4, ReaderAssumption DEF StartTree
    <2>5. ASSUME NEW r \in Reader, FetchNext(r) PROVE TypeOK'
      <3> DEFINE i == Head(todo[r])
      <3>1. i \in Id /\ Tail(todo[r]) \in Seq(Id)
        BY <2>5 DEF FetchNext
      <3>2. table[i] \in Rows
        BY <2>5, <3>1 DEF FetchNext
      <3>3. Children(r, i, table[i]) \in Seq(Id)
        BY <3>2, RowKids DEF Children
      <3>4. Entry(i, table[i]) \in Entries
        BY <3>1, <3>2 DEF Entry, Entries
      <3> HIDE DEF i
      <3>5. todo' = [todo EXCEPT ![r] = Children(r, i, table[i]) \o Tail(@)]
        BY <2>5 DEF FetchNext, i
      <3>6. todo' \in [Reader -> Seq(Id)]
        BY <3>1, <3>3, <3>5
      <3>7. got' = [got EXCEPT ![r] = Append(@, Entry(i, table[i]))]
        BY <2>5 DEF FetchNext, i
      <3>8. got' \in [Reader -> Seq(Entries)]
        BY <3>4, <3>7
      <3>9. QED
        BY <2>5, <3>6, <3>8 DEF FetchNext
    <2>6. ASSUME NEW r \in Reader, FetchFails(r) PROVE TypeOK'
      BY <2>6 DEF FetchFails
    <2>7. ASSUME NEW r \in Reader, Return(r) PROVE TypeOK'
      BY <2>7 DEF Return
    <2>8. CASE UNCHANGED vars
      BY <2>8 DEF vars, rvars
    <2>9. QED
      BY <2>1, <2>2, <2>3, <2>4, <2>5, <2>6, <2>7, <2>8 DEF Next
  <1>3. QED
    BY <1>1, <1>2, PTL DEF Spec

-----------------------------------------------------------------------------
\* The lock has one holder at most, who is no guest, and an environment that
\* is not open has fetched nothing.
LockInv ==
    /\ \A e, f \in holders : e = f
    /\ holders \cap guests = {}
    /\ \A r \in ReadOnly : ~Inside(r) => got[r] = <<>> /\ outcome[r] = "idle"

\* Only one comes in with the lock, and who leaves takes everything along.
LEMMA LockInvStep ==
    ASSUME TypeOK, LockInv, [Next]_vars
    PROVE  LockInv'
  <1> USE ReaderAssumption, ReadOnlyAssumption
  <1> USE DEF TypeOK, TableTypeOK, LockInv, Inside, Reader, svars
  <1>1. ASSUME NEW e \in Env, Open(e) PROVE LockInv'
    BY <1>1 DEF Open, Enter, EnterUnlocked, rvars
  <1>2. ASSUME NEW e \in Env, Close(e) PROVE LockInv'
    BY <1>2 DEF Close, Leave
  <1>3. ASSUME NEW e \in Env, Write(e) PROVE LockInv'
    BY <1>3, Statement
  <1>4. ASSUME NEW r \in Reader, StartTree(r) PROVE LockInv'
    <2>1. r \in ReadOnly => Inside(r)
      BY <1>4 DEF StartTree
    <2>2. /\ UNCHANGED svars
          /\ \A q \in Reader \ {r} : got'[q] = got[q] /\ outcome'[q] = outcome[q]
      BY <1>4 DEF StartTree
    <2>3. QED
      BY <2>1, <2>2
  <1>5. ASSUME NEW r \in Reader, FetchNext(r) \/ FetchFails(r) \/ Return(r) PROVE LockInv'
    BY <1>5 DEF FetchNext, FetchFails, Return
  <1>6. CASE UNCHANGED vars
    BY <1>6 DEF vars, rvars
  <1>7. QED
    BY <1>1, <1>2, <1>3, <1>4, <1>5, <1>6 DEF Next

\* What a protected reader has fetched is what the table holds.
SnapshotInv == LockInv /\ SnapshotRead

\* Every open reader reads a snapshot.  An updater that could disturb it is
\* the holder itself, which a reader is not, or a guest, which exposes it.
THEOREM Snapshot == Spec => []SnapshotRead
  <1>1. Init => SnapshotInv
    BY DEF Init, TableInit, ServiceInit, SnapshotInv, LockInv, SnapshotRead, Reader
  <1>2. TypeOK /\ SnapshotInv /\ [Next]_vars => SnapshotInv'
    <2> SUFFICES ASSUME TypeOK, SnapshotInv, [Next]_vars PROVE SnapshotInv'
      OBVIOUS
    <2> USE ReaderAssumption, ReadOnlyAssumption
    <2> USE DEF TypeOK, TableTypeOK, SnapshotInv, LockInv, SnapshotRead, Inside,
                Reader, svars
    <2>1. ASSUME NEW e \in Env, Open(e) PROVE SnapshotInv'
      BY <2>1 DEF Open, Enter, EnterUnlocked, rvars
    <2>2. ASSUME NEW e \in Env, Close(e) PROVE SnapshotInv'
      BY <2>2 DEF Close, Leave
    <2>3. ASSUME NEW e \in Env, Write(e) PROVE SnapshotInv'
      <3>1. LockInv'
        BY LockInvStep
      <3>2. ASSUME NEW r \in Reader, r \in holders, r \notin exposed'
            PROVE FALSE
        <4>1. e \in holders
          BY <2>3, <3>2, Statement DEF Write, CanWrite
        <4>2. e = r /\ e \notin ReadOnly
          BY <2>3, <3>2, <4>1, Statement DEF CanWrite
        <4>3. QED
          BY <3>2, <4>2
      <3>3. QED
        BY <2>3, <3>1, <3>2, Statement
    <2>4. ASSUME NEW r \in Reader, StartTree(r) PROVE SnapshotInv'
      BY <2>4 DEF StartTree
    <2>5. ASSUME NEW r \in Reader, FetchNext(r) PROVE SnapshotInv'
      BY <2>5 DEF FetchNext, Entry
    <2>6. ASSUME NEW r \in Reader, FetchFails(r) PROVE SnapshotInv'
      BY <2>6 DEF FetchFails
    <2>7. ASSUME NEW r \in Reader, Return(r) PROVE SnapshotInv'
      BY <2>7 DEF Return
    <2>8. CASE UNCHANGED vars
      BY <2>8 DEF vars, rvars
    <2>9. QED
      BY <2>1, <2>2, <2>3, <2>4, <2>5, <2>6, <2>7, <2>8 DEF Next
  <1>3. QED
    BY <1>1, <1>2, Typing, PTL DEF Spec, SnapshotInv

-----------------------------------------------------------------------------
\* Who has the lock finds what it has removed still removed, and who does
\* not have it has nothing to find.
GapInv ==
    /\ LockInv /\ OwnGap
    /\ \A e \in Env : e \notin holders => removed[e] = {}

\* No other updater comes into the gap between a remove and the store after
\* it: it would be the holder itself, or a guest, which exposes the holder.
THEOREM NoOneBetween == Spec => []OwnGap
  <1>1. Init => GapInv
    BY DEF Init, TableInit, ServiceInit, GapInv, LockInv, OwnGap, Reader
  <1>2. TypeOK /\ GapInv /\ [Next]_vars => GapInv'
    <2> SUFFICES ASSUME TypeOK, GapInv, [Next]_vars PROVE GapInv'
      OBVIOUS
    <2>0. LockInv'
      BY LockInvStep DEF GapInv
    <2> USE DEF TypeOK, TableTypeOK, GapInv, OwnGap, svars
    <2>1. ASSUME NEW e \in Env, Open(e) PROVE GapInv'
      BY <2>0, <2>1 DEF Open, Enter, EnterUnlocked, rvars, Inside
    <2>2. ASSUME NEW e \in Env, Close(e) PROVE GapInv'
      BY <2>0, <2>2 DEF Close, Leave
    <2>3. ASSUME NEW e \in Env, Write(e) PROVE GapInv'
      <3>1. holders' = holders /\ (e \in holders \/ e \in guests)
        BY <2>3, Statement DEF CanWrite, Inside
      <3>2. CASE e \in guests
        <4>1. exposed' = exposed \cup holders /\ e \notin holders
          BY <2>3, <3>2 DEF Write, LockInv
        <4>2. \A f \in Env : removed'[f] \subseteq removed[f]
          BY <2>3, <4>1 DEF Write
        <4>3. QED
          BY <2>0, <3>1, <4>1, <4>2
      <3>3. CASE e \in holders
        <4>1. holders = {e} /\ exposed' = exposed
          BY <2>3, <3>3 DEF Write, LockInv
        <4>2. \A f \in Env \ {e} : removed'[f] = removed[f]
          BY <2>3 DEF Write
        <4>3. PICK i \in Id :
                 \/ Store(e, i) /\ removed' = [removed EXCEPT ![e] = @ \ {i}]
                 \/ RemoveRow(e, i) /\ removed' = [removed EXCEPT ![e] = @ \cup {i}]
          BY <2>3, <3>3 DEF Write
        <4>4. CASE Store(e, i) /\ removed' = [removed EXCEPT ![e] = @ \ {i}]
          <5>1. \A j \in Id \ {i} : table'[j] = table[j]
            BY <4>4 DEF Store, Insert, Table
          <5>2. QED
            BY <2>0, <3>1, <4>1, <4>2, <4>4, <5>1
        <4>5. CASE RemoveRow(e, i) /\ removed' = [removed EXCEPT ![e] = @ \cup {i}]
          <5>1. table'[i] = NoRow /\ \A j \in Id \ {i} : table'[j] = table[j]
            BY <4>5 DEF RemoveRow, Table
          <5>2. QED
            BY <2>0, <3>1, <4>1, <4>2, <4>5, <5>1
        <4>6. QED
          BY <4>3, <4>4, <4>5
      <3>4. QED
        BY <3>1, <3>2, <3>3
    <2>4. ASSUME NEW r \in Reader, StartTree(r) \/ FetchNext(r) \/ FetchFails(r) \/ Return(r)
          PROVE  GapInv'
      BY <2>0, <2>4 DEF StartTree, FetchNext, FetchFails, Return
    <2>5. CASE UNCHANGED vars
      BY <2>0, <2>5 DEF vars, rvars
    <2>6. QED
      BY <2>1, <2>2, <2>3, <2>4, <2>5 DEF Next
  <1>3. QED
    BY <1>1, <1>2, Typing, PTL DEF Spec, GapInv
-----------------------------------------------------------------------------
(* What a sequence ranges over.                                            *)

LEMMA RangeHeadTail ==
    ASSUME NEW S, NEW s \in Seq(S), s # <<>>
    PROVE  Range(s) = {Head(s)} \cup Range(Tail(s))
  <1>1. Head(s) = s[1] /\ 1 \in DOMAIN s
    OBVIOUS
  <1>2. \A k \in DOMAIN Tail(s) : k + 1 \in DOMAIN s /\ Tail(s)[k] = s[k + 1]
    OBVIOUS
  <1>3. \A k \in DOMAIN s : k = 1 \/ (k - 1 \in DOMAIN Tail(s) /\ s[k] = Tail(s)[k - 1])
    OBVIOUS
  <1>4. QED
    BY <1>1, <1>2, <1>3 DEF Range

LEMMA RangeConcat ==
    ASSUME NEW S, NEW s \in Seq(S), NEW t \in Seq(S)
    PROVE  Range(s \o t) = Range(s) \cup Range(t)
  <1>1. \A k \in DOMAIN s : k \in DOMAIN (s \o t) /\ (s \o t)[k] = s[k]
    OBVIOUS
  <1>2. \A k \in DOMAIN t : k + Len(s) \in DOMAIN (s \o t) /\ (s \o t)[k + Len(s)] = t[k]
    OBVIOUS
  <1>3. \A k \in DOMAIN (s \o t) :
            \/ k \in DOMAIN s
            \/ k - Len(s) \in DOMAIN t /\ (s \o t)[k] = t[k - Len(s)]
    OBVIOUS
  <1>4. Range(s) \cup Range(t) \subseteq Range(s \o t)
    BY <1>1, <1>2 DEF Range
  <1>5. Range(s \o t) \subseteq Range(s) \cup Range(t)
    BY <1>1, <1>3 DEF Range
  <1>6. QED
    BY <1>4, <1>5

\* The entries of g and the ids of t are the root and what g lists.
GotIds(g) == {g[k].id : k \in DOMAIN g}
GotKids(g) == UNION {Range(g[k].row.kids) : k \in DOMAIN g}
Covers(g, t) == GotIds(g) \cup Range(t) = {SysId} \cup GotKids(g)

\* What has been fetched or is still to be is the root and what has been
\* listed; nothing is left to be fetched when the call returns.
TreeInv ==
    \A r \in ReadOnly :
        /\ outcome[r] \in {"reading", "done"} => Covers(got[r], todo[r])
        /\ outcome[r] = "done" => todo[r] = <<>>

\* The tree that a C++ reader is given lacks no child that it lists.
THEOREM NothingDangles == Spec => []NoDanglingChild
  <1> USE ReaderAssumption, ReadOnlyAssumption
  <1>1. Init => TreeInv
    BY DEF Init, TreeInv, Reader
  <1>2. TypeOK /\ TreeInv /\ [Next]_vars => TreeInv'
    <2> SUFFICES ASSUME TypeOK, TreeInv, [Next]_vars PROVE TreeInv'
      OBVIOUS
    <2> USE DEF TypeOK, Reader, TreeInv
    <2>1. ASSUME NEW e \in Env, Open(e) \/ Write(e) PROVE TreeInv'
      BY <2>1, Statement DEF Open, rvars
    <2>2. ASSUME NEW e \in Env, Close(e) PROVE TreeInv'
      BY <2>2 DEF Close
    <2>3. ASSUME NEW r \in Reader, StartTree(r) PROVE TreeInv'
      <3>1. /\ outcome' = [outcome EXCEPT ![r] = "reading"]
            /\ todo' = [todo EXCEPT ![r] = <<SysId>>]
            /\ got' = [got EXCEPT ![r] = <<>>]
        BY <2>3 DEF StartTree
      <3>2. Covers(<<>>, <<SysId>>)
        BY DEF Covers, GotIds, GotKids, Range
      <3>3. QED
        BY <3>1, <3>2
    <2>4. ASSUME NEW r \in Reader, FetchNext(r) PROVE TreeInv'
      <3> DEFINE i == Head(todo[r])
      <3> DEFINE kids == table[i].kids
      <3>1. \A s \in ReadOnly \ {r} : todo'[s] = todo[s] /\ got'[s] = got[s]
        BY <2>4 DEF FetchNext
      <3>2. outcome' = outcome /\ outcome[r] = "reading"
        BY <2>4 DEF FetchNext
      <3>3. CASE r \notin ReadOnly
        BY <3>1, <3>2, <3>3
      <3>4. CASE r \in ReadOnly
        <4>1. i \in Id /\ Tail(todo[r]) \in Seq(Id) /\ table[i] \in Rows
          BY <2>4 DEF FetchNext, TableTypeOK, Table
        <4>2. kids \in Seq(Id)
          BY <4>1, RowKids, Zenon
        <4>3. todo'[r] = kids \o Tail(todo[r])
          <5>1. todo' = [todo EXCEPT ![r] = Children(r, i, table[i]) \o Tail(@)]
            BY <2>4, Zenon DEF FetchNext
          <5>2. Children(r, i, table[i]) = kids
            BY <3>4 DEF Children
          <5> HIDE DEF kids, i
          <5>3. QED
            BY <5>1, <5>2
        <4>4. got'[r] = Append(got[r], Entry(i, table[i])) /\ got[r] \in Seq(Entries)
          BY <2>4 DEF FetchNext
        <4> HIDE DEF i
        <4> DEFINE n == Len(got[r]) + 1
        <4>5. /\ DOMAIN got'[r] = DOMAIN got[r] \cup {n}
              /\ \A k \in DOMAIN got[r] : got'[r][k] = got[r][k]
              /\ got'[r][n] = Entry(i, table[i])
          BY <4>1, <4>4 DEF Entry, Entries
        <4> HIDE DEF n
        <4>6. GotIds(got'[r]) = GotIds(got[r]) \cup {i}
          BY <4>5 DEF GotIds, Entry
        <4>7. GotKids(got'[r]) = GotKids(got[r]) \cup Range(kids)
          <5>1. \A x : x \in GotKids(got'[r]) <=>
                         \/ \E k \in DOMAIN got[r] : x \in Range(got[r][k].row.kids)
                         \/ x \in Range(kids)
            BY <4>5 DEF GotKids, Entry
          <5>2. \A x : x \in GotKids(got[r]) <=>
                         \E k \in DOMAIN got[r] : x \in Range(got[r][k].row.kids)
            BY DEF GotKids
          <5>3. QED
            BY <5>1, <5>2, Zenon
        <4>8. Range(todo[r]) = {i} \cup Range(Tail(todo[r]))
          BY <2>4, RangeHeadTail DEF FetchNext, i
        <4>9. Range(todo'[r]) = Range(kids) \cup Range(Tail(todo[r]))
          <5> HIDE DEF kids, i
          <5> DEFINE z == Tail(todo[r])
          <5>1. Range(kids \o z) = Range(kids) \cup Range(z)
            <6>1. z \in Seq(Id)
              BY <4>1
            <6> HIDE DEF z
            <6>2. QED
              BY <4>2, <6>1, RangeConcat
          <5>2. QED
            BY <4>3, <5>1
        <4>10. Covers(got[r], todo[r])
          BY <3>2, <3>4
        <4>11. Covers(got'[r], todo'[r])
          BY <4>6, <4>7, <4>8, <4>9, <4>10 DEF Covers
        <4>12. QED
          BY <3>1, <3>2, <4>11
      <3>5. QED
        BY <3>3, <3>4
    <2>5. ASSUME NEW r \in Reader, FetchFails(r) PROVE TreeInv'
      BY <2>5 DEF FetchFails
    <2>6. ASSUME NEW r \in Reader, Return(r) PROVE TreeInv'
      BY <2>6 DEF Return
    <2>7. CASE UNCHANGED vars
      BY <2>7 DEF vars, rvars
    <2>8. QED
      BY <2>1, <2>2, <2>3, <2>4, <2>5, <2>6, <2>7 DEF Next
  <1>3. TypeOK /\ TreeInv => NoDanglingChild
    <2> SUFFICES ASSUME TreeInv, NEW r \in ReadOnly, outcome[r] = "done"
                 PROVE  Ids(r) = {SysId} \cup Listed(r)
      BY DEF NoDanglingChild
    <2>1. Covers(got[r], <<>>)
      BY DEF TreeInv
    <2>2. Range(<<>>) = {}
      BY DEF Range
    <2>3. QED
      BY <2>1, <2>2 DEF Covers, GotIds, GotKids, Ids, Listed
  <1>4. QED
    BY <1>1, <1>2, <1>3, Typing, PTL DEF Spec
-----------------------------------------------------------------------------
(* Induction.  The theorems of the library have predicates as parameters;  *)
(* here a predicate is the set of the numbers that satisfy it.             *)

\* A set of numbers has a least one.
LEMMA Least ==
    ASSUME NEW T \in SUBSET Nat, T # {}
    PROVE  \E x \in T : \A y \in T : x <= y
  <1>1. PICK x \in T : \A y \in T : <<y, x>> \notin OpToRel(<, Nat)
    BY NatLessThanWellFounded, WFMin
  <1>2. \A y \in T : ~(y < x)
    BY <1>1, Zenon DEF OpToRel
  <1>3. QED
    BY <1>2

\* A set with 0 and every successor below n has every number up to n.
LEMMA Induct ==
    ASSUME NEW n \in Nat, NEW T, 0 \in T, \A k \in 0 .. n - 1 : k \in T => k + 1 \in T
    PROVE  0 .. n \subseteq T
  <1> DEFINE B == {k \in 0 .. n : k \notin T}
  <1> SUFFICES ASSUME B # {} PROVE FALSE
    OBVIOUS
  <1>1. B \in SUBSET Nat
    OBVIOUS
  <1>2. PICK k \in B : \A j \in B : k <= j
    BY <1>1, Least
  <1>3. k - 1 \in 0 .. n - 1 /\ k - 1 \notin B
    BY <1>2
  <1>4. QED
    BY <1>2, <1>3

-----------------------------------------------------------------------------
(* Functions that are defined from one number to the next.                 *)

\* f starts with x and follows from one number to the next by F.
Follows(f, x, F, S, n) ==
    /\ f \in [0 .. n -> S] /\ f[0] = x
    /\ \A k \in 1 .. n : f[k] = F[k, f[k - 1]]

LEMMA Iterates ==
    ASSUME NEW S, NEW x \in S, NEW n \in Nat, NEW F \in [(1 .. n) \X S -> S]
    PROVE  \E f : Follows(f, x, F, S, n)
  <1> DEFINE T == {k \in Nat : \E f : Follows(f, x, F, S, k)}
  <1>1. 0 \in T
    <2>1. Follows([k \in 0 .. 0 |-> x], x, F, S, 0)
      BY DEF Follows
    <2>2. QED
      BY <2>1
  <1>2. ASSUME NEW k \in 0 .. n - 1, k \in T PROVE k + 1 \in T
    <2>1. PICK f : Follows(f, x, F, S, k)
      BY <1>2
    <2>2. k \in 0 .. k /\ k + 1 \in 1 .. n /\ k + 1 \in 0 .. k + 1 /\ k + 1 \in Nat
          /\ (k + 1) - 1 = k /\ 0 \in 0 .. k
      OBVIOUS
    <2> DEFINE y == F[k + 1, f[k]]
    <2>3. f \in [0 .. k -> S] /\ f[0] = x /\ \A j \in 1 .. k : f[j] = F[j, f[j - 1]]
      BY <2>1 DEF Follows
    <2>4. y \in S
      <3>1. f[k] \in S
        BY <2>2, <2>3
      <3>2. QED
        BY <2>2, <3>1
    <2> DEFINE g == [j \in 0 .. k + 1 |-> IF j = k + 1 THEN y ELSE f[j]]
    <2>5. g[k + 1] = y /\ g \in [0 .. k + 1 -> S] /\ \A j \in 0 .. k : g[j] = f[j]
      <3> HIDE DEF y
      <3>1. \A j \in 0 .. k + 1 : j = k + 1 \/ j \in 0 .. k
        OBVIOUS
      <3>2. \A j \in 0 .. k + 1 : (IF j = k + 1 THEN y ELSE f[j]) \in S
        BY <2>3, <2>4, <3>1
      <3>3. g \in [0 .. k + 1 -> S]
        BY <3>2, Zenon
      <3>4. g[k + 1] = y
        BY <2>2
      <3>5. ASSUME NEW j \in 0 .. k PROVE g[j] = f[j]
        <4>1. j \in 0 .. k + 1 /\ j # k + 1
          OBVIOUS
        <4>2. QED
          BY <4>1
      <3>6. QED
        BY <3>3, <3>4, <3>5
    <2> HIDE DEF g
    <2>6. ASSUME NEW j \in 1 .. k + 1 PROVE g[j] = F[j, g[j - 1]]
      <3>1. CASE j = k + 1
        <4>1. g[j - 1] = f[k]
          BY <2>2, <2>5, <3>1
        <4>2. QED
          BY <2>5, <3>1, <4>1
      <3>2. CASE j # k + 1
        <4>1. j \in 1 .. k /\ j \in 0 .. k /\ j - 1 \in 0 .. k
          BY <3>2
        <4>2. QED
          BY <2>3, <2>5, <4>1, Zenon
      <3>3. QED
        BY <3>1, <3>2
    <2>7. Follows(g, x, F, S, k + 1)
      BY <2>2, <2>3, <2>5, <2>6, Zenon DEF Follows
    <2>8. QED
      BY <2>2, <2>7, Zenon
  <1> HIDE DEF T
  <1>3. 0 .. n \subseteq T
    BY <1>1, <1>2, Induct
  <1>4. QED
    BY <1>3 DEF T

\* Such functions are equal if their first values are.
LEMMA Unique ==
    ASSUME NEW n \in Nat, NEW f, NEW g, f[0] = g[0],
           \A k \in 1 .. n : f[k - 1] = g[k - 1] => f[k] = g[k]
    PROVE  f[n] = g[n]
  <1> DEFINE T == {k \in 0 .. n : f[k] = g[k]}
  <1>1. 0 \in T
    OBVIOUS
  <1>2. ASSUME NEW k \in 0 .. n - 1, k \in T PROVE k + 1 \in T
    <2>1. k + 1 \in 1 .. n /\ k + 1 \in 0 .. n /\ (k + 1) - 1 = k
      OBVIOUS
    <2>2. f[(k + 1) - 1] = g[(k + 1) - 1] => f[k + 1] = g[k + 1]
      BY <2>1, Zenon
    <2>3. QED
      BY <1>2, <2>1, <2>2
  <1> HIDE DEF T
  <1>3. 0 .. n \subseteq T
    BY <1>1, <1>2, Induct
  <1>4. QED
    BY <1>3 DEF T

-----------------------------------------------------------------------------
(* Sequences of sequences one behind the other.                            *)

\* f joins the members of ss from the front.
Joins(f, ss, E) ==
    /\ f \in [0 .. Len(ss) -> Seq(E)] /\ f[0] = <<>>
    /\ \A n \in 1 .. Len(ss) : f[n] = f[n - 1] \o ss[n]

LEMMA JoinsExist ==
    ASSUME NEW E, NEW ss \in Seq(Seq(E))
    PROVE  \E f : Joins(f, ss, E)
  <1> DEFINE n == Len(ss)
             D == (1 .. n) \X Seq(E)
             F == [p \in D |-> p[2] \o ss[p[1]]]
  <1>1. n \in Nat /\ \A k \in 1 .. n : ss[k] \in Seq(E)
    BY LenProperties, ElementOfSeq
  <1> HIDE DEF n
  <1>2. ASSUME NEW p \in D PROVE p[2] \o ss[p[1]] \in Seq(E)
    <2>1. p[2] \in Seq(E) /\ ss[p[1]] \in Seq(E)
      BY <1>1
    <2>2. QED
      BY <2>1
  <1>3. F \in [D -> Seq(E)]
    BY <1>2, Zenon
  <1>4. \A k \in 1 .. n, s \in Seq(E) : F[k, s] = s \o ss[k]
    OBVIOUS
  <1> HIDE DEF F
  <1>5. <<>> \in Seq(E)
    OBVIOUS
  <1>6. PICK f : Follows(f, <<>>, F, Seq(E), n)
    BY <1>1, <1>3, <1>5, Iterates
  <1>7. ASSUME NEW k \in 1 .. n PROVE f[k] = f[k - 1] \o ss[k]
    <2>1. k - 1 \in 0 .. n
      BY <1>1
    <2>2. f[k - 1] \in Seq(E) /\ f[k] = F[k, f[k - 1]]
      BY <1>6, <2>1 DEF Follows
    <2>3. QED
      BY <1>4, <2>2, Zenon
  <1>8. Joins(f, ss, E)
    BY <1>6, <1>7 DEF Follows, Joins, n
  <1>9. QED
    BY <1>8

\* FlattenSeq is the last of them.
LEMMA FlattenIs ==
    ASSUME NEW E, NEW ss \in Seq(Seq(E)), NEW f, Joins(f, ss, E)
    PROVE  FlattenSeq(ss) = f[Len(ss)]
  <1> DEFINE n == Len(ss)
  <1>1. n \in Nat /\ \A i \in 1 .. n : ss[i] \in Seq(E)
    BY LenProperties, ElementOfSeq
  <1>2. /\ f \in [0 .. n -> Seq(E)] /\ f[0] = <<>>
        /\ \A i \in 1 .. n : f[i] = f[i - 1] \o ss[i]
    BY DEF Joins
  <1>3. CASE n = 0
    <2>1. FlattenSeq(ss) = ss
      BY <1>3 DEF FlattenSeq
    <2>2. ss = <<>>
      BY <1>3, EmptySeq
    <2>3. QED
      BY <1>2, <1>3, <2>1, <2>2
  <1>4. CASE n # 0
    <2> DEFINE Step(g, i) == IF i = 1 THEN ss[i] ELSE g[i - 1] \o ss[i]
               G(g) == [i \in 1 .. n |-> Step(g, i)]
               s == CHOOSE g : g = G(g)
               r == [i \in 1 .. n |-> f[i]]
    <2>1. FlattenSeq(ss) = s[n]
      BY <1>4 DEF FlattenSeq
    <2> HIDE DEF n
    <2>2. ASSUME NEW i \in 1 .. n PROVE f[i] = Step(r, i)
      <3>1. CASE i = 1
        <4>1. f[1] = f[0] \o ss[1]
          <5>1. 1 \in 1 .. n /\ 1 - 1 = 0
            BY <3>1
          <5>2. f[1] = f[1 - 1] \o ss[1]
            BY <1>2, <5>1, Zenon
          <5>3. QED
            BY <5>1, <5>2
        <4>2. f[1] = ss[1]
          BY <1>1, <1>2, <3>1, <4>1
        <4>3. QED
          BY <3>1, <4>2
      <3>2. CASE i # 1
        <4>1. i - 1 \in 1 .. n
          BY <1>1, <3>2
        <4>2. f[i] = f[i - 1] \o ss[i] /\ r[i - 1] = f[i - 1]
          BY <1>2, <4>1, Zenon
        <4>3. QED
          BY <3>2, <4>2
      <3>3. QED
        BY <3>1, <3>2
    <2>3. r = G(r)
      <3> HIDE DEF Step
      <3>1. QED
        BY <2>2, Zenon
    <2> HIDE DEF G, r
    <2>4. s = G(s)
      BY <2>3, Zenon
    <2> HIDE DEF s
    <2>5. ASSUME NEW i \in 1 .. n PROVE s[i] = Step(s, i)
      <3> HIDE DEF Step
      <3>1. G(s)[i] = Step(s, i)
        BY Zenon DEF G
      <3>2. QED
        BY <2>4, <3>1, Zenon
    <2> DEFINE T == {i \in Nat : i = 0 \/ s[i] = f[i]}
    <2>6. 0 \in T
      OBVIOUS
    <2>7. ASSUME NEW i \in 0 .. n - 1, i \in T PROVE i + 1 \in T
      <3>1. i + 1 \in 1 .. n /\ (i + 1) - 1 = i /\ i + 1 \in Nat
        BY <1>1
      <3>2. f[i + 1] = f[i] \o ss[i + 1] /\ ss[i + 1] \in Seq(E)
        <4>1. f[i + 1] = f[(i + 1) - 1] \o ss[i + 1]
          BY <1>2, <3>1, Zenon
        <4>2. QED
          BY <1>1, <3>1, <4>1
      <3>3. CASE i = 0
        <4>1. s[i + 1] = ss[i + 1]
          BY <2>5, <3>1, <3>3
        <4>2. f[i + 1] = ss[i + 1]
          <5> DEFINE x == ss[i + 1]
          <5> HIDE DEF x
          <5>1. x \in Seq(E) /\ f[i + 1] = f[0] \o x
            BY <3>2, <3>3 DEF x
          <5>2. <<>> \o x = x
            BY <5>1, ConcatEmptySeq
          <5>3. f[i + 1] = x
            BY <1>2, <5>1, <5>2
          <5>4. QED
            BY <5>3 DEF x
        <4>3. QED
          BY <3>1, <4>1, <4>2
      <3>4. CASE i # 0
        <4>1. s[i + 1] = s[(i + 1) - 1] \o ss[i + 1]
          <5>1. i + 1 # 1
            BY <3>4
          <5>2. s[i + 1] = Step(s, i + 1)
            <6> HIDE DEF Step
            <6>1. QED
              BY <2>5, <3>1, Zenon
          <5>3. QED
            BY <5>1, <5>2, Zenon
        <4>2. s[i] = f[i]
          BY <2>7, <3>4
        <4>3. s[i + 1] = f[i + 1]
          BY <3>1, <3>2, <4>1, <4>2
        <4>4. QED
          BY <3>1, <4>3
      <3>5. QED
        BY <3>3, <3>4
    <2> HIDE DEF T
    <2>8. 0 .. n \subseteq T
      BY <1>1, <2>6, <2>7, Induct
    <2>9. n \in T
      BY <1>1, <2>8
    <2>10. QED
      BY <1>4, <2>1, <2>9 DEF T, n
  <1>5. QED
    BY <1>3, <1>4

LEMMA FlattenType ==
    ASSUME NEW E, NEW ss \in Seq(Seq(E))
    PROVE  FlattenSeq(ss) \in Seq(E)
  <1>1. PICK f : Joins(f, ss, E)
    BY JoinsExist
  <1>2. FlattenSeq(ss) = f[Len(ss)]
    BY <1>1, FlattenIs, Zenon
  <1>3. Len(ss) \in 0 .. Len(ss)
    BY LenProperties
  <1>4. QED
    BY <1>1, <1>2, <1>3 DEF Joins

LEMMA FlattenOne ==
    ASSUME NEW E, NEW s \in Seq(E)
    PROVE  FlattenSeq(<<s>>) = s
  <1> DEFINE f == [n \in 0 .. 1 |-> IF n = 0 THEN <<>> ELSE s]
  <1>1. <<s>> \in Seq(Seq(E)) /\ Len(<<s>>) = 1 /\ <<s>>[1] = s
    OBVIOUS
  <1>2. f \in [0 .. 1 -> Seq(E)] /\ f[0] = <<>> /\ f[1] = s
    OBVIOUS
  <1> HIDE DEF f
  <1>3. \A n \in 1 .. 1 : f[n] = f[n - 1] \o <<s>>[n]
    <2>1. f[1] = f[0] \o <<s>>[1]
      BY <1>1, <1>2
    <2>2. QED
      BY <2>1
  <1>4. Joins(f, <<s>>, E)
    BY <1>1, <1>2, <1>3 DEF Joins
  <1>5. FlattenSeq(<<s>>) = f[Len(<<s>>)]
    BY <1>1, <1>4, FlattenIs, Zenon
  <1>6. QED
    BY <1>1, <1>2, <1>5

\* In three steps: u, then v and w.
Grouped(u, v, w) == u \o (v \o w) = (u \o v) \o w

LEMMA Associative ==
    ASSUME NEW E, NEW u \in Seq(E), NEW v \in Seq(E), NEW w \in Seq(E)
    PROVE  Grouped(u, v, w)
  BY DEF Grouped

LEMMA FlattenConcat ==
    ASSUME NEW E, NEW a \in Seq(Seq(E)), NEW b \in Seq(Seq(E))
    PROVE  FlattenSeq(a \o b) = FlattenSeq(a) \o FlattenSeq(b)
  <1>1. PICK f : Joins(f, a, E)
    BY JoinsExist
  <1>2. PICK g : Joins(g, b, E)
    BY JoinsExist
  <1> DEFINE m == Len(a)
             n == Len(b)
             c == a \o b
             H(i) == IF i <= m THEN f[i] ELSE f[m] \o g[i - m]
             h == [i \in 0 .. m + n |-> H(i)]
  <1>3. /\ c \in Seq(Seq(E)) /\ Len(c) = m + n /\ m \in Nat /\ n \in Nat
        /\ \A i \in 1 .. m + n : c[i] = IF i <= m THEN a[i] ELSE b[i - m]
    BY ConcatProperties, LenProperties
  <1>4. /\ \A i \in 0 .. m : f[i] \in Seq(E)
        /\ \A i \in 0 .. n : g[i] \in Seq(E)
        /\ f[0] = <<>> /\ g[0] = <<>>
        /\ \A i \in 1 .. m : f[i] = f[i - 1] \o a[i]
        /\ \A i \in 1 .. n : g[i] = g[i - 1] \o b[i]
    BY <1>1, <1>2 DEF Joins
  <1>5. \A i \in 1 .. n : b[i] \in Seq(E)
    BY ElementOfSeq
  <1> HIDE DEF m, n, c
  <1>6. ASSUME NEW i \in 0 .. m PROVE H(i) = f[i] /\ H(i) \in Seq(E)
    BY <1>3, <1>4
  <1>7. ASSUME NEW j \in 0 .. n PROVE H(m + j) = f[m] \o g[j] /\ H(m + j) \in Seq(E)
    <2>1. m \in 0 .. m /\ (m + j) - m = j
      BY <1>3
    <2>2. f[m] \in Seq(E) /\ g[j] \in Seq(E)
      BY <1>4, <2>1
    <2>3. H(m + j) = f[m] \o g[j]
      <3>1. CASE j = 0
        <4>1. H(m + j) = f[m]
          BY <1>3, <3>1
        <4>2. f[m] \o <<>> = f[m]
          BY <2>2, ConcatEmptySeq
        <4>3. g[j] = <<>>
          BY <1>4, <3>1
        <4> HIDE DEF H
        <4>4. QED
          BY <4>1, <4>2, <4>3, Zenon
      <3>2. CASE j # 0
        <4>1. ~(m + j <= m)
          BY <1>3, <3>2
        <4>2. H(m + j) = f[m] \o g[(m + j) - m]
          BY <4>1, Zenon
        <4> HIDE DEF H
        <4>3. QED
          BY <2>1, <4>2
      <3>3. QED
        BY <3>1, <3>2
    <2>4. f[m] \o g[j] \in Seq(E)
      BY <2>2
    <2> HIDE DEF H
    <2>5. QED
      BY <2>3, <2>4, Zenon
  <1>8. ASSUME NEW i \in 1 .. m + n PROVE H(i) = H(i - 1) \o c[i]
    <2>1. CASE i <= m
      <3>1. i \in 1 .. m /\ i \in 0 .. m /\ i - 1 \in 0 .. m
        BY <1>3, <2>1
      <3>2. f[i] = f[i - 1] \o a[i] /\ c[i] = a[i]
        BY <1>3, <1>4, <2>1, <3>1
      <3>3. H(i) = f[i] /\ H(i - 1) = f[i - 1]
        BY <1>6, <3>1, Zenon
      <3>4. QED
        BY <3>2, <3>3, Zenon
    <2>2. CASE ~(i <= m)
      <3> DEFINE j == i - m
      <3>1. j \in 1 .. n /\ j \in 0 .. n /\ j - 1 \in 0 .. n /\ m + j = i /\ m + (j - 1) = i - 1
            /\ m \in 0 .. m
        BY <1>3, <2>2
      <3>2. c[i] = b[j]
        BY <1>3, <2>2
      <3> HIDE DEF j, H
      <3>3. H(i) = f[m] \o g[j] /\ H(i - 1) = f[m] \o g[j - 1]
        <4>1. H(m + j) = f[m] \o g[j] /\ H(m + (j - 1)) = f[m] \o g[j - 1]
          BY <1>7, <3>1, Zenon
        <4>2. QED
          BY <3>1, <4>1
      <3>4. g[j] = g[j - 1] \o b[j] /\ b[j] \in Seq(E) /\ g[j - 1] \in Seq(E) /\ f[m] \in Seq(E)
        BY <1>4, <1>5, <3>1
      <3>5. Grouped(f[m], g[j - 1], b[j])
        BY <3>4, Associative, Zenon
      <3>6. QED
        BY <3>2, <3>3, <3>4, <3>5, Zenon DEF Grouped
    <2>3. QED
      BY <2>1, <2>2
  <1>9. ASSUME NEW i \in 0 .. m + n PROVE H(i) \in Seq(E)
    <2>1. CASE i <= m
      <3>1. i \in 0 .. m
        BY <1>3, <2>1
      <3>2. QED
        BY <1>6, <3>1, Zenon
    <2>2. CASE ~(i <= m)
      <3>1. i - m \in 0 .. n /\ m + (i - m) = i
        BY <1>3, <2>2
      <3> HIDE DEF H
      <3>2. H(m + (i - m)) \in Seq(E)
        BY <1>7, <3>1, Zenon
      <3>3. QED
        BY <3>1, <3>2
    <2>3. QED
      BY <2>1, <2>2
  <1>10. Joins(h, c, E)
    <2>1. H(0) = <<>>
      BY <1>3, <1>4
    <2> HIDE DEF H
    <2>2. h \in [0 .. m + n -> Seq(E)]
      BY <1>9, Zenon
    <2>3. \A i \in 0 .. m + n : h[i] = H(i)
      BY Zenon
    <2> HIDE DEF h
    <2>4. h[0] = <<>>
      <3>1. 0 \in 0 .. m + n
        BY <1>3
      <3>2. QED
        BY <2>1, <2>3, <3>1
    <2>5. ASSUME NEW i \in 1 .. m + n PROVE h[i] = h[i - 1] \o c[i]
      <3>1. i \in 0 .. m + n /\ i - 1 \in 0 .. m + n
        BY <1>3
      <3>2. QED
        BY <1>8, <2>3, <3>1, Zenon
    <2>6. QED
      BY <1>3, <2>2, <2>4, <2>5, Zenon DEF Joins
  <1>11. FlattenSeq(a) = f[m] /\ FlattenSeq(b) = g[n] /\ FlattenSeq(c) = h[m + n]
    <2>1. FlattenSeq(a) = f[m]
      BY <1>1, FlattenIs, Zenon DEF m
    <2>2. FlattenSeq(b) = g[n]
      BY <1>2, FlattenIs, Zenon DEF n
    <2>3. FlattenSeq(c) = h[Len(c)]
      BY <1>3, <1>10, FlattenIs, Zenon
    <2>4. QED
      BY <1>3, <2>1, <2>2, <2>3
  <1>12. h[m + n] = f[m] \o g[n]
    <2>1. n \in 0 .. n /\ m + n \in 0 .. m + n
      BY <1>3
    <2>2. H(m + n) = f[m] \o g[n]
      BY <1>7, <2>1, Zenon
    <2> HIDE DEF H
    <2>3. QED
      BY <2>1, <2>2
  <1>13. QED
    BY <1>11, <1>12 DEF c

-----------------------------------------------------------------------------
(* The sequences that a function gives to the members of a sequence.       *)

Mapped(F, s) == [k \in DOMAIN s |-> F[s[k]]]
Cat(F, s) == FlattenSeq(Mapped(F, s))

\* m has what F gives to the members of s.
Maps(m, F, s, R) ==
    /\ m \in Seq(R) /\ Len(m) = Len(s)
    /\ \A k \in 1 .. Len(s) : m[k] = F[s[k]]

LEMMA MappedMaps ==
    ASSUME NEW S, NEW R, NEW F \in [S -> R], NEW s \in Seq(S)
    PROVE  Maps(Mapped(F, s), F, s, R)
  <1>1. /\ Len(s) \in Nat /\ DOMAIN s = 1 .. Len(s)
        /\ \A k \in 1 .. Len(s) : s[k] \in S
    BY LenProperties, ElementOfSeq
  <1>2. \A k \in 1 .. Len(s) : F[s[k]] \in R
    BY <1>1
  <1>3. Mapped(F, s) \in [1 .. Len(s) -> R]
    BY <1>1, <1>2 DEF Mapped
  <1>4. Mapped(F, s) \in Seq(R) /\ Len(Mapped(F, s)) = Len(s)
    BY <1>1, <1>3, SeqDef, LenProperties
  <1>5. \A k \in 1 .. Len(s) : Mapped(F, s)[k] = F[s[k]]
    BY <1>1 DEF Mapped
  <1>6. QED
    BY <1>4, <1>5, Zenon DEF Maps

\* m is s and then t.
Concatenates(m, s, t, R) ==
    /\ m \in Seq(R) /\ Len(m) = Len(s) + Len(t)
    /\ \A i \in 1 .. Len(s) + Len(t) :
            m[i] = IF i <= Len(s) THEN s[i] ELSE t[i - Len(s)]

LEMMA ConcatIs ==
    ASSUME NEW R, NEW s \in Seq(R), NEW t \in Seq(R)
    PROVE  Concatenates(s \o t, s, t, R)
  BY ConcatProperties DEF Concatenates

Distributes(F, a, b) == Mapped(F, a \o b) = Mapped(F, a) \o Mapped(F, b)

LEMMA MappedConcat ==
    ASSUME NEW S, NEW R, NEW F \in [S -> R], NEW a \in Seq(S), NEW b \in Seq(S)
    PROVE  Distributes(F, a, b)
  <1> DEFINE ma == Mapped(F, a)
             mb == Mapped(F, b)
             m  == ma \o mb
             ab == a \o b
             mab == Mapped(F, ab)
  <1>1. Maps(ma, F, a, R) /\ Maps(mb, F, b, R)
    BY MappedMaps, Zenon
  <1>2. Concatenates(ab, a, b, S)
    BY ConcatIs, Zenon
  <1> HIDE DEF ma, mb, ab
  <1>3. Concatenates(m, ma, mb, R)
    BY <1>1, ConcatIs, Zenon DEF Maps
  <1>4. Maps(mab, F, ab, R)
    BY <1>2, MappedMaps, Zenon DEF Concatenates
  <1> HIDE DEF m, mab
  <1>5. Len(a) \in Nat /\ Len(b) \in Nat
    BY LenProperties
  <1>6. Len(m) = Len(a) + Len(b) /\ Len(mab) = Len(a) + Len(b)
    BY <1>1, <1>2, <1>3, <1>4, Zenon DEF Maps, Concatenates
  <1>7. ASSUME NEW i \in 1 .. Len(a) + Len(b) PROVE mab[i] = m[i]
    <2>1. mab[i] = F[ab[i]]
      BY <1>2, <1>4, Zenon DEF Maps, Concatenates
    <2>2. CASE i <= Len(a)
      <3>1. i \in 1 .. Len(a)
        BY <1>5, <2>2
      <3>2. ab[i] = a[i] /\ m[i] = ma[i] /\ ma[i] = F[a[i]]
        BY <1>1, <1>2, <1>3, <2>2, <3>1 DEF Maps, Concatenates
      <3>3. QED
        BY <2>1, <3>2
    <2>3. CASE ~(i <= Len(a))
      <3>1. i - Len(a) \in 1 .. Len(b)
        BY <1>5, <2>3
      <3>2. ab[i] = b[i - Len(a)] /\ m[i] = mb[i - Len(a)] /\ mb[i - Len(a)] = F[b[i - Len(a)]]
        BY <1>1, <1>2, <1>3, <2>3, <3>1 DEF Maps, Concatenates
      <3>3. QED
        BY <2>1, <3>2
    <2>4. QED
      BY <2>2, <2>3
  <1>8. mab \in Seq(R) /\ m \in Seq(R)
    BY <1>3, <1>4, Zenon DEF Maps, Concatenates
  <1>9. mab = m
    BY <1>6, <1>7, <1>8, SeqEqual
  <1>10. QED
    BY <1>9 DEF Distributes, mab, m, ma, mb, ab

LEMMA CatType ==
    ASSUME NEW S, NEW E, NEW F \in [S -> Seq(E)], NEW s \in Seq(S)
    PROVE  Cat(F, s) \in Seq(E)
  <1>1. Mapped(F, s) \in Seq(Seq(E))
    BY MappedMaps, Zenon DEF Maps
  <1>2. QED
    BY <1>1, FlattenType, Zenon DEF Cat

Splits(F, a, b) == Cat(F, a \o b) = Cat(F, a) \o Cat(F, b)

LEMMA CatConcat ==
    ASSUME NEW S, NEW E, NEW F \in [S -> Seq(E)], NEW a \in Seq(S), NEW b \in Seq(S)
    PROVE  Splits(F, a, b)
  <1>1. Mapped(F, a \o b) = Mapped(F, a) \o Mapped(F, b)
    <2>1. Distributes(F, a, b)
      BY MappedConcat, Zenon
    <2>2. QED
      BY <2>1, Zenon DEF Distributes
  <1>2. Mapped(F, a) \in Seq(Seq(E)) /\ Mapped(F, b) \in Seq(Seq(E))
    BY MappedMaps, Zenon DEF Maps
  <1>3. FlattenSeq(Mapped(F, a) \o Mapped(F, b))
          = FlattenSeq(Mapped(F, a)) \o FlattenSeq(Mapped(F, b))
    BY <1>2, FlattenConcat, Zenon
  <1>4. QED
    BY <1>1, <1>3, Zenon DEF Splits, Cat

LEMMA CatOne ==
    ASSUME NEW S, NEW E, NEW F \in [S -> Seq(E)], NEW i \in S
    PROVE  Cat(F, <<i>>) = F[i]
  <1> DEFINE x == F[i]
  <1>1. Mapped(F, <<i>>) = <<x>> /\ x \in Seq(E)
    <2>1. x \in Seq(E)
      OBVIOUS
    <2> HIDE DEF x
    <2>2. DOMAIN <<i>> = 1 .. 1 /\ <<i>>[1] = i /\ DOMAIN <<x>> = 1 .. 1 /\ <<x>>[1] = x
      OBVIOUS
    <2>3. Mapped(F, <<i>>) = [k \in 1 .. 1 |-> F[<<i>>[k]]]
      BY <2>2 DEF Mapped
    <2>4. \A k \in 1 .. 1 : F[<<i>>[k]] = <<x>>[k]
      BY <2>2 DEF x
    <2>5. <<x>> = [k \in 1 .. 1 |-> <<x>>[k]]
      BY <2>2
    <2>6. QED
      BY <2>1, <2>3, <2>4, <2>5
  <1> HIDE DEF x
  <1>2. FlattenSeq(<<x>>) = x
    BY <1>1, FlattenOne, Zenon
  <1>3. QED
    BY <1>1, <1>2 DEF Cat, x

LEMMA CatSame ==
    ASSUME NEW F, NEW G, NEW s, \A i \in Range(s) : F[i] = G[i]
    PROVE  Cat(F, s) = Cat(G, s)
  <1>1. \A k \in DOMAIN s : F[s[k]] = G[s[k]]
    BY DEF Range
  <1>2. Mapped(F, s) = Mapped(G, s)
    BY <1>1 DEF Mapped
  <1>3. QED
    BY <1>2 DEF Cat

-----------------------------------------------------------------------------
(* The trees of TreeRead.                                                  *)

\* How many devices there are.
Size == Cardinality(Id)

\* An entry may be of a device without a row; below each device is a tree.
Forests == [Id -> Seq([id : Id, row : Rows \cup {NoRow}])]

Leaves(t) == [i \in Id |-> << Entry(i, t[i]) >>]

\* The device, and below it what each child has.
Below(t, b, i) == << Entry(i, t[i]) >> \o IF t[i] = NoRow THEN <<>> ELSE Cat(b, t[i].kids)

LEMMA SizeIsNat == Size \in Nat
  BY IdAssumption, FS_CardinalityType DEF Size

LEMMA BelowType ==
    ASSUME NEW t \in Table, NEW b \in Forests, NEW i \in Id
    PROVE  Below(t, b, i) \in Seq([id : Id, row : Rows \cup {NoRow}])
  <1> DEFINE E == [id : Id, row : Rows \cup {NoRow}]
             c == IF t[i] = NoRow THEN <<>> ELSE Cat(b, t[i].kids)
  <1>1. t[i] \in Rows \cup {NoRow}
    BY DEF Table
  <1>2. Entry(i, t[i]) \in E
    BY <1>1 DEF Entry
  <1>3. c \in Seq(E)
    <2>1. CASE t[i] = NoRow
      BY <2>1
    <2>2. CASE t[i] # NoRow
      <3>1. t[i].kids \in Seq(Id)
        BY <1>1, <2>2, RowKids
      <3>2. b \in [Id -> Seq(E)]
        BY DEF Forests
      <3> HIDE DEF E
      <3>3. Cat(b, t[i].kids) \in Seq(E)
        BY <3>1, <3>2, CatType, Zenon
      <3>4. QED
        BY <2>2, <3>3
    <2>3. QED
      BY <2>1, <2>2
  <1>4. Below(t, b, i) = << Entry(i, t[i]) >> \o c
    BY DEF Below
  <1> HIDE DEF c, E
  <1>5. << Entry(i, t[i]) >> \o c \in Seq(E)
    <2> DEFINE x == Entry(i, t[i])
    <2> HIDE DEF x
    <2>1. x \in E
      BY <1>2 DEF x
    <2>2. << x >> \o c \in Seq(E)
      BY <1>3, <2>1
    <2>3. QED
      BY <2>2 DEF x
  <1>6. QED
    BY <1>4, <1>5 DEF E

LEMMA GrownIs ==
    ASSUME NEW t \in Table, NEW b \in Forests
    PROVE  /\ Abstract!Grown(t, b) \in Forests
           /\ \A i \in Id : Abstract!Grown(t, b)[i] = Below(t, b, i)
  <1>1. Abstract!Grown(t, b) = [i \in Id |-> Below(t, b, i)]
    BY DEF Abstract!Grown, Abstract!Entry, Abstract!FlattenSeq,
           Below, Cat, Mapped, Entry, FlattenSeq
  <1>2. \A i \in Id : Below(t, b, i) \in Seq([id : Id, row : Rows \cup {NoRow}])
    BY BelowType
  <1>3. QED
    BY <1>1, <1>2, Zenon DEF Forests

\* b[n] has the trees that end n levels below.
Built(b, t) ==
    /\ b \in [0 .. Size -> Forests] /\ b[0] = Leaves(t)
    /\ \A n \in 1 .. Size : b[n] = Abstract!Grown(t, b[n - 1])

LEMMA BuiltExists ==
    ASSUME NEW t \in Table
    PROVE  \E b : Built(b, t)
  <1> DEFINE D == (1 .. Size) \X Forests
             F == [p \in D |-> Abstract!Grown(t, p[2])]
  <1>1. F \in [D -> Forests]
    <2>1. \A p \in D : Abstract!Grown(t, p[2]) \in Forests
      BY GrownIs
    <2>2. QED
      BY <2>1, Zenon
  <1>2. \A k \in 1 .. Size, s \in Forests : F[k, s] = Abstract!Grown(t, s)
    OBVIOUS
  <1> HIDE DEF F
  <1>3. Leaves(t) \in Forests
    <2>1. \A i \in Id : << Entry(i, t[i]) >> \in Seq([id : Id, row : Rows \cup {NoRow}])
      BY DEF Entry, Table
    <2>2. QED
      BY <2>1, Zenon DEF Forests, Leaves
  <1>4. PICK f : Follows(f, Leaves(t), F, Forests, Size)
    BY <1>1, <1>3, SizeIsNat, Iterates
  <1>5. ASSUME NEW k \in 1 .. Size PROVE f[k] = Abstract!Grown(t, f[k - 1])
    <2>1. k - 1 \in 0 .. Size
      BY SizeIsNat
    <2>2. f[k - 1] \in Forests /\ f[k] = F[k, f[k - 1]]
      BY <1>4, <2>1 DEF Follows
    <2>3. QED
      BY <1>2, <2>2, Zenon
  <1>6. Built(f, t)
    BY <1>4, <1>5, Zenon DEF Follows, Built
  <1>7. QED
    BY <1>6

LEMMA TreesIs ==
    ASSUME NEW t, NEW b, Built(b, t)
    PROVE  Abstract!Trees(t) = b[Size]
  <1> DEFINE Step(g, n) == IF n = 0 THEN Leaves(t) ELSE Abstract!Grown(t, g[n - 1])
             G(g) == [n \in 0 .. Size |-> Step(g, n)]
             s == CHOOSE g : g = G(g)
  <1>1. Abstract!Trees(t) = s[Size]
    BY DEF Abstract!Trees, Abstract!Entry, Abstract!Cardinality,
           Leaves, Entry, Size, Cardinality
  <1>2. \A n \in 0 .. Size : b[n] = Step(b, n)
    BY SizeIsNat DEF Built
  <1>3. b = G(b)
    <2>1. b = [n \in 0 .. Size |-> b[n]]
      BY DEF Built
    <2> HIDE DEF Step
    <2>2. QED
      BY <1>2, <2>1
  <1> HIDE DEF G
  <1>4. s = G(s)
    BY <1>3, Zenon
  <1> HIDE DEF s
  <1>5. \A n \in 0 .. Size : s[n] = Step(s, n)
    <2> HIDE DEF Step
    <2>1. \A n \in 0 .. Size : G(s)[n] = Step(s, n)
      BY Zenon DEF G
    <2>2. QED
      BY <1>4, <2>1, Zenon
  <1>6. s[0] = b[0]
    BY <1>2, <1>5, SizeIsNat
  <1>7. ASSUME NEW n \in 1 .. Size, s[n - 1] = b[n - 1] PROVE s[n] = b[n]
    <2>1. n \in 0 .. Size /\ n # 0
      BY SizeIsNat
    <2>2. s[n] = Step(s, n) /\ b[n] = Step(b, n)
      BY <1>2, <1>5, <2>1, Zenon
    <2>3. QED
      BY <1>7, <2>1, <2>2
  <1>8. s[Size] = b[Size]
    BY <1>6, <1>7, SizeIsNat, Unique
  <1>9. QED
    BY <1>1, <1>8

-----------------------------------------------------------------------------
(* The devices whose trees have an end.                                    *)

\* The devices that have a row and list devices of X only.
Sound(t, X) == {i \in Id : t[i] # NoRow /\ Range(t[i].kids) \subseteq X}

\* f[n] are the devices whose trees have n levels at most.
Levels(f, t) ==
    /\ f \in [0 .. Size + 1 -> SUBSET Id] /\ f[0] = {}
    /\ \A n \in 1 .. Size + 1 : f[n] = Sound(t, f[n - 1])

LEMMA LevelsExist ==
    ASSUME NEW t
    PROVE  \E f : Levels(f, t)
  <1> DEFINE n == Size + 1
             S == SUBSET Id
             D == (1 .. n) \X S
             F == [p \in D |-> Sound(t, p[2])]
  <1>1. F \in [D -> S]
    <2>1. \A p \in D : Sound(t, p[2]) \in S
      BY DEF Sound
    <2>2. QED
      BY <2>1, Zenon
  <1>2. \A k \in 1 .. n, X \in S : F[k, X] = Sound(t, X)
    OBVIOUS
  <1>3. n \in Nat /\ {} \in S
    BY SizeIsNat
  <1> HIDE DEF F, S, n
  <1>4. PICK f : Follows(f, {}, F, S, n)
    BY <1>1, <1>3, Iterates
  <1>5. ASSUME NEW k \in 1 .. n PROVE f[k] = Sound(t, f[k - 1])
    <2>1. k - 1 \in 0 .. n
      BY <1>3
    <2>2. f[k - 1] \in S /\ f[k] = F[k, f[k - 1]]
      BY <1>4, <2>1 DEF Follows
    <2>3. QED
      BY <1>2, <2>2, Zenon
  <1>6. Levels(f, t)
    BY <1>4, <1>5, Zenon DEF Follows, Levels, n, S
  <1>7. QED
    BY <1>6

LEMMA LevelsGrow ==
    ASSUME NEW t, NEW f, Levels(f, t), NEW k \in 0 .. Size
    PROVE  f[k] \subseteq f[k + 1]
  <1> DEFINE T == {n \in 0 .. Size : f[n] \subseteq f[n + 1]}
  <1>1. 0 \in T
    BY SizeIsNat DEF Levels
  <1>2. ASSUME NEW n \in 0 .. Size - 1, n \in T PROVE n + 1 \in T
    <2>1. /\ n + 1 \in 1 .. Size + 1 /\ (n + 1) - 1 = n /\ n + 1 \in 0 .. Size
          /\ (n + 1) + 1 \in 1 .. Size + 1 /\ ((n + 1) + 1) - 1 = n + 1
      BY SizeIsNat
    <2>2. f[n + 1] = Sound(t, f[n]) /\ f[(n + 1) + 1] = Sound(t, f[n + 1])
      <3>1. \A j \in 1 .. Size + 1 : f[j] = Sound(t, f[j - 1])
        BY DEF Levels
      <3>2. f[n + 1] = Sound(t, f[(n + 1) - 1])
            /\ f[(n + 1) + 1] = Sound(t, f[((n + 1) + 1) - 1])
        BY <2>1, <3>1, Zenon
      <3>3. QED
        BY <2>1, <3>2
    <2>3. Sound(t, f[n]) \subseteq Sound(t, f[n + 1])
      BY <1>2 DEF Sound
    <2>4. f[n + 1] \subseteq f[(n + 1) + 1]
      BY <2>2, <2>3, Zenon
    <2>5. QED
      BY <2>1, <2>4
  <1> HIDE DEF T
  <1>3. 0 .. Size \subseteq T
    BY <1>1, <1>2, Induct, SizeIsNat
  <1>4. QED
    BY <1>3 DEF T

\* There are not more levels than devices.
LEMMA LevelsEnd ==
    ASSUME NEW t, NEW f, Levels(f, t)
    PROVE  f[Size] = f[Size + 1]
  <1>1. \A n \in 0 .. Size + 1 : f[n] \in SUBSET Id
    BY DEF Levels
  <1>2. \A n \in 0 .. Size + 1 : IsFiniteSet(f[n]) /\ Cardinality(f[n]) \in Nat
                                 /\ Cardinality(f[n]) <= Size
    BY <1>1, IdAssumption, FS_Subset, FS_CardinalityType DEF Size
  <1>3. ASSUME NEW n \in 0 .. Size, f[n] # f[n + 1]
        PROVE  Cardinality(f[n]) < Cardinality(f[n + 1])
    <2>1. n \in 0 .. Size + 1 /\ n + 1 \in 0 .. Size + 1
      BY SizeIsNat
    <2>2. f[n] \in SUBSET f[n + 1]
      BY LevelsGrow
    <2>3. IsFiniteSet(f[n + 1])
      BY <1>2, <2>1
    <2>4. /\ Cardinality(f[n]) <= Cardinality(f[n + 1])
          /\ Cardinality(f[n + 1]) = Cardinality(f[n]) => f[n + 1] = f[n]
      BY <2>2, <2>3, FS_Subset
    <2>5. Cardinality(f[n]) \in Nat /\ Cardinality(f[n + 1]) \in Nat
      BY <1>2, <2>1
    <2>6. QED
      BY <1>3, <2>4, <2>5
  <1> DEFINE T == {n \in 0 .. Size : f[n] = f[n + 1] \/ Cardinality(f[n + 1]) >= n + 1}
  <1>4. 0 \in T
    <2>1. 0 \in 0 .. Size /\ 0 \in 0 .. Size + 1 /\ 0 + 1 \in 0 .. Size + 1
      BY SizeIsNat
    <2>2. Cardinality(f[0]) \in Nat /\ Cardinality(f[0 + 1]) \in Nat
      BY <1>2, <2>1, Zenon
    <2>3. f[0] # f[0 + 1] => Cardinality(f[0]) < Cardinality(f[0 + 1])
      BY <1>3, <2>1, Zenon
    <2>4. QED
      BY <2>1, <2>2, <2>3
  <1>5. ASSUME NEW n \in 0 .. Size - 1, n \in T PROVE n + 1 \in T
    <2>1. /\ n + 1 \in 1 .. Size + 1 /\ (n + 1) - 1 = n /\ n + 1 \in 0 .. Size
          /\ (n + 1) + 1 \in 1 .. Size + 1 /\ ((n + 1) + 1) - 1 = n + 1
          /\ n + 1 \in 0 .. Size + 1 /\ (n + 1) + 1 \in 0 .. Size + 1
      BY SizeIsNat
    <2>2. CASE f[n] = f[n + 1]
      <3>1. f[n + 1] = Sound(t, f[n]) /\ f[(n + 1) + 1] = Sound(t, f[n + 1])
        <4>1. \A j \in 1 .. Size + 1 : f[j] = Sound(t, f[j - 1])
          BY DEF Levels
        <4>2. f[n + 1] = Sound(t, f[(n + 1) - 1])
              /\ f[(n + 1) + 1] = Sound(t, f[((n + 1) + 1) - 1])
          BY <2>1, <4>1, Zenon
        <4>3. QED
          BY <2>1, <4>2
      <3>2. f[n + 1] = f[(n + 1) + 1]
        BY <2>2, <3>1
      <3>3. QED
        BY <2>1, <3>2
    <2>3. CASE f[n] # f[n + 1] /\ f[n + 1] # f[(n + 1) + 1]
      <3>1. Cardinality(f[n + 1]) >= n + 1
        BY <1>5, <2>3
      <3>2. Cardinality(f[n + 1]) < Cardinality(f[(n + 1) + 1])
        BY <1>3, <2>1, <2>3, Zenon
      <3>3. Cardinality(f[n + 1]) \in Nat /\ Cardinality(f[(n + 1) + 1]) \in Nat
        BY <1>2, <2>1, Zenon
      <3>4. Cardinality(f[(n + 1) + 1]) >= (n + 1) + 1
        BY <3>1, <3>2, <3>3
      <3>5. QED
        BY <2>1, <3>4
    <2>4. CASE f[n + 1] = f[(n + 1) + 1]
      BY <2>1, <2>4
    <2>5. QED
      BY <2>2, <2>3, <2>4
  <1> HIDE DEF T
  <1>6. 0 .. Size \subseteq T
    BY <1>4, <1>5, Induct, SizeIsNat
  <1>7. Size \in T /\ Size + 1 \in 0 .. Size + 1
    BY <1>6, SizeIsNat
  <1>8. f[Size] = f[Size + 1] \/ Cardinality(f[Size + 1]) >= Size + 1
    BY <1>7 DEF T
  <1>9. Cardinality(f[Size + 1]) \in Nat /\ Cardinality(f[Size + 1]) <= Size
    BY <1>2, <1>7, Zenon
  <1>10. QED
    BY <1>8, <1>9, SizeIsNat

\* A tree of k levels is complete when it is built to k levels.
Complete(b, k, X) == \A i \in X : b[k][i] = b[k + 1][i]

LEMMA LevelsBuilt ==
    ASSUME NEW t \in Table, NEW f, Levels(f, t), NEW b, Built(b, t),
           NEW k \in 0 .. Size - 1
    PROVE  Complete(b, k, f[k])
  <1> DEFINE Q(n) == Complete(b, n, f[n])
             T == {n \in 0 .. Size - 1 : Q(n)}
  <1>1. Size \in Nat /\ Size - 1 \in Nat
    BY SizeIsNat
  <1>2. 0 \in T
    BY <1>1 DEF Levels, Complete
  <1>3. ASSUME NEW n \in 0 .. (Size - 1) - 1, n \in T PROVE n + 1 \in T
    <2>1. /\ n + 1 \in 1 .. Size /\ (n + 1) - 1 = n /\ n + 1 \in 1 .. Size + 1
          /\ (n + 1) + 1 \in 1 .. Size /\ ((n + 1) + 1) - 1 = n + 1
          /\ n \in 0 .. Size /\ n + 1 \in 0 .. Size /\ n + 1 \in 0 .. Size + 1
          /\ n + 1 \in 0 .. Size - 1
      BY <1>1
    <2>2. f[n + 1] = Sound(t, f[n])
      <3>1. f[n + 1] = Sound(t, f[(n + 1) - 1])
        BY <2>1, Zenon DEF Levels
      <3>2. QED
        BY <2>1, <3>1
    <2>3. /\ b[n] \in Forests /\ b[n + 1] \in Forests
          /\ b[n + 1] = Abstract!Grown(t, b[n])
          /\ b[(n + 1) + 1] = Abstract!Grown(t, b[n + 1])
      <3>1. /\ b[n + 1] = Abstract!Grown(t, b[(n + 1) - 1])
            /\ b[(n + 1) + 1] = Abstract!Grown(t, b[((n + 1) + 1) - 1])
        BY <2>1, Zenon DEF Built
      <3>2. b[n] \in Forests /\ b[n + 1] \in Forests
        BY <2>1, Zenon DEF Built
      <3>3. QED
        BY <2>1, <3>1, <3>2
    <2>4. ASSUME NEW j \in f[n + 1] PROVE b[n + 1][j] = b[(n + 1) + 1][j]
      <3>1. j \in Id /\ t[j] # NoRow /\ Range(t[j].kids) \subseteq f[n]
        BY <2>2, <2>4 DEF Sound
      <3>2. b[n + 1][j] = Below(t, b[n], j)
        BY <2>3, <3>1, GrownIs
      <3>3. b[(n + 1) + 1][j] = Below(t, b[n + 1], j)
        BY <2>3, <3>1, GrownIs
      <3>4. Q(n)
        BY <1>3
      <3>5. Cat(b[n], t[j].kids) = Cat(b[n + 1], t[j].kids)
        BY <3>1, <3>4, CatSame DEF Complete
      <3>6. Below(t, b[n], j) = Below(t, b[n + 1], j)
        BY <3>5 DEF Below
      <3>7. QED
        BY <3>2, <3>3, <3>6
    <2>5. QED
      BY <2>1, <2>4 DEF Complete
  <1> HIDE DEF T, Q
  <1>4. 0 .. Size - 1 \subseteq T
    BY <1>1, <1>2, <1>3, Induct
  <1>5. Q(k)
    BY <1>4 DEF T
  <1>6. QED
    BY <1>5 DEF Q

\* X are the devices whose trees have an end, and these trees are what their
\* rows say.
Ends(X, t) ==
    /\ X \subseteq Id
    /\ Sound(t, X) = X
    /\ \A i \in X : Abstract!Trees(t)[i] = << Entry(i, t[i]) >> \o Cat(Abstract!Trees(t), t[i].kids)

LEMMA EndsExist ==
    ASSUME NEW t \in Table
    PROVE  /\ Abstract!Trees(t) \in Forests
           /\ \E X : Ends(X, t)
  <1>1. PICK f : Levels(f, t)
    BY LevelsExist
  <1>2. PICK b : Built(b, t)
    BY BuiltExists
  <1> DEFINE n == Size
             X == f[n]
             trees == Abstract!Trees(t)
  <1>3. trees = b[n]
    BY <1>2, TreesIs
  <1>4. n \in Nat /\ n \in 0 .. n /\ n \in 0 .. n + 1 /\ n + 1 \in 1 .. n + 1 /\ (n + 1) - 1 = n
    BY SizeIsNat
  <1>5. trees \in Forests
    BY <1>2, <1>3, <1>4 DEF Built
  <1>6. X \subseteq Id
    BY <1>1, <1>4 DEF Levels
  <1>7. Sound(t, X) = X
    <2>1. f[n + 1] = Sound(t, f[(n + 1) - 1])
      BY <1>1, <1>4, Zenon DEF Levels
    <2>2. f[n + 1] = Sound(t, f[n])
      BY <1>4, <2>1
    <2>3. f[n] = f[n + 1]
      BY <1>1, LevelsEnd, Zenon
    <2>4. QED
      BY <2>2, <2>3
  <1>8. ASSUME NEW i \in X PROVE trees[i] = << Entry(i, t[i]) >> \o Cat(trees, t[i].kids)
    <2>1. n # 0
      BY <1>1 DEF Levels
    <2> DEFINE m == n - 1
    <2>2. m \in 0 .. n - 1 /\ m \in 0 .. n /\ m + 1 = n /\ n \in 1 .. n /\ n \in 1 .. n + 1
      BY <1>4, <2>1
    <2>3. b[n] = Abstract!Grown(t, b[m]) /\ b[m] \in Forests
      BY <1>2, <2>2, Zenon DEF Built
    <2>4. f[n] = Sound(t, f[m])
      BY <1>1, <2>2, Zenon DEF Levels
    <2>5. i \in Id /\ t[i] # NoRow /\ Range(t[i].kids) \subseteq f[m]
      BY <2>4 DEF Sound
    <2>6. b[n][i] = Below(t, b[m], i)
      BY <2>3, <2>5, GrownIs
    <2>7. \A j \in f[m] : b[m][j] = b[n][j]
      <3> HIDE DEF m
      <3>1. \A j \in f[m] : b[m][j] = b[m + 1][j]
        <4>1. m \in 0 .. Size - 1
          BY <2>2
        <4>2. Complete(b, m, f[m])
          BY <1>1, <1>2, <4>1, LevelsBuilt, Zenon
        <4>3. QED
          BY <4>2, Zenon DEF Complete
      <3>2. QED
        BY <2>2, <3>1
    <2>8. Cat(b[m], t[i].kids) = Cat(b[n], t[i].kids)
      BY <2>5, <2>7, CatSame
    <2>9. Below(t, b[m], i) = << Entry(i, t[i]) >> \o Cat(b[n], t[i].kids)
      BY <2>5, <2>8 DEF Below
    <2>10. QED
      BY <1>3, <2>6, <2>9
  <1>9. Ends(X, t)
    BY <1>6, <1>7, <1>8 DEF Ends
  <1>10. QED
    BY <1>5, <1>9

-----------------------------------------------------------------------------
(* The next fetch.                                                         *)

\* An entry may be put behind what comes before it or before what comes
\* behind it.
Regrouped(g, e, u, w) == Append(g, e) \o (u \o w) = g \o ((<< e >> \o u) \o w)

LEMMA Regroup ==
    ASSUME NEW E, NEW g \in Seq(E), NEW e \in E, NEW u \in Seq(E), NEW w \in Seq(E)
    PROVE  Regrouped(g, e, u, w)
  <1> DEFINE o == << e >>
  <1>1. o \in Seq(E) /\ Append(g, e) = g \o o
    OBVIOUS
  <1> HIDE DEF o
  <1>2. u \o w \in Seq(E)
    OBVIOUS
  <1>3. Grouped(o, u, w)
    BY <1>1, Associative, Zenon
  <1> DEFINE uw == u \o w
  <1>4. uw \in Seq(E)
    BY <1>2
  <1> HIDE DEF uw
  <1>5. Grouped(g, o, uw)
    BY <1>1, <1>4, Associative, Zenon
  <1>6. (g \o o) \o uw = g \o (o \o uw)
    BY <1>5, Zenon DEF Grouped
  <1>7. o \o uw = (o \o u) \o w
    BY <1>3, Zenon DEF Grouped, uw
  <1>8. Append(g, e) \o uw = g \o ((o \o u) \o w)
    BY <1>1, <1>6, <1>7, Zenon
  <1>9. QED
    BY <1>8, Zenon DEF Regrouped, o, uw

\* If the devices of s have trees with an end, then g and they make the tree
\* of the System.
Reads(g, s, t, X) ==
    Range(s) \subseteq X => g \o Cat(Abstract!Trees(t), s) = Abstract!Trees(t)[SysId]

LEMMA ReadsFirst ==
    ASSUME NEW t \in Table, NEW X
    PROVE  Reads(<<>>, << SysId >>, t, X)
  <1> DEFINE E == [id : Id, row : Rows \cup {NoRow}]
             T == Abstract!Trees(t)
  <1>1. T \in [Id -> Seq(E)]
    BY EndsExist DEF Forests
  <1> HIDE DEF T, E
  <1>2. T[SysId] \in Seq(E)
    BY <1>1, ReaderAssumption
  <1>3. Cat(T, << SysId >>) = T[SysId]
    BY <1>1, ReaderAssumption, CatOne
  <1>4. <<>> \o T[SysId] = T[SysId]
    <2> DEFINE x == T[SysId]
    <2> HIDE DEF x
    <2>1. x \in Seq(E)
      BY <1>2 DEF x
    <2>2. <<>> \o x = x
      BY <2>1, ConcatEmptySeq
    <2>3. QED
      BY <2>2 DEF x
  <1>5. QED
    BY <1>3, <1>4, Zenon DEF Reads, T

LEMMA ReadsNext ==
    ASSUME NEW t \in Table, NEW X, Ends(X, t),
           NEW s \in Seq(Id), s # <<>>, t[Head(s)] # NoRow,
           NEW g \in Seq(Entries), Reads(g, s, t, X)
    PROVE  Reads(Append(g, Entry(Head(s), t[Head(s)])), t[Head(s)].kids \o Tail(s), t, X)
  <1> DEFINE E == [id : Id, row : Rows \cup {NoRow}]
             T == Abstract!Trees(t)
             i == Head(s)
             z == Tail(s)
             kids == t[i].kids
             e == Entry(i, t[i])
             u == Cat(T, kids)
             w == Cat(T, z)
  <1> SUFFICES ASSUME Range(kids \o z) \subseteq X
               PROVE  Append(g, e) \o Cat(T, kids \o z) = T[SysId]
    BY DEF Reads
  <1>1. T \in [Id -> Seq(E)]
    BY EndsExist DEF Forests
  <1>2. i \in Id /\ z \in Seq(Id) /\ t[i] \in Rows
    BY HeadTailProperties DEF Table
  <1>3. kids \in Seq(Id)
    BY <1>2, RowKids
  <1>4. e \in E /\ g \in Seq(E)
    <2>1. e \in E
      BY <1>2 DEF Entry
    <2>2. Entries \subseteq E
      BY DEF Entries
    <2>3. QED
      BY <2>1, <2>2, SeqMonotonic
  <1>5. s = << i >> \o z /\ << i >> \in Seq(Id)
    OBVIOUS
  <1>6. Range(s) = {i} \cup Range(z)
    BY RangeHeadTail
  <1> HIDE DEF T, E, i, z, kids, e, u, w
  <1>7. Range(kids) \subseteq X /\ Range(z) \subseteq X
    BY <1>2, <1>3, RangeConcat
  <1>8. i \in X
    <2>1. i \in Sound(t, X)
      BY <1>2, <1>7 DEF Sound, i, kids
    <2>2. QED
      BY <2>1 DEF Ends
  <1>9. g \o Cat(T, s) = T[SysId]
    BY <1>6, <1>7, <1>8 DEF Reads, T
  <1>10. u \in Seq(E) /\ w \in Seq(E)
    BY <1>1, <1>2, <1>3, CatType, Zenon DEF u, w
  <1>11. Cat(T, s) = T[i] \o w
    <2>1. Cat(T, << i >> \o z) = Cat(T, << i >>) \o Cat(T, z)
      <3>1. Splits(T, << i >>, z)
        BY <1>1, <1>2, <1>5, CatConcat, Zenon
      <3>2. QED
        BY <3>1, Zenon DEF Splits
    <2>2. Cat(T, << i >>) = T[i]
      BY <1>1, <1>2, CatOne
    <2>3. QED
      BY <1>5, <2>1, <2>2, Zenon DEF w
  <1>12. T[i] = << e >> \o u
    BY <1>8 DEF Ends, T, e, u, kids
  <1>13. Cat(T, kids \o z) = u \o w
    <2>1. Splits(T, kids, z)
      BY <1>1, <1>2, <1>3, CatConcat, Zenon
    <2>2. QED
      BY <2>1, Zenon DEF Splits, u, w
  <1>14. Regrouped(g, e, u, w)
    BY <1>4, <1>10, Regroup, Zenon
  <1>15. QED
    BY <1>9, <1>11, <1>12, <1>13, <1>14, Zenon DEF Regrouped

\* When nothing is left to be fetched, the tree is complete.
LEMMA ReadsAll ==
    ASSUME NEW t \in Table, NEW X, NEW g \in Seq(Entries), Reads(g, <<>>, t, X)
    PROVE  Abstract!TreeOf(t) = << "tree", g >>
  <1> DEFINE T == Abstract!Trees(t)
  <1>1. g \o Cat(T, <<>>) = T[SysId]
    BY DEF Reads, Range
  <1>2. Cat(T, <<>>) = <<>>
    <2>1. Mapped(T, <<>>) = <<>>
      BY DEF Mapped
    <2>2. FlattenSeq(<<>>) = <<>>
      BY DEF FlattenSeq
    <2>3. QED
      BY <2>1, <2>2 DEF Cat
  <1>3. g \o <<>> = g
    BY ConcatEmptySeq
  <1>4. T[SysId] = g
    BY <1>1, <1>2, <1>3
  <1>5. \A k \in DOMAIN g : g[k].row # NoRow
    <2>1. \A k \in DOMAIN g : g[k] \in Entries
      OBVIOUS
    <2>2. QED
      BY <2>1, NoRowIsNone DEF Entries
  <1> HIDE DEF T
  <1>6. Abstract!TreeOf(t) = IF \E k \in DOMAIN T[SysId] : T[SysId][k].row = NoRow
                             THEN Abstract!Failed ELSE Abstract!Tree(T[SysId])
    BY DEF Abstract!TreeOf, T
  <1>7. QED
    BY <1>4, <1>5, <1>6 DEF Abstract!Tree

-----------------------------------------------------------------------------
(* Reading is atomic.                                                      *)

Protected == (Reader \cap holders) \ exposed
Result == [r \in Reader |-> CASE outcome[r] = "done"  -> << "tree", got[r] >>
                              [] outcome[r] = "error" -> << "error" >>
                              [] OTHER                -> << "nothing" >>]
Founded(t) == CHOOSE X : Ends(X, t)

\* A protected reader has read the first part of the tree of the System,
\* unless it is on its way to a device that is missing, or in a circle.
ReadInv ==
    \A r \in Protected :
        outcome[r] = "reading" => Reads(got[r], todo[r], table, Founded(table))

\* A step of the reader r alone.
Alone(r) ==
    \A q \in Reader \ {r} : got'[q] = got[q] /\ todo'[q] = todo[q] /\ outcome'[q] = outcome[q]

LEMMA FoundedEnds ==
    ASSUME NEW t \in Table
    PROVE  Ends(Founded(t), t)
  BY EndsExist, Zenon DEF Founded

LEMMA ReadInvStep ==
    ASSUME TypeOK, LockInv, ReadInv, [Next]_vars
    PROVE  ReadInv'
  <1> USE ReaderAssumption, ReadOnlyAssumption
  <1> USE DEF TypeOK, TableTypeOK, Protected, Reader, svars
  <1>1. ASSUME table' = table,
               NEW r \in Reader, Alone(r),
               Protected' \subseteq Protected \cup {r},
               r \in Protected' /\ outcome'[r] = "reading" =>
                   Reads(got'[r], todo'[r], table, Founded(table))
        PROVE  ReadInv'
    <2>1. ASSUME NEW q \in Protected', outcome'[q] = "reading"
          PROVE  Reads(got'[q], todo'[q], table, Founded(table))
      <3>1. CASE q = r
        BY <1>1, <2>1, <3>1
      <3>2. CASE q # r
        BY <1>1, <2>1, <3>2 DEF ReadInv, Alone
      <3>3. QED
        BY <3>1, <3>2
    <2>2. QED
      BY <1>1, <2>1, Zenon DEF ReadInv
  <1>2. ASSUME Protected' \subseteq Protected, UNCHANGED <<table, todo, got, outcome>>
        PROVE  ReadInv'
    BY <1>2 DEF ReadInv
  <1>3. ASSUME NEW e \in Env, Open(e) PROVE ReadInv'
    <2>1. UNCHANGED <<table, todo, got, outcome, exposed>>
      BY <1>3 DEF Open, rvars
    <2>2. CASE EnterUnlocked(e)
      BY <1>2, <2>1, <2>2 DEF EnterUnlocked
    <2>3. CASE Enter(e)
      <3>1. Protected' \subseteq {e} /\ ~Inside(e)
        BY <2>3 DEF Enter
      <3>2. CASE e \in ReadOnly
        <4>1. outcome[e] = "idle"
          BY <3>1, <3>2 DEF LockInv
        <4>2. QED
          BY <1>1, <2>1, <3>1, <3>2, <4>1 DEF Alone
      <3>3. CASE e \notin ReadOnly
        <4>1. Protected' = {}
          BY <3>1, <3>3
        <4>2. QED
          BY <4>1 DEF ReadInv
      <3>4. QED
        BY <3>2, <3>3
    <2>4. QED
      BY <1>3, <2>2, <2>3 DEF Open
  <1>4. ASSUME NEW e \in Env, Close(e) PROVE ReadInv'
    <2>1. table' = table /\ Protected' \subseteq Protected \ {e}
      BY <1>4 DEF Close, Leave
    <2>2. \A q \in Reader \ {e} : /\ got'[q] = got[q] /\ todo'[q] = todo[q]
                                  /\ outcome'[q] = outcome[q]
      BY <1>4 DEF Close
    <2>3. QED
      BY <2>1, <2>2 DEF ReadInv
  <1>5. ASSUME NEW e \in Env, Write(e) PROVE ReadInv'
    <2>1. CanWrite(e) /\ UNCHANGED <<svars, todo, got, outcome>>
      BY <1>5, Statement
    <2>2. Protected' = {}
      <3>1. CASE e \in guests
        <4>1. exposed' = exposed \cup holders
          BY <1>5, <3>1 DEF Write
        <4>2. QED
          BY <2>1, <4>1
      <3>2. CASE e \in holders
        <4>1. holders = {e} /\ e \notin Reader
          BY <2>1, <3>2 DEF LockInv, CanWrite
        <4>2. QED
          BY <2>1, <4>1
      <3>3. QED
        BY <2>1, <3>1, <3>2 DEF CanWrite, Inside
    <2>3. QED
      BY <2>2 DEF ReadInv
  <1>6. ASSUME NEW r \in Reader, StartTree(r) PROVE ReadInv'
    <2>1. /\ todo'[r] = << SysId >> /\ got'[r] = <<>>
          /\ table' = table /\ Protected' = Protected /\ Alone(r)
      BY <1>6 DEF StartTree, Alone
    <2>2. Reads(<<>>, << SysId >>, table, Founded(table))
      BY ReadsFirst
    <2>3. Reads(got'[r], todo'[r], table, Founded(table))
      BY <2>1, <2>2, Zenon
    <2>4. QED
      BY <1>1, <2>1, <2>3
  <1>7. ASSUME NEW r \in Reader, FetchNext(r) PROVE ReadInv'
    <2>1. /\ table' = table /\ Protected' = Protected /\ Alone(r)
      BY <1>7 DEF FetchNext, Alone
    <2>2. ASSUME r \in Protected
          PROVE  Reads(got'[r], todo'[r], table, Founded(table))
      <3> DEFINE i == Head(todo[r])
      <3>1. r \notin CReader
        BY <2>2
      <3>2. outcome[r] = "reading" /\ todo[r] # <<>> /\ table[i] # NoRow
        BY <1>7 DEF FetchNext
      <3>3. todo[r] \in Seq(Id) /\ got[r] \in Seq(Entries) /\ table \in Table
        OBVIOUS
      <3>4. Reads(got[r], todo[r], table, Founded(table))
        BY <2>2, <3>2 DEF ReadInv
      <3>5. Ends(Founded(table), table)
        BY <3>3, FoundedEnds
      <3>6. Reads(Append(got[r], Entry(i, table[i])), table[i].kids \o Tail(todo[r]), table,
                  Founded(table))
        BY <3>2, <3>3, <3>4, <3>5, ReadsNext
      <3>7. got'[r] = Append(got[r], Entry(i, table[i]))
        BY <1>7 DEF FetchNext
      <3>8. todo'[r] = table[i].kids \o Tail(todo[r])
        <4>1. todo'[r] = Children(r, i, table[i]) \o Tail(todo[r])
          BY <1>7 DEF FetchNext
        <4>2. Children(r, i, table[i]) = table[i].kids
          BY <3>1 DEF Children
        <4> HIDE DEF i
        <4>3. QED
          BY <4>1, <4>2
      <3>9. QED
        BY <3>6, <3>7, <3>8, Zenon
    <2>3. QED
      BY <1>1, <2>1, <2>2
  <1>8. ASSUME NEW r \in Reader, FetchFails(r) \/ Return(r) PROVE ReadInv'
    <2>1. /\ outcome'[r] # "reading"
          /\ table' = table /\ Protected' = Protected /\ Alone(r)
      BY <1>8 DEF FetchFails, Return, Alone
    <2>2. QED
      BY <1>1, <2>1
  <1>9. CASE UNCHANGED vars
    BY <1>2, <1>9 DEF vars, rvars
  <1>10. QED
    BY <1>3, <1>4, <1>5, <1>6, <1>7, <1>8, <1>9 DEF Next

\* A reader is given nothing new when its outcome and entries stay.
LEMMA SameResult ==
    ASSUME UNCHANGED <<got, outcome>>
    PROVE  Result' = Result
  BY DEF Result

\* A step that leaves all results and the table.
LEMMA Stutters ==
    ASSUME table' = table, Result' = Result, Protected' = Protected
    PROVE  UNCHANGED Abstract!tvars
  BY DEF Abstract!tvars, Result, Protected

LEMMA Forgets ==
    ASSUME table' = table, NEW R \in SUBSET Reader, Protected' \in {Protected, Protected \ R},
           Result' = [r \in Reader |-> IF r \in R THEN << "nothing" >> ELSE Result[r]]
    PROVE  Abstract!ReadNext
  <1>1. Abstract!Forget(R)
    BY DEF Abstract!Forget, Abstract!Nothing, Result, Protected
  <1>2. QED
    BY <1>1 DEF Abstract!ReadNext

\* The step of each action is a step of TreeRead or none.
LEMMA StepRefines ==
    ASSUME TypeOK, LockInv, ReadInv, [Next]_vars
    PROVE  [Abstract!ReadNext]_(Abstract!tvars)
  <1> USE ReaderAssumption, ReadOnlyAssumption
  <1> USE DEF TypeOK, TableTypeOK, Reader, svars
  <1>1. ASSUME NEW e \in Env, Open(e) PROVE [Abstract!ReadNext]_(Abstract!tvars)
    <2>1. UNCHANGED <<table, todo, got, outcome, exposed>>
      BY <1>1 DEF Open, rvars
    <2>2. Result' = Result
      BY <2>1, SameResult
    <2>3. CASE Protected' = Protected
      BY <2>1, <2>2, <2>3, Stutters
    <2>4. CASE Protected' # Protected
      <3>1. e \in Reader /\ Protected' = Protected \cup {e}
        BY <1>1, <2>1, <2>4 DEF Open, Enter, EnterUnlocked, Protected
      <3>2. Abstract!Protect(e)
        BY <2>1, <2>2, <3>1 DEF Abstract!Protect, Protected, Result
      <3>3. QED
        BY <3>1, <3>2 DEF Abstract!ReadNext
    <2>5. QED
      BY <2>3, <2>4
  <1>2. ASSUME NEW e \in Env, Close(e) PROVE [Abstract!ReadNext]_(Abstract!tvars)
    <2> DEFINE R == {e} \cap Reader
    <2>1. table' = table /\ Protected' = Protected \ R
      BY <1>2 DEF Close, Leave, Protected
    <2>2. Result' = [r \in Reader |-> IF r \in R THEN << "nothing" >> ELSE Result[r]]
      BY <1>2 DEF Close, Result
    <2>3. R \in SUBSET Reader
      OBVIOUS
    <2> HIDE DEF R
    <2>4. QED
      BY <2>1, <2>2, <2>3, Forgets
  <1>3. ASSUME NEW e \in Env, Write(e) PROVE [Abstract!ReadNext]_(Abstract!tvars)
    <2>1. UNCHANGED <<svars, todo, got, outcome>>
      BY <1>3, Statement
    <2>2. Result' = Result
      BY <2>1, SameResult
    <2>3. Protected' \subseteq Protected
      BY <1>3, <2>1 DEF Write, Protected
    <2>4. Abstract!Update
      BY <2>2, <2>3 DEF Abstract!Update, Result, Protected
    <2>5. QED
      BY <2>4 DEF Abstract!ReadNext
  <1>4. ASSUME NEW r \in Reader, StartTree(r) PROVE [Abstract!ReadNext]_(Abstract!tvars)
    <2> DEFINE R == {r}
    <2>1. table' = table /\ Protected' = Protected
      BY <1>4 DEF StartTree, Protected
    <2>2. Result' = [q \in Reader |-> IF q \in R THEN << "nothing" >> ELSE Result[q]]
      BY <1>4 DEF StartTree, Result
    <2>3. R \in SUBSET Reader
      OBVIOUS
    <2> HIDE DEF R
    <2>4. QED
      BY <2>1, <2>2, <2>3, Forgets
  <1>5. ASSUME NEW r \in Reader, FetchNext(r) PROVE [Abstract!ReadNext]_(Abstract!tvars)
    <2>1. table' = table /\ Protected' = Protected
      BY <1>5 DEF FetchNext, Protected
    <2>2. /\ outcome' = outcome /\ outcome[r] = "reading"
          /\ \A q \in Reader \ {r} : got'[q] = got[q]
      BY <1>5 DEF FetchNext
    <2>3. Result' = Result
      BY <2>2 DEF Result
    <2>4. QED
      BY <2>1, <2>3, Stutters
  <1>6. ASSUME NEW r \in Reader, FetchFails(r) PROVE [Abstract!ReadNext]_(Abstract!tvars)
    <2>1. table' = table /\ Protected' = Protected
      BY <1>6 DEF FetchFails, Protected
    <2>2. Result' = [Result EXCEPT ![r] = << "error" >>]
      BY <1>6 DEF FetchFails, Result
    <2>3. Abstract!Read(r)
      BY <2>1, <2>2 DEF Abstract!Read, Abstract!Failed, Result, Protected
    <2>4. QED
      BY <2>3 DEF Abstract!ReadNext
  <1>7. ASSUME NEW r \in Reader, Return(r) PROVE [Abstract!ReadNext]_(Abstract!tvars)
    <2>1. table' = table /\ Protected' = Protected
      BY <1>7 DEF Return, Protected
    <2>2. Result' = [Result EXCEPT ![r] = << "tree", got[r] >>]
      BY <1>7 DEF Return, Result
    <2>3. CASE r \in Protected
      <3>1. Reads(got[r], <<>>, table, Founded(table))
        BY <1>7, <2>3 DEF Return, ReadInv
      <3>2. Abstract!TreeOf(table) = << "tree", got[r] >>
        BY <3>1, ReadsAll
      <3>3. Abstract!Read(r)
        BY <2>1, <2>2, <3>2 DEF Abstract!Read, Result, Protected
      <3>4. QED
        BY <3>3 DEF Abstract!ReadNext
    <2>4. CASE r \notin Protected
      <3>1. Abstract!ReadUnprotected(r)
        BY <2>1, <2>2, <2>4 DEF Abstract!ReadUnprotected, Result, Protected
      <3>2. QED
        BY <3>1 DEF Abstract!ReadNext
    <2>5. QED
      BY <2>3, <2>4
  <1>8. CASE UNCHANGED vars
    <2>1. Result' = Result
      BY <1>8, SameResult DEF vars, rvars
    <2>2. Protected' = Protected /\ table' = table
      BY <1>8 DEF vars, rvars, Protected
    <2>3. QED
      BY <2>1, <2>2, Stutters
  <1>9. QED
    BY <1>1, <1>2, <1>3, <1>4, <1>5, <1>6, <1>7, <1>8 DEF Next

\* getComponentTree reads the tree of one instant, if the lock protects the
\* reader all the time.
THEOREM AtomicRead == Spec => ReadsAtomically
  <1>1. Init => LockInv /\ ReadInv
    BY DEF Init, TableInit, ServiceInit, LockInv, ReadInv, Protected, Reader
  <1>2. TypeOK /\ LockInv /\ [Next]_vars => LockInv'
    BY LockInvStep
  <1>3. TypeOK /\ LockInv /\ ReadInv /\ [Next]_vars => ReadInv'
    BY ReadInvStep
  <1>4. Init => Abstract!ReadInit
    BY DEF Init, TableInit, ServiceInit, Abstract!ReadInit, Abstract!Nothing, Reader
  <1>5. TypeOK /\ LockInv /\ ReadInv /\ [Next]_vars => [Abstract!ReadNext]_(Abstract!tvars)
    BY StepRefines
  <1>6. QED
    BY <1>1, <1>2, <1>3, <1>4, <1>5, Typing, PTL
    DEF Spec, ReadsAtomically, Abstract!ReadSpec
=============================================================================
