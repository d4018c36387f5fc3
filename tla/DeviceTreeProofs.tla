-------------------------- MODULE DeviceTreeProofs --------------------------
(***************************************************************************)
(* For any number of objects and any trees in the database: as long as no  *)
(* System or Component that owns something is copied, every object has one *)
(* owner, so that deleting what the client holds deletes everything once.  *)
(***************************************************************************)
EXTENDS DeviceTree, TLAPS

\* No two pointers point to the same object, ...
OwnedOnce ==
    \A x, y \in Obj : \A p \in owns[x], q \in owns[y] : p[2] = q[2] => x = y /\ p = q

\* ... and none to an object that the client has to delete.
HeldUnowned == \A x \in Obj : \A p \in owns[x] : p[2] \notin held

-----------------------------------------------------------------------------
\* Deleting o reaches o, what it reaches it goes on from, and it reaches no
\* more than any set that has these two properties.
LEMMA ReachDeletes ==
    ASSUME TypeOK, NEW o \in Obj
    PROVE  LET F == Reach({o}, Deletes) IN
           /\ o \in F /\ F \subseteq Obj
           /\ \A x \in F : \A p \in Deletes(x) : p[2] \in F
           /\ \A T \in SUBSET Obj :
                 o \in T /\ (\A x \in T : \A p \in Deletes(x) : p[2] \in T) => F \subseteq T
  <1> DEFINE F == Reach({o}, Deletes)
  <1>1. \A x \in Obj : \A p \in Deletes(x) : p[2] \in Obj
    BY DEF TypeOK, Deletes, Pointer
  <1>2. \A T \in SUBSET Obj :
            Closed(T, Deletes) <=> \A x \in T : \A p \in Deletes(x) : p[2] \in T
    BY DEF Closed
  <1>3. \A x : x \in F <=> x \in Obj /\ \A T \in SUBSET Obj :
                                {o} \subseteq T /\ Closed(T, Deletes) => x \in T
    BY DEF Reach
  <1> HIDE DEF F
  <1>4. o \in F /\ F \subseteq Obj
    BY <1>3
  <1>5. \A x \in F : \A p \in Deletes(x) : p[2] \in F
    BY <1>1, <1>2, <1>3
  <1>6. \A T \in SUBSET Obj :
            o \in T /\ (\A x \in T : \A p \in Deletes(x) : p[2] \in T) => F \subseteq T
    BY <1>2, <1>3
  <1>7. QED
    BY <1>4, <1>5, <1>6 DEF F

\* add_component appends c, and what is in the list behind it, to the list
\* that head is in, which is not c's own.
LEMMA ListJoined ==
    ASSUME TypeOK, NEW head \in Obj, NEW c \in Obj, AddComponent(head, c)
    PROVE  \E o \in Live \ {c}, role \in Role :
               /\ owns' \in [Obj -> SUBSET Pointer]
               /\ \A x \in Obj \ {o, c} : owns'[x] = owns[x]
               /\ owns'[c] \subseteq owns[c]
               /\ \A p \in owns[c] : p \in owns'[c] \/ <<role, p[2]>> \in owns'[o]
               /\ owns[o] \subseteq owns'[o] /\ <<role, c>> \in owns'[o]
               /\ \A p \in owns'[o] :
                     \/ p \in owns[o] \/ p = <<role, c>>
                     \/ \E q \in owns[c] : q \notin owns'[c] /\ p = <<role, q[2]>>
  <1>1. PICK o \in Obj, role \in Role :
            /\ InList(head, o, role)
            /\ owns' = [owns EXCEPT
                 ![c] = {p \in @ : p[1] # "next"},
                 ![o] = @ \cup {<<role, c>>} \cup {<<role, p[2]>> : p \in {q \in owns[c] : q[1] = "next"}}]
    BY DEF AddComponent
  <1>2. head \notin {c} /\ head \notin Targets(c)
    <2>1. \A x : x \in Reach({c}, Owned) <=> x \in Obj /\ \A T \in SUBSET Obj :
                                {c} \subseteq T /\ Closed(T, Owned) => x \in T
      BY DEF Reach
    <2>2. \A T \in SUBSET Obj : {c} \subseteq T /\ Closed(T, Owned) => Targets(c) \subseteq T
      BY DEF Closed, Owned, Targets
    <2>3. Targets(c) \subseteq Obj
      BY DEF TypeOK, Targets, Pointer
    <2>4. c \in Reach({c}, Owned) /\ Targets(c) \subseteq Reach({c}, Owned)
      BY <2>1, <2>2, <2>3
    <2>5. QED
      BY <2>4 DEF AddComponent
  <1>3. o \in Live \ {c}
    BY <1>1, <1>2 DEF InList, Targets, TypeOK, Live, AddComponent
  <1>4. /\ owns'[c] = {p \in owns[c] : p[1] # "next"}
        /\ owns'[o] = owns[o] \cup {<<role, c>>}
                        \cup {<<role, p[2]>> : p \in {q \in owns[c] : q[1] = "next"}}
        /\ \A x \in Obj \ {o, c} : owns'[x] = owns[x]
    BY <1>1, <1>3 DEF TypeOK
  <1>5. owns' \in [Obj -> SUBSET Pointer]
    <2>1. owns'[o] \subseteq Pointer /\ owns'[c] \subseteq Pointer
      BY <1>1, <1>4 DEF TypeOK, Pointer
    <2>2. QED
      BY <1>1, <1>4, <2>1 DEF TypeOK
  <1>6. QED
    BY <1>3, <1>4, <1>5

\* Every pointer is to something that was allocated.
Allocated == \A x \in Obj : \A p \in owns[x] : p[2] < next

\* Type correctness.  (Whether what is freed was allocated is decided by the
\* pointers to it.)
LEMMA TypingInv == Spec => [](TypeOK /\ Allocated)
  <1> DEFINE T == TypeOK /\ Allocated
  <1>0. Init => Allocated
    BY DEF Init, Allocated
  <1>1. Init => TypeOK
    <2> SUFFICES ASSUME Init PROVE TypeOK
      OBVIOUS
    <2>1. Live = {}
      BY DEF Init, Live
    <2>2. next \in 1 .. MaxObj + 1 /\ \A x \in Obj : x >= next
      BY BoundAssumption DEF Init, Obj
    <2>3. QED
      BY <2>1, <2>2 DEF Init, TypeOK
  <1>2. T /\ [Next]_vars => TypeOK'
    <2> SUFFICES ASSUME TypeOK, Allocated, [Next]_vars PROVE TypeOK'
      OBVIOUS
    <2> USE BoundAssumption
    <2> USE DEF TypeOK, Obj, Live, Pointer, Class, CStruct
    <2>1. ASSUME NEW t \in Tree, NEW lang \in {"C", "C++"}, NEW m \in 1 .. t.size,
                 Made(t, m, lang)
          PROVE  /\ kind' \in [Obj -> Class \cup CStruct \cup {"none", "freed"}]
                 /\ owns' \in [Obj -> SUBSET Pointer]
                 /\ next' \in 1 .. MaxObj + 1
                 /\ \A x \in Obj : kind'[x] = "none" <=> x >= next'
                 /\ New(m) \subseteq Live' /\ Live \subseteq Live'
                 /\ \A x \in Obj \ Live' : owns'[x] = {}
      <3>1. t.size \in Obj /\ t.class \in [1 .. t.size -> Class]
        BY TreeAssumption
      <3>2. \A x \in New(m) : ClassIn(lang, t.class[x - next + 1]) \in Class \cup CStruct
        <4>1. \A class \in Class : ClassIn(lang, class) \in Class \cup CStruct
          BY DEF ClassIn, InC
        <4>2. \A x \in New(m) : x - next + 1 \in 1 .. t.size
          BY <3>1 DEF New
        <4>3. QED
          BY <3>1, <4>1, <4>2
      <3>3. New(m) \subseteq Obj /\ next + m \in 1 .. MaxObj + 1
        BY <2>1, <3>1 DEF Made, New
      <3>4. \A x \in New(m) : x >= next /\ x < next + m
        BY DEF New
      <3>5. \A x \in Obj : x \in New(m) <=> next <= x /\ x < next + m
        BY DEF New
      <3>6. kind' \in [Obj -> Class \cup CStruct \cup {"none", "freed"}]
        BY <2>1, <3>2 DEF Made
      <3>7. owns' \in [Obj -> SUBSET Pointer]
        BY <2>1, <3>3 DEF Made
      <3>8. \A x \in Obj : kind'[x] = "none" <=> x >= next'
        <4>1. \A x \in New(m) : kind'[x] # "none"
          BY <2>1, <3>2, <3>3 DEF Made
        <4>2. \A x \in Obj \ New(m) : kind'[x] = kind[x]
          BY <2>1 DEF Made
        <4>3. next' = next + m
          BY <2>1 DEF Made
        <4>4. QED
          BY <3>1, <3>5, <4>1, <4>2, <4>3
      <3>9. New(m) \subseteq Live' /\ Live \subseteq Live'
        BY <2>1, <3>2, <3>3 DEF Made
      <3>10. \A x \in Obj \ Live' : owns'[x] = {}
        BY <2>1, <3>9 DEF Made
      <3>11. QED
        BY <2>1, <3>3, <3>6, <3>7, <3>8, <3>9, <3>10 DEF Made
    <2>2. ASSUME NEW t \in Tree, NEW lang \in {"C", "C++"}, Fetch(t, lang) PROVE TypeOK'
      <3>1. t.size \in Obj
        BY TreeAssumption
      <3>2. next \in New(t.size)
        BY <2>2, <3>1 DEF Fetch, Made, New
      <3>3. Made(t, t.size, lang) /\ t.size \in 1 .. t.size
        BY <2>2, <3>1 DEF Fetch
      <3> HIDE DEF Live
      <3>4. QED
        BY <2>1, <2>2, <3>2, <3>3 DEF Fetch
    <2>3. ASSUME NEW t \in Tree, FetchThrows(t) PROVE TypeOK'
      BY <2>1, <2>3 DEF FetchThrows, New
    <2>4. CASE NewSystem
      <3> HIDE DEF Live
      <3> DEFINE item == next + 1
                 last == next + 2
      <3>1. next \in Obj /\ item \in Obj /\ last \in Obj
        BY <2>4 DEF NewSystem
      <3>2. next # item /\ next # last /\ item # last /\ next' = last + 1
        BY <2>4 DEF NewSystem
      <3> HIDE DEF item, last
      <3>3. /\ kind' = [kind EXCEPT ![next] = "system", ![item] = "dataitem",
                                   ![last] = "dataitem"]
            /\ owns' = [owns EXCEPT ![next] = {<<"device", last>>}]
            /\ held' = held \cup {next} /\ leaked' = leaked \cup {item}
            /\ UNCHANGED <<broken, shared>>
        BY <2>4 DEF NewSystem, item, last
      <3>4. Live' = Live \cup {next, item, last}
        BY <3>1, <3>2, <3>3 DEF Live
      <3>5. \A x \in Obj : kind'[x] = "none" <=> x >= next'
        <4>1. \A x \in Obj : x >= next' <=> x >= next /\ x \notin {next, item, last}
          BY <3>1, <3>2 DEF item, last
        <4>2. QED
          BY <3>1, <3>2, <3>3, <4>1
      <3>6. next' \in 1 .. MaxObj + 1
        BY <3>1, <3>2
      <3>7. QED
        BY <3>1, <3>2, <3>3, <3>4, <3>5, <3>6 DEF Role
    <2>5. ASSUME NEW o \in Obj, NEW role \in Role, AddItem(o, role) PROVE TypeOK'
      BY <2>5 DEF AddItem
    <2>6. ASSUME NEW o \in Obj, NEW c \in Obj, AddLeaf(o, c) PROVE TypeOK'
      BY <2>6 DEF AddLeaf, Role
    <2>7. ASSUME NEW o \in Obj, NEW c \in Obj, RemoveLeaf(o, c) PROVE TypeOK'
      BY <2>7 DEF RemoveLeaf, Role
    <2>8. ASSUME NEW o \in Obj, NEW c \in Obj, Assign(o, c) PROVE TypeOK'
      BY <2>8 DEF Assign, CopyToMe
    <2>9. ASSUME NEW o \in Obj, Copy(o) PROVE TypeOK'
      BY <2>9 DEF Copy, CopyToMe
    <2>10. ASSUME NEW o \in Obj, Delete(o) PROVE TypeOK'
      <3> HIDE DEF Live
      <3> DEFINE F == Reach({o}, Deletes)
                 lost == UNION {Lost(x) : x \in F}
      <3>1. lost \subseteq Obj
        BY DEF Lost, Left, Reach, TypeOK, Pointer
      <3> HIDE DEF F, lost
      <3>2. /\ kind' = [x \in Obj |-> IF x \in F THEN "freed" ELSE kind[x]]
            /\ owns' = [x \in Obj |-> IF x \in F THEN {} ELSE owns[x]]
            /\ held' = held \ F /\ leaked' = leaked \cup lost
            /\ broken' \in {"twice", "no"} /\ UNCHANGED <<next, shared>>
        BY <2>10 DEF Delete, F, lost
      <3>3. Live' = Live \ F
        BY <3>2 DEF Live
      <3>4. \A x \in F : kind[x] # "none"
        <4> DEFINE Old == {x \in Obj : x < next}
        <4>1. o \in Old
          BY <2>10 DEF Delete, Live
        <4>2. \A x \in Old : \A p \in Deletes(x) : p[2] \in Old
          BY DEF Allocated, Deletes
        <4>3. Old \in SUBSET Obj
          OBVIOUS
        <4> HIDE DEF Old
        <4>4. F \subseteq Old
          BY <4>1, <4>2, <4>3, ReachDeletes DEF F
        <4>5. QED
          BY <4>4 DEF Old
      <3>5. QED
        BY <3>1, <3>2, <3>3, <3>4
    <2>11. ASSUME NEW o \in Obj, RemoveLeafAtSize(o) PROVE TypeOK'
      BY <2>11 DEF RemoveLeafAtSize
    <2>12. ASSUME NEW o \in Obj, NEW role \in Role, Unpack(o, role) PROVE TypeOK'
      <3> HIDE DEF Live
      <3> DEFINE lost == {p[2] : p \in {q \in owns[o] : q[1] = "device"}}
                 role2 == IF kind[o] = "System" THEN "device" ELSE role
                 new == {p \in owns[o] : p[1] # "device"} \cup {<<role2, next>>}
      <3>1. next \in Obj /\ kind[o] \in {"System", "Component"} /\ role2 \in Role
        BY <2>12 DEF Unpack, Role
      <3>2. lost \subseteq Obj /\ new \subseteq Pointer
        <4> HIDE DEF role2
        <4>1. QED
          BY <3>1
      <3>3. /\ kind' = [kind EXCEPT ![next] = "DataItem"]
            /\ owns' = [owns EXCEPT ![o] = new]
            /\ leaked' = leaked \cup lost /\ next' = next + 1
            /\ UNCHANGED <<held, broken, shared>>
        BY <2>12 DEF Unpack
      <3> HIDE DEF lost, role2, new
      <3>4. Live' = Live \cup {next} /\ o \in Live
        BY <3>1, <3>3 DEF Live
      <3>5. QED
        BY <3>1, <3>2, <3>3, <3>4
    <2>13. ASSUME NEW o \in Obj, NEW c \in Obj, AddComponent(o, c) PROVE TypeOK'
      <3>1. owns' \in [Obj -> SUBSET Pointer] /\ \A x \in Obj \ Live : owns'[x] = {}
        <4>1. c \in Live
          BY <2>13 DEF AddComponent
        <4> HIDE DEF Live, TypeOK, Obj, Pointer
        <4>2. PICK x \in Live \ {c}, role \in Role :
                 /\ owns' \in [Obj -> SUBSET Pointer]
                 /\ \A y \in Obj \ {x, c} : owns'[y] = owns[y]
                 /\ owns'[c] \subseteq owns[c]
                 /\ \A p \in owns[c] : p \in owns'[c] \/ <<role, p[2]>> \in owns'[x]
                 /\ owns[x] \subseteq owns'[x] /\ <<role, c>> \in owns'[x]
                 /\ \A p \in owns'[x] :
                       \/ p \in owns[x] \/ p = <<role, c>>
                       \/ \E q \in owns[c] : q \notin owns'[c] /\ p = <<role, q[2]>>
          BY <2>13, ListJoined
        <4>3. \A y \in Obj \ Live : owns[y] = {}
          BY DEF TypeOK
        <4>4. QED
          BY <4>1, <4>2, <4>3
      <3>2. QED
        BY <2>13, <3>1 DEF AddComponent
    <2>14. ASSUME NEW o \in Obj, NEW c \in Obj, AssignSystem(o, c) PROVE TypeOK'
      <3>1. owns' = [owns EXCEPT ![o] = owns[c]] /\ leaked' = leaked \cup Targets(o)
        BY <2>14 DEF AssignSystem
      <3>2. Targets(o) \subseteq Obj
        BY DEF Targets
      <3>3. o \in Live /\ shared' \in BOOLEAN /\ UNCHANGED <<kind, next, held, broken>>
        BY <2>14 DEF AssignSystem
      <3>4. Live' = Live
        BY <3>3
      <3> HIDE DEF Live
      <3>5. QED
        BY <3>1, <3>2, <3>3, <3>4
    <2>15. CASE UNCHANGED vars
      BY <2>15 DEF vars
    <2>16. QED
      BY <2>2, <2>3, <2>4, <2>5, <2>6, <2>7, <2>8, <2>9, <2>10, <2>11, <2>12, <2>13, <2>14,
         <2>15 DEF Next
  <1>3. T /\ [Next]_vars => Allocated'
    <2> SUFFICES ASSUME TypeOK, Allocated, [Next]_vars PROVE Allocated'
      OBVIOUS
    <2> USE BoundAssumption
    <2> USE DEF TypeOK, Allocated, Obj, Pointer
    <2>1. ASSUME NEW t \in Tree, NEW lang \in {"C", "C++"}, NEW m \in 1 .. t.size,
                 Made(t, m, lang)
          PROVE  Allocated'
      <3>1. t.size \in Obj
        BY TreeAssumption
      <3>2. next' = next + m /\ \A y \in New(m) : y < next + m
        BY <2>1 DEF Made, New
      <3>3. \A x \in Obj : \A p \in owns'[x] : p \in owns[x] \/ p[2] \in New(m)
        BY <2>1 DEF Made
      <3>4. QED
        BY <3>1, <3>2, <3>3
    <2>2. ASSUME NEW t \in Tree, NEW lang \in {"C", "C++"}, Fetch(t, lang) PROVE Allocated'
      BY <2>1, <2>2, TreeAssumption DEF Fetch
    <2>3. ASSUME NEW t \in Tree, FetchThrows(t) PROVE Allocated'
      BY <2>1, <2>3 DEF FetchThrows
    <2>4. CASE NewSystem
      BY <2>4 DEF NewSystem
    <2>5. ASSUME NEW o \in Obj, NEW role \in Role, AddItem(o, role) PROVE Allocated'
      BY <2>5 DEF AddItem
    <2>6. ASSUME NEW o \in Obj, NEW c \in Obj, AddLeaf(o, c) PROVE Allocated'
      BY <2>6 DEF AddLeaf, Live
    <2>7. ASSUME NEW o \in Obj, NEW c \in Obj, RemoveLeaf(o, c) PROVE Allocated'
      BY <2>7 DEF RemoveLeaf
    <2>8. ASSUME NEW o \in Obj, NEW c \in Obj, Assign(o, c) PROVE Allocated'
      BY <2>8 DEF Assign, CopyToMe
    <2>9. ASSUME NEW o \in Obj, Copy(o) PROVE Allocated'
      BY <2>9 DEF Copy, CopyToMe
    <2>10. ASSUME NEW o \in Obj, Delete(o) PROVE Allocated'
      BY <2>10 DEF Delete
    <2>11. ASSUME NEW o \in Obj, RemoveLeafAtSize(o) PROVE Allocated'
      BY <2>11 DEF RemoveLeafAtSize
    <2>12. ASSUME NEW o \in Obj, NEW role \in Role, Unpack(o, role) PROVE Allocated'
      BY <2>12 DEF Unpack
    <2>13. ASSUME NEW o \in Obj, NEW c \in Obj, AddComponent(o, c) PROVE Allocated'
      <3>1. c < next /\ next' = next
        BY <2>13 DEF AddComponent, Live
      <3>2. PICK x \in Obj, role \in Role :
               owns' = [owns EXCEPT
                   ![c] = {p \in @ : p[1] # "next"},
                   ![x] = @ \cup {<<role, c>>}
                            \cup {<<role, p[2]>> : p \in {q \in owns[c] : q[1] = "next"}}]
        BY <2>13 DEF AddComponent
      <3>3. \A y \in Obj : \A p \in owns'[y] :
               p[2] = c \/ \E z \in Obj : \E q \in owns[z] : q[2] = p[2]
        BY <3>2
      <3>4. QED
        BY <3>1, <3>3
    <2>14. ASSUME NEW o \in Obj, NEW c \in Obj, AssignSystem(o, c) PROVE Allocated'
      BY <2>14 DEF AssignSystem
    <2>15. CASE UNCHANGED vars
      BY <2>15 DEF vars
    <2>16. QED
      BY <2>2, <2>3, <2>4, <2>5, <2>6, <2>7, <2>8, <2>9, <2>10, <2>11, <2>12, <2>13, <2>14,
         <2>15 DEF Next
  <1>4. QED
    BY <1>0, <1>1, <1>2, <1>3, PTL DEF Spec

\* Type correctness.
THEOREM Typing == Spec => []TypeOK
  BY TypingInv, PTL

-----------------------------------------------------------------------------
\* New objects are owned by new objects, once, and the root of the tree by
\* none.
LEMMA MadeOwned ==
    ASSUME TypeOK, Allocated, OwnedOnce,
           NEW t \in Tree, NEW lang \in {"C", "C++"}, NEW m \in 1 .. t.size, Made(t, m, lang)
    PROVE  /\ OwnedOnce'
           /\ \A x \in Obj : \A p \in owns'[x] : p \in owns[x] \/ p[2] \in New(m) \ {next}
           /\ \A x \in Obj : x \in Live' <=> x \in Live \/ x \in New(m)
           /\ \A x \in Obj : owns[x] \subseteq owns'[x]
  <1> USE DEF TypeOK, Pointer
  <1>1. t.size \in 1 .. MaxObj /\ MaxObj \in Nat
    BY TreeAssumption, BoundAssumption DEF Obj
  <1>2. \A x \in New(m) : x - next + 1 \in 1 .. t.size /\ x \in Int /\ next \in Int
    BY <1>1 DEF New, Obj
  <1>3. /\ \A x \in Obj \ New(m) : owns'[x] = owns[x]
        /\ \A x \in New(m) : owns'[x] = {p \in Role \X New(m) :
                                 <<p[1], p[2] - next + 1>> \in t.owns[x - next + 1]}
    BY DEF Made, New
  <1>4. \A x \in New(m) : owns[x] = {} /\ x \in Obj /\ kind[x] = "none"
    BY DEF New, Live
  <1>5. \A x \in Obj : \A p \in owns[x] : p[2] \notin New(m)
    BY DEF Allocated, New, Obj
  <1>6. \A x \in New(m) : \A p \in owns'[x] : p[2] \in New(m) \ {next}
    <2> SUFFICES ASSUME NEW x \in New(m), NEW p \in owns'[x] PROVE p[2] \in New(m) \ {next}
      OBVIOUS
    <2>1. p \in Role \X New(m) /\ <<p[1], p[2] - next + 1>> \in t.owns[x - next + 1]
      BY <1>3
    <2>2. t.owns[x - next + 1] \subseteq Role \X (2 .. t.size)
      BY <1>2, TreeAssumption
    <2>3. p[2] - next + 1 \in 2 .. t.size
      BY <2>1, <2>2
    <2>4. QED
      BY <2>1, <2>3, <1>2
  <1>7. ASSUME NEW x \in New(m), NEW y \in New(m), NEW p \in owns'[x], NEW q \in owns'[y],
               p[2] = q[2]
        PROVE  x = y /\ p = q
    <2> DEFINE i == x - next + 1
               j == y - next + 1
               pp == <<p[1], p[2] - next + 1>>
               qq == <<q[1], q[2] - next + 1>>
    <2>1. p \in Role \X New(m) /\ q \in Role \X New(m) /\ pp \in t.owns[i] /\ qq \in t.owns[j]
      BY <1>3
    <2>2. i \in 1 .. t.size /\ j \in 1 .. t.size
      BY <1>2
    <2>3. pp[2] = qq[2]
      BY <1>7
    <2>4. i = j /\ pp = qq
      <3> HIDE DEF i, j, pp, qq
      <3>1. QED
        BY <2>1, <2>2, <2>3, OwnerAssumption
    <2>5. x = y
      BY <1>2, <2>4
    <2>6. p[1] = q[1]
      BY <2>4
    <2>7. QED
      BY <1>7, <2>1, <2>5, <2>6
  <1>8. OwnedOnce'
    BY <1>3, <1>5, <1>6, <1>7 DEF OwnedOnce
  <1>9. \A x \in Obj : x \in Live' <=> x \in Live \/ x \in New(m)
    <2>1. \A class \in Class : ClassIn(lang, class) \notin {"none", "freed"}
      BY DEF ClassIn, InC, Class
    <2>2. \A x \in New(m) : kind'[x] \notin {"none", "freed"}
      BY <1>2, <1>4, <2>1, TreeAssumption DEF Made
    <2>3. \A x \in Obj \ New(m) : kind'[x] = kind[x]
      BY DEF Made
    <2>4. QED
      BY <1>4, <2>2, <2>3 DEF Live
  <1>10. QED
    BY <1>3, <1>4, <1>6, <1>8, <1>9

\* No pointer of a live object dangles.
Pointed == \A x \in Obj : \A p \in owns[x] : p[2] \in Live

\* Deleting what the client holds meets every object once, and the only
\* pointers to what is deleted are in what is deleted.
LEMMA DeleteOwned ==
    ASSUME TypeOK, OwnedOnce, HeldUnowned, Pointed, NEW o \in held
    PROVE  LET F == Reach({o}, Deletes) IN
           /\ o \in F /\ F \subseteq Live
           /\ \A x \in F : \A p \in Deletes(x) : p[2] \in F
           /\ \A x \in Obj \ F : \A p \in owns[x] : p[2] \notin F
           /\ ~FreedTwice(o, F)
  <1> DEFINE F == Reach({o}, Deletes)
  <1>1. o \in Obj /\ o \in Live
    BY DEF TypeOK, Live
  <1>2. /\ o \in F /\ F \subseteq Obj
        /\ \A x \in F : \A p \in Deletes(x) : p[2] \in F
        /\ \A T \in SUBSET Obj :
              o \in T /\ (\A x \in T : \A p \in Deletes(x) : p[2] \in T) => F \subseteq T
    BY <1>1, ReachDeletes
  <1> HIDE DEF F
  <1>3. \A x \in Obj : Deletes(x) \subseteq owns[x]
    BY DEF Deletes
  <1>4. F \subseteq Live
    <2>1. Live \in SUBSET Obj
      BY DEF Live
    <2>2. \A x \in Live : \A p \in Deletes(x) : p[2] \in Live
      BY <1>3, <2>1 DEF Pointed
    <2>3. QED
      BY <1>1, <1>2, <2>1, <2>2
  <1>5. ASSUME NEW x \in Obj \ F, NEW p \in owns[x], p[2] \in F PROVE FALSE
    <2> DEFINE G == F \ {p[2]}
    <2>1. o \in G
      BY <1>2, <1>5 DEF HeldUnowned
    <2>2. \A y \in G : \A q \in Deletes(y) : q[2] \in G
      BY <1>2, <1>3, <1>5 DEF OwnedOnce
    <2>3. G \in SUBSET Obj
      BY <1>2
    <2> HIDE DEF G
    <2>4. F \subseteq G
      BY <1>2, <2>1, <2>2, <2>3
    <2>5. QED
      BY <1>5, <2>4 DEF G
  <1>6. ~FreedTwice(o, F)
    <2>1. \A x \in F : kind[x] # "freed"
      BY <1>4 DEF Live
    <2>2. \A x \in F : \A p \in Deletes(x) : p[2] # o
      BY <1>2, <1>3 DEF HeldUnowned
    <2>3. \A x, y \in F : \A p \in Deletes(x), q \in Deletes(y) :
              p[2] = q[2] => <<x, p>> = <<y, q>>
      BY <1>2, <1>3 DEF OwnedOnce
    <2>4. QED
      BY <2>1, <2>2, <2>3 DEF FreedTwice
  <1>7. QED
    BY <1>2, <1>4, <1>5, <1>6 DEF F

-----------------------------------------------------------------------------
\* What is not to be deleted by the client is owned, or lost.
Accounted == \A x \in Live :
        x \in held \cup leaked \/ \E y \in Obj : \E p \in owns[y] : p[2] = x

Ownership == ~shared => OwnedOnce /\ HeldUnowned /\ Pointed /\ Accounted

IInv == TypeOK /\ Allocated /\ Ownership

\* Only copying and assigning what owns something makes a second pointer, and
\* sets shared.
LEMMA OwnershipKept == IInv /\ [Next]_vars => Ownership' /\ (FreedOnce => FreedOnce')
  <1> DEFINE Owned1 == OwnedOnce /\ HeldUnowned /\ Pointed /\ Accounted
             Goal == Ownership' /\ (FreedOnce => FreedOnce')
  <1>u. IInv /\ UNCHANGED vars => Goal
    BY DEF vars, IInv, Ownership, OwnedOnce, HeldUnowned, Pointed, Accounted, FreedOnce, Live
  <1> SUFFICES ASSUME TypeOK, Allocated, Ownership, broken = "no", Next PROVE Goal
    BY <1>u DEF IInv, Next
  <1>s. ASSUME shared => shared', ~shared' /\ Owned1 => Owned1', broken' = "twice" => shared'
        PROVE Goal
    BY <1>s DEF Ownership, FreedOnce
  <1> HIDE DEF Goal
  <1>t. held \subseteq Live /\ Live \subseteq Obj
    BY DEF TypeOK, Live
  <1>n. next \notin Live /\ (\A x \in Obj : \A p \in owns[x] : p[2] # next) /\ (next \in
        Obj => owns[next] = {})
    BY DEF TypeOK, Allocated, Live, Obj, Pointer
  <1>1. ASSUME NEW t \in Tree, NEW lang \in {"C", "C++"}, NEW m \in 1 .. t.size,
               Made(t, m, lang), OwnedOnce, HeldUnowned, Pointed, Accounted
        PROVE  /\ OwnedOnce' /\ Pointed'
               /\ \A x \in Obj : \A p \in owns'[x] : p[2] \notin held \cup {next}
               /\ \A x \in Live :
                       x \in held \cup leaked \/ \E y \in Obj : \E p \in owns'[y] : p[2] = x
               /\ \A x \in Live' : x \in Live \/ x \in New(m)
    <2>1. \A x \in New(m) : x \notin Live
      BY DEF New, TypeOK, Live
    <2>2. QED
      <3>1. /\ OwnedOnce'
            /\ \A x \in Obj : \A p \in owns'[x] : p \in owns[x] \/ p[2] \in New(m) \ {next}
            /\ \A x \in Obj : x \in Live' <=> x \in Live \/ x \in New(m)
            /\ \A x \in Obj : owns[x] \subseteq owns'[x]
        BY <1>1, MadeOwned
      <3>2. New(m) \subseteq Obj /\ Live' \subseteq Obj
        BY DEF New, Live
      <3>3. Pointed'
        BY <1>1, <1>t, <3>1, <3>2 DEF Pointed
      <3>4. \A x \in Obj : \A p \in owns'[x] : p[2] \notin held \cup {next}
        BY <1>1, <1>t, <1>n, <2>1, <3>1 DEF HeldUnowned
      <3>5. \A x \in Live :
              x \in held \cup leaked \/ \E y \in Obj : \E p \in owns'[y] : p[2] = x
        BY <1>1, <3>1 DEF Accounted
      <3>6. QED
        BY <3>1, <3>2, <3>3, <3>4, <3>5
  <1>2. ASSUME NEW t \in Tree, NEW lang \in {"C", "C++"}, Fetch(t, lang) PROVE Goal
    <2>1. t.size \in 1 .. t.size /\ Made(t, t.size, lang) /\ t.size \in Obj
      BY <1>2, TreeAssumption DEF Fetch, Obj
    <2>2. \A x \in New(t.size) : x = next \/ \E y \in Obj : \E p \in owns'[y] : p[2] = x
      <3> SUFFICES ASSUME NEW x \in New(t.size), x # next
                   PROVE  \E y \in Obj : \E p \in owns'[y] : p[2] = x
        OBVIOUS
      <3> DEFINE k == x - next + 1
      <3>1. k \in 2 .. t.size /\ next \in Nat \ {0} /\ x \in Int
        BY <2>1 DEF New, TypeOK, Obj
      <3>2. PICK j \in 1 .. t.size : \E p \in t.owns[j] : p[2] = k
        BY <3>1, OwnerAssumption
      <3>3. PICK p \in t.owns[j] : p[2] = k
        BY <3>2
      <3>4. p \in Role \X (2 .. t.size)
        BY <3>3, TreeAssumption
      <3> DEFINE y == next + j - 1
      <3>5. y \in New(t.size) /\ y - next + 1 = j
        <4>1. next + t.size - 1 \in 1 .. MaxObj /\ MaxObj \in Nat /\ t.size \in Nat
          BY <2>1, BoundAssumption DEF Made, Obj
        <4>2. j \in Nat /\ 1 <= j /\ j <= t.size
          BY <3>2, <4>1
        <4> HIDE DEF k
        <4>3. y \in 1 .. MaxObj /\ next <= y /\ y < next + t.size /\ y - next + 1 = j
          BY <3>1, <4>1, <4>2
        <4>4. QED
          BY <4>3 DEF New, Obj
      <3>6. owns'[y] = {r \in Role \X New(t.size) : <<r[1], r[2] - next + 1>> \in t.owns[j]}
        BY <2>1, <3>5 DEF Made, New
      <3>7. <<p[1], x>> \in owns'[y]
        BY <3>3, <3>4, <3>6
      <3>8. y \in Obj
        BY <3>5 DEF New
      <3>9. QED
        BY <3>7, <3>8
    <2>3. ASSUME Owned1 PROVE Owned1'
      BY <1>1, <1>2, <2>1, <2>2, <2>3 DEF Fetch, HeldUnowned, Accounted
    <2>4. QED
      BY <1>2, <1>s, <2>3 DEF Fetch
  <1>3. ASSUME NEW t \in Tree, FetchThrows(t) PROVE Goal
    <2>1. ASSUME Owned1 PROVE Owned1'
      <3>1. PICK m \in 1 .. t.size : Made(t, m, "C++") /\ leaked' = leaked \cup New(m)
        BY <1>3 DEF FetchThrows
      <3>2. QED
        BY <1>1, <1>3, <2>1, <3>1 DEF FetchThrows, HeldUnowned, Accounted
    <2>2. QED
      BY <1>3, <1>s, <2>1 DEF FetchThrows
  <1>4. CASE NewSystem
    <2> DEFINE item == next + 1
               last == next + 2
    <2>1. /\ next \in Obj /\ item \in Obj /\ last \in Obj
          /\ next # item /\ next # last /\ item # last
          /\ item \notin Live /\ last \notin Live
      <3>1. next + 2 \in 1 .. MaxObj /\ next \in 1 .. MaxObj + 1 /\ MaxObj \in Nat
        BY <1>4, BoundAssumption DEF NewSystem, TypeOK, Obj
      <3>2. next \in Obj /\ item \in Obj /\ last \in Obj /\ item >= next /\ last >= next
        BY <3>1 DEF Obj
      <3>3. item \notin Live /\ last \notin Live
        BY <3>2 DEF TypeOK, Live
      <3>4. QED
        BY <3>1, <3>2, <3>3
    <2> HIDE DEF item, last
    <2>2. /\ kind' = [kind EXCEPT ![next] = "system", ![item] = "dataitem",
                                   ![last] = "dataitem"]
          /\ owns' = [owns EXCEPT ![next] = {<<"device", last>>}]
          /\ held' = held \cup {next} /\ leaked' = leaked \cup {item}
          /\ UNCHANGED <<broken, shared>>
      BY <1>4 DEF NewSystem, item, last
    <2>3. Live' = Live \cup {next, item, last}
      BY <2>1, <2>2 DEF Live, TypeOK
    <2>4. /\ owns'[next] = {<<"device", last>>}
          /\ \A x \in Obj \ {next} : owns'[x] = owns[x]
      BY <2>1, <2>2 DEF TypeOK
    <2>5. ASSUME Owned1 PROVE Owned1'
      <3>1. OwnedOnce'
        BY <1>t, <2>1, <2>4, <2>5 DEF OwnedOnce, Pointed
      <3>2. HeldUnowned'
        BY <1>t, <1>n, <2>1, <2>2, <2>4, <2>5 DEF HeldUnowned
      <3>3. Pointed'
        BY <2>3, <2>4, <2>5 DEF Pointed
      <3>4. Accounted'
        <4>1. \E p \in owns'[next] : p[2] = last
          BY <2>4
        <4>2. \A x \in Live :
                x \in held \cup leaked \/ \E y \in Obj : \E p \in owns'[y] : p[2] = x
          BY <1>n, <2>1, <2>4, <2>5 DEF Accounted
        <4>3. QED
          BY <2>1, <2>2, <2>3, <4>1, <4>2 DEF Accounted
      <3>5. QED
        BY <3>1, <3>2, <3>3, <3>4
    <2>6. QED
      BY <1>s, <2>2, <2>5
  <1>5. ASSUME NEW o \in Obj, NEW role \in Role, AddItem(o, role) PROVE Goal
    <2>1. Live' = Live \cup {next} /\ next \in Obj /\ o \in Live /\ o # next
      BY <1>5, <1>n DEF AddItem, Live, TypeOK
    <2>2. /\ owns'[o] = owns[o] \cup {<<role, next>>}
          /\ \A x \in Obj \ {o} : owns'[x] = owns[x]
      BY <1>5 DEF AddItem, TypeOK
    <2>3. ASSUME Owned1 PROVE Owned1'
      <3>1. OwnedOnce'
        BY <1>5, <1>t, <1>n, <2>1, <2>2, <2>3 DEF AddItem, OwnedOnce, HeldUnowned, Pointed
      <3>2. HeldUnowned'
        BY <1>5, <1>t, <1>n, <2>1, <2>2, <2>3 DEF AddItem, HeldUnowned
      <3>3. Pointed'
        BY <1>5, <1>t, <1>n, <2>1, <2>2, <2>3 DEF AddItem, Pointed
      <3>4. Accounted'
        <4>1. \A y \in Obj : owns[y] \subseteq owns'[y]
          BY <2>2
        <4>2. \E p \in owns'[o] : p[2] = next
          <5>1. <<role, next>> \in owns'[o] /\ <<role, next>>[2] = next
            BY <2>2
          <5>2. QED
            BY <5>1
        <4>3. held' \cup leaked' = held \cup leaked
          BY <1>5, <2>1 DEF AddItem
        <4>4. \A x \in Live :
                x \in held \cup leaked \/ \E y \in Obj : \E p \in owns'[y] : p[2] = x
          BY <2>3, <4>1 DEF Accounted
        <4>5. QED
          BY <2>1, <4>2, <4>3, <4>4 DEF Accounted
      <3>5. QED
        BY <3>1, <3>2, <3>3, <3>4
    <2>4. QED
      BY <1>5, <1>s, <2>3 DEF AddItem
  <1>6. ASSUME NEW o \in Obj, NEW c \in Obj, AddLeaf(o, c) PROVE Goal
    <2>1. Live' = Live /\ c \in held /\ held' = held \ {c}
      BY <1>6 DEF AddLeaf, Live
    <2>2. /\ owns'[o] = owns[o] \cup {<<"leaf", c>>}
          /\ \A x \in Obj \ {o} : owns'[x] = owns[x]
      BY <1>6 DEF AddLeaf, TypeOK
    <2>3. ASSUME Owned1 PROVE Owned1'
      <3>1. OwnedOnce'
        BY <1>6, <1>t, <2>1, <2>2, <2>3 DEF AddLeaf, OwnedOnce, HeldUnowned, Pointed
      <3>2. HeldUnowned'
        BY <1>6, <1>t, <2>1, <2>2, <2>3 DEF AddLeaf, HeldUnowned
      <3>3. Pointed'
        BY <1>6, <1>t, <2>1, <2>2, <2>3 DEF AddLeaf, Pointed
      <3>4. Accounted'
        <4>1. \A y \in Obj : owns[y] \subseteq owns'[y]
          BY <2>2
        <4>2. \E p \in owns'[o] : p[2] = c
          <5>1. <<"leaf", c>> \in owns'[o] /\ <<"leaf", c>>[2] = c
            BY <2>2
          <5>2. QED
            BY <5>1
        <4>3. held' \cup leaked' = (held \ {c}) \cup leaked
          BY <1>6, <2>1 DEF AddLeaf
        <4>4. \A x \in Live :
                x \in held \cup leaked \/ \E y \in Obj : \E p \in owns'[y] : p[2] = x
          BY <2>3, <4>1 DEF Accounted
        <4>5. QED
          BY <2>1, <4>2, <4>3, <4>4 DEF Accounted
      <3>5. QED
        BY <3>1, <3>2, <3>3, <3>4
    <2>4. QED
      BY <1>6, <1>s, <2>3 DEF AddLeaf
  <1>7. ASSUME NEW o \in Obj, NEW c \in Obj, RemoveLeaf(o, c) PROVE Goal
    <2>1. Live' = Live /\ held' = held \cup {c}
      BY <1>7 DEF RemoveLeaf, Live
    <2>2. /\ <<"leaf", c>> \in owns[o] /\ owns'[o] = owns[o] \ {<<"leaf", c>>}
          /\ \A x \in Obj \ {o} : owns'[x] = owns[x]
      BY <1>7 DEF RemoveLeaf, TypeOK
    <2>3. ASSUME Owned1 PROVE Owned1'
      <3>1. \A x \in Obj : \A p \in owns[x] : p[2] = c => x = o /\ p = <<"leaf", c>>
        BY <2>2, <2>3 DEF OwnedOnce
      <3>2. QED
        BY <1>7, <2>1, <2>2, <2>3, <3>1
        DEF RemoveLeaf, OwnedOnce, HeldUnowned, Pointed, Accounted
    <2>4. QED
      BY <1>7, <1>s, <2>3 DEF RemoveLeaf
  <1>8. ASSUME NEW o \in Obj, NEW c \in Obj, Assign(o, c) PROVE Goal
    <2>1. CASE owns[c] # {}
      BY <1>8, <1>s, <2>1 DEF Assign, CopyToMe
    <2>2. CASE owns[c] = {}
      <3>1. owns' = owns /\ Live' = Live
        BY <1>8, <2>2 DEF Assign, CopyToMe, TypeOK, Live
      <3>2. Owned1 => Owned1'
        BY <1>8, <3>1 DEF Assign, OwnedOnce, HeldUnowned, Pointed, Accounted
      <3>3. QED
        BY <1>8, <1>s, <2>2, <3>2 DEF Assign, CopyToMe
    <2>3. QED
      BY <2>1, <2>2
  <1>9. ASSUME NEW c \in Obj, Copy(c) PROVE Goal
    <2>1. CASE owns[c] # {}
      BY <1>9, <1>s, <2>1 DEF Copy, CopyToMe
    <2>2. CASE owns[c] = {}
      <3>1. owns' = owns /\ Live' = Live \cup {next}
        BY <1>9, <2>2 DEF Copy, CopyToMe, TypeOK, Live
      <3>2. Owned1 => Owned1'
        BY <1>9, <1>n, <3>1 DEF Copy, OwnedOnce, HeldUnowned, Pointed, Accounted
      <3>3. QED
        BY <1>9, <1>s, <2>2, <3>2 DEF Copy, CopyToMe
    <2>3. QED
      BY <2>1, <2>2
  <1>10. ASSUME NEW o \in Obj, Delete(o) PROVE Goal
    <2> DEFINE F == Reach({o}, Deletes)
               lost == UNION {Lost(x) : x \in F}
    <2>1. /\ o \in held
          /\ owns' = [x \in Obj |-> IF x \in F THEN {} ELSE owns[x]]
          /\ kind' = [x \in Obj |-> IF x \in F THEN "freed" ELSE kind[x]]
          /\ held' = held \ F /\ leaked' = leaked \cup lost /\ shared' = shared
          /\ broken' = IF FreedTwice(o, F) THEN "twice" ELSE "no"
      BY <1>10 DEF Delete
    <2>2. ASSUME Owned1
          PROVE  /\ F \subseteq Live /\ ~FreedTwice(o, F)
                 /\ \A x \in F : \A p \in Deletes(x) : p[2] \in F
                 /\ \A x \in Obj \ F : \A p \in owns[x] : p[2] \notin F
      BY <2>1, <2>2, DeleteOwned
    <2>3. \A x \in F : \A p \in owns[x] : p \in Deletes(x) \/ p[2] \in lost
      <3>1. \A x : \A p \in owns[x] : p \in Deletes(x) \/ p[2] \in Lost(x)
        BY DEF Deletes, Lost
      <3> HIDE DEF F
      <3>2. \A x \in F : Lost(x) \subseteq lost
        OBVIOUS
      <3>3. QED
        BY <3>1, <3>2
    <2> HIDE DEF F, lost
    <2>4. Live' = Live \ F
      BY <2>1 DEF Live
    <2>5. ASSUME Owned1 PROVE Owned1'
      <3>1. OwnedOnce' /\ HeldUnowned' /\ Pointed'
        BY <2>1, <2>2, <2>4, <2>5 DEF OwnedOnce, HeldUnowned, Pointed
      <3>2. Accounted'
        BY <1>t, <2>1, <2>2, <2>3, <2>4, <2>5 DEF Accounted
      <3>3. QED
        BY <3>1, <3>2
    <2>6. QED
      <3>1. CASE shared
        BY <1>s, <2>1, <3>1
      <3>2. CASE ~shared
        BY <1>s, <2>1, <2>2, <2>5, <3>2 DEF Ownership
      <3>3. QED
        BY <3>1, <3>2
  <1>11. ASSUME NEW o \in Obj, RemoveLeafAtSize(o) PROVE Goal
    <2>1. Owned1 => Owned1'
      BY <1>11 DEF RemoveLeafAtSize, OwnedOnce, HeldUnowned, Pointed, Accounted, Live
    <2>2. QED
      BY <1>11, <1>s, <2>1 DEF RemoveLeafAtSize
  <1>12. ASSUME NEW o \in Obj, NEW role \in Role, Unpack(o, role) PROVE Goal
    <2>1. Live' = Live \cup {next} /\ next \in Obj /\ o \in Live /\ o # next
      BY <1>12, <1>n DEF Unpack, Live, TypeOK
    <2>2. PICK new \in Role :
            /\ owns'[o] = {p \in owns[o] : p[1] # "device"} \cup {<<new, next>>}
            /\ \A x \in Obj \ {o} : owns'[x] = owns[x]
      BY <1>12 DEF Unpack, TypeOK, Role
    <2>3. held' = held /\ leaked \subseteq leaked'
          /\ \A p \in owns[o] : p \in owns'[o] \/ p[2] \in leaked'
      BY <1>12, <2>2 DEF Unpack
    <2>4. ASSUME Owned1 PROVE Owned1'
      <3>1. OwnedOnce'
        BY <1>t, <1>n, <2>1, <2>2, <2>4 DEF OwnedOnce, Pointed
      <3>2. HeldUnowned'
        BY <1>t, <1>n, <2>1, <2>2, <2>3, <2>4 DEF HeldUnowned
      <3>3. Pointed'
        BY <1>t, <1>n, <2>1, <2>2, <2>4 DEF Pointed
      <3>4. Accounted'
        <4>1. \E p \in owns'[o] : p[2] = next
          <5>1. <<new, next>> \in owns'[o] /\ <<new, next>>[2] = next
            BY <2>2
          <5>2. QED
            BY <5>1
        <4>2. ASSUME NEW x \in Live
              PROVE  x \in held' \cup leaked' \/ \E y \in Obj : \E p \in owns'[y] : p[2] = x
          BY <2>2, <2>3, <2>4 DEF Accounted
        <4>3. QED
          BY <2>1, <4>1, <4>2 DEF Accounted
      <3>5. QED
        BY <3>1, <3>2, <3>3, <3>4
    <2>5. QED
      BY <1>12, <1>s, <2>4 DEF Unpack
  <1>13. ASSUME NEW head \in Obj, NEW c \in Obj, AddComponent(head, c) PROVE Goal
    <2>1. /\ Live' = Live /\ c \in held /\ held' = held \ {c} /\ leaked' = leaked
          /\ broken' = broken /\ shared' = shared
      BY <1>13 DEF AddComponent, Live
    <2>2. PICK o \in Live \ {c}, role \in Role :
               /\ \A x \in Obj \ {o, c} : owns'[x] = owns[x]
               /\ owns'[c] \subseteq owns[c]
               /\ \A p \in owns[c] : p \in owns'[c] \/ <<role, p[2]>> \in owns'[o]
               /\ owns[o] \subseteq owns'[o] /\ <<role, c>> \in owns'[o]
               /\ \A p \in owns'[o] :
                     \/ p \in owns[o] \/ p = <<role, c>>
                     \/ \E q \in owns[c] : q \notin owns'[c] /\ p = <<role, q[2]>>
      BY <1>13, ListJoined, SMTT(30)
    <2>3. ASSUME Owned1 PROVE Owned1'
      <3>1. \A x \in Obj : \A p \in owns[x] : p[2] # c
        BY <2>1, <2>3 DEF HeldUnowned
      <3>2. OwnedOnce'
        <4> SUFFICES ASSUME NEW x \in Obj, NEW y \in Obj, NEW p \in owns'[x], NEW q \in owns'[y],
                            p[2] = q[2]
                     PROVE  x = y /\ p = q
          BY DEF OwnedOnce
        <4>1. \A z \in Obj \ {o} : owns'[z] \subseteq owns[z]
          BY <2>2
        <4>2. CASE x # o /\ y # o
          BY <2>3, <4>1, <4>2 DEF OwnedOnce
        <4>3. CASE x = o /\ y # o
          <5>1. q \in owns[y] /\ (y = c => q \in owns'[c])
            BY <4>1, <4>3
          <5>2. CASE p \in owns[o]
            BY <2>3, <4>3, <5>1, <5>2 DEF OwnedOnce
          <5>3. CASE p = <<role, c>>
            BY <3>1, <5>1, <5>3
          <5>4. CASE \E r \in owns[c] : r \notin owns'[c] /\ p = <<role, r[2]>>
            BY <2>3, <5>1, <5>4 DEF OwnedOnce
          <5>5. QED
            BY <2>2, <4>3, <5>2, <5>3, <5>4
        <4>4. CASE x # o /\ y = o
          <5>1. p \in owns[x] /\ (x = c => p \in owns'[c])
            BY <4>1, <4>4
          <5>2. CASE q \in owns[o]
            BY <2>3, <4>4, <5>1, <5>2 DEF OwnedOnce
          <5>3. CASE q = <<role, c>>
            BY <3>1, <5>1, <5>3
          <5>4. CASE \E r \in owns[c] : r \notin owns'[c] /\ q = <<role, r[2]>>
            BY <2>3, <5>1, <5>4 DEF OwnedOnce
          <5>5. QED
            BY <2>2, <4>4, <5>2, <5>3, <5>4
        <4>5. CASE x = o /\ y = o
          <5>1. \A r \in owns[c], r2 \in owns[o] : r[2] # r2[2]
            BY <2>2, <2>3 DEF OwnedOnce, Live
          <5>2. CASE p \in owns[o] /\ q \in owns[o]
            BY <2>3, <4>5, <5>2 DEF OwnedOnce
          <5>3. CASE p \in owns[o] /\ q \notin owns[o]
            BY <2>2, <3>1, <4>5, <5>1, <5>3
          <5>4. CASE p \notin owns[o] /\ q \in owns[o]
            BY <2>2, <3>1, <4>5, <5>1, <5>4
          <5>5. CASE p \notin owns[o] /\ q \notin owns[o]
            BY <2>2, <3>1, <4>5, <5>5
          <5>6. QED
            BY <5>2, <5>3, <5>4, <5>5
        <4>6. QED
          BY <4>2, <4>3, <4>4, <4>5
      <3>3. \A x \in Obj : \A p \in owns'[x] :
               p[2] = c \/ \E y \in Obj : \E q \in owns[y] : q[2] = p[2]
        BY <2>2
      <3>4. HeldUnowned'
        BY <2>1, <2>3, <3>3 DEF HeldUnowned
      <3>5. Pointed'
        BY <1>t, <2>1, <2>3, <3>3 DEF Pointed
      <3>6. Accounted'
        <4>1. \E y \in Obj : \E p \in owns'[y] : p[2] = c
          <5>1. <<role, c>> \in owns'[o] /\ <<role, c>>[2] = c /\ o \in Obj
            BY <2>2 DEF Live
          <5>2. QED
            BY <5>1
        <4>2. ASSUME NEW y \in Obj, NEW p \in owns[y]
              PROVE  \E z \in Obj : \E q \in owns'[z] : q[2] = p[2]
          <5>1. CASE y # c
            <6>1. p \in owns'[y]
              BY <2>2, <4>2, <5>1
            <6>2. QED
              BY <6>1
          <5>2. CASE y = c
            <6>1. p \in owns'[c] \/ <<role, p[2]>> \in owns'[o]
              BY <2>2, <5>2
            <6>2. <<role, p[2]>>[2] = p[2] /\ o \in Obj
              BY DEF Live
            <6>3. QED
              BY <6>1, <6>2
          <5>3. QED
            BY <5>1, <5>2
        <4>3. QED
          BY <2>1, <2>3, <4>1, <4>2 DEF Accounted
      <3>7. QED
        BY <3>2, <3>4, <3>5, <3>6
    <2>4. QED
      BY <1>s, <2>1, <2>3
  <1>14. ASSUME NEW o \in Obj, NEW c \in Obj, AssignSystem(o, c) PROVE Goal
    <2>1. CASE owns[c] # {}
      BY <1>14, <1>s, <2>1 DEF AssignSystem
    <2>2. CASE owns[c] = {}
      <3>1. Live' = Live /\ held' = held /\ leaked' = leaked \cup Targets(o)
        BY <1>14 DEF AssignSystem, Live
      <3>2. owns'[o] = {} /\ \A x \in Obj \ {o} : owns'[x] = owns[x]
        BY <1>14, <2>2 DEF AssignSystem, TypeOK
      <3>3. \A p \in owns[o] : p[2] \in leaked'
        BY <3>1 DEF Targets
      <3>4. Owned1 => Owned1'
        BY <3>1, <3>2, <3>3 DEF OwnedOnce, HeldUnowned, Pointed, Accounted
      <3>5. QED
        BY <1>14, <1>s, <3>4 DEF AssignSystem
    <2>3. QED
      BY <2>1, <2>2
  <1>15. QED
    BY <1>2, <1>3, <1>4, <1>5, <1>6, <1>7, <1>8, <1>9, <1>10, <1>11, <1>12, <1>13, <1>14
    DEF Next

\* Together with the types this is inductive.
LEMMA Invariant == Spec => [](IInv /\ FreedOnce)
  <1>1. Init => Ownership /\ FreedOnce
    BY DEF Init, Ownership, OwnedOnce, HeldUnowned, Pointed, Accounted, Live, FreedOnce
  <1>2. TypeOK' /\ Allocated' /\ IInv /\ FreedOnce /\ [Next]_vars => IInv' /\ FreedOnce'
    BY OwnershipKept DEF IInv
  <1>3. Init /\ TypeOK /\ Allocated => IInv /\ FreedOnce
    BY <1>1 DEF IInv
  <1>4. QED
    BY <1>2, <1>3, TypingInv, PTL DEF Spec

\* A client that deletes what it holds frees nothing twice, ...
THEOREM Once == Spec => []FreedOnce
  BY Invariant, PTL

\* ... leaves no pointer to what it has deleted, ...
THEOREM Dangling == Spec => []NoDangling
  <1>1. IInv => NoDangling
    BY DEF IInv, Ownership, Pointed, NoDangling, Targets, Live
  <1>2. QED
    BY <1>1, Invariant, PTL

\* ... and loses only what ~System, free_system, free_component, new_system,
\* an exception while reading, unpack and an assignment lose.
THEOREM Leaks == Spec => []LeaksAccounted
  <1>1. TypeOK /\ Ownership => LeaksAccounted
    <2> SUFFICES ASSUME TypeOK, ~shared, Accounted, NEW x \in Live, x \notin held \cup leaked
                 PROVE  \E y \in Live : x \in Targets(y)
      BY DEF Ownership, LeaksAccounted
    <2>1. PICK y \in Obj : \E p \in owns[y] : p[2] = x
      BY DEF Accounted
    <2>2. y \in Live
      BY <2>1 DEF TypeOK
    <2>3. QED
      BY <2>1, <2>2 DEF Targets
  <1>2. QED
    BY <1>1, Invariant, PTL DEF IInv
=============================================================================
