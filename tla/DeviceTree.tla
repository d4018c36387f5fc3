----------------------------- MODULE DeviceTree -----------------------------
(***************************************************************************)
(* Who owns what in memory: System, Component and DataItem objects (C++)   *)
(* and struct system, component and dataitem (C), the pointers between     *)
(* them, and what the destructors and the free functions delete.           *)
(*                                                                         *)
(* The client of the library is disciplined: it deletes each object that   *)
(* it holds once, and hands over only what it holds, to addLeaf or to      *)
(* add_component, without a circle.                                        *)
(***************************************************************************)
EXTENDS Integers

CONSTANTS MaxObj,      \* bound on the objects ever allocated
          Tree         \* what a database may hold: the number of objects of
                       \* a tree, its root first, their classes and pointers

Obj == 1 .. MaxObj

\* A pointer is a role and a target.  "leaf": mLeaves, children; "device":
\* mDeviceSpecific, mAIXNames and the fields of the C structures; "user":
\* mUserData; "next": the components in the list that begins with a struct
\* component which is nobody's child (the children of a parent are its
\* leaves, though they are linked by the same field).
Role == {"leaf", "device", "user", "next"}
Pointer == Role \X Obj
Class == {"System", "Component", "DataItem"}
CStruct == {"system", "component", "dataitem"}

ASSUME BoundAssumption == MaxObj \in Nat
ASSUME TreeAssumption ==
    \A t \in Tree : /\ t.size \in Obj
                    /\ t.class \in [1 .. t.size -> Class]
                    /\ t.owns \in [1 .. t.size -> SUBSET (Role \X (2 .. t.size))]
\* System::unpack puts user items behind the device specific ones, and what
\* is fetched is in the list of its parent only.
ASSUME RoleAssumption ==
    \A t \in Tree : \A i \in 1 .. t.size : \A p \in t.owns[i] :
        p[1] # "next" /\ (t.class[i] = "System" => p[1] # "user")
\* Each object of a tree is made by new, or calloc, where its pointer is set.
ASSUME OwnerAssumption ==
    \A t \in Tree :
        /\ \A i, j \in 1 .. t.size : \A p \in t.owns[i], q \in t.owns[j] :
              p[2] = q[2] => i = j /\ p = q
        /\ \A k \in 2 .. t.size : \E j \in 1 .. t.size : \E p \in t.owns[j] : p[2] = k

VARIABLES
    kind,          \* the class of each object; "none" before, "freed" after
    owns,          \* the pointers in each object
    held,          \* the objects that the client has to delete
    next,          \* the first object that was never allocated
    broken,        \* "twice": memory was freed twice; "end": a vector was
                   \* changed past its end; else "no"
    leaked,        \* history: what was lost in one of the seven places that
                   \* LeaksAccounted names
    shared         \* history: a copy shares its pointers with its original

vars == <<kind, owns, held, next, broken, leaked, shared>>

Live == {x \in Obj : kind[x] \notin {"none", "freed"}}
Targets(x) == {p[2] : p \in owns[x]}

TypeOK ==
    /\ kind \in [Obj -> Class \cup CStruct \cup {"none", "freed"}]
    /\ owns \in [Obj -> SUBSET Pointer]
    /\ held \subseteq Live /\ leaked \subseteq Obj
    /\ next \in 1 .. MaxObj + 1
    /\ \A x \in Obj : kind[x] = "none" <=> x >= next
    /\ \A x \in Obj \ Live : owns[x] = {}
    /\ broken \in {"no", "twice", "end"} /\ shared \in BOOLEAN

Init ==
    /\ kind = [x \in Obj |-> "none"]
    /\ owns = [x \in Obj |-> {}]
    /\ held = {} /\ leaked = {} /\ next = 1
    /\ broken = "no" /\ shared = FALSE

-----------------------------------------------------------------------------
(* Allocation: the constructors, unpack, and reading from the database.    *)

InC(class) == CASE class = "System" -> "system" [] class = "Component" -> "component"
                [] class = "DataItem" -> "dataitem"
ClassIn(lang, class) == IF lang = "C" THEN InC(class) ELSE class

New(m) == {x \in Obj : next <= x /\ x < next + m}

\* The first m objects of tree t are made, as C++ objects or C structures.
Made(t, m, lang) ==
    /\ next + m - 1 \in Obj
    /\ kind' = [x \in Obj |-> IF x \in New(m) THEN ClassIn(lang, t.class[x - next + 1])
                                             ELSE kind[x]]
    /\ owns' = [x \in Obj |-> IF x \in New(m)
                              THEN {p \in Role \X New(m) : <<p[1], p[2] - next + 1>> \in t.owns[x - next + 1]}
                              ELSE owns[x]]
    /\ next' = next + m

\* getComponentTree, getComponent, and with a tree of one object the empty
\* constructor; get_component_tree, get_component, get_system and
\* new_component in C.  (When get_component_tree fails in the middle, it has
\* made a smaller tree and Deletes it.)
Fetch(t, lang) ==
    /\ Made(t, t.size, lang)
    /\ held' = held \cup {next}
    /\ UNCHANGED <<broken, leaked, shared>>

\* buildSubTree throws at a child that it cannot fetch, unpack at a corrupt
\* row: nobody deletes the root, the leaf at hand and what they own.
FetchThrows(t) ==
    /\ \E m \in 1 .. t.size :
        /\ Made(t, m, "C++")
        /\ leaked' = leaked \cup New(m)
    /\ UNCHANGED <<held, broken, shared>>

\* new_system(1) assigns description 14 times, and loses all but the last
\* (here: one of two).
NewSystem ==
    /\ next + 2 \in Obj
    /\ kind' = [kind EXCEPT ![next] = "system", ![next + 1] = "dataitem", ![next + 2] = "dataitem"]
    /\ owns' = [owns EXCEPT ![next] = {<<"device", next + 2>>}]
    /\ next' = next + 3
    /\ held' = held \cup {next}
    /\ leaked' = leaked \cup {next + 1}
    /\ UNCHANGED <<broken, shared>>

\* addDeviceSpecific, addAIXName, addUserData, where they make an item.
AddItem(o, role) ==
    /\ kind[o] \in {"System", "Component"} /\ role \in {"device", "user"}
    /\ next \in Obj
    /\ kind' = [kind EXCEPT ![next] = "DataItem"]
    /\ owns' = [owns EXCEPT ![o] = @ \cup {<<role, next>>}]
    /\ next' = next + 1
    /\ UNCHANGED <<held, broken, leaked, shared>>

\* unpack of a filled object, from a buffer with one item: the vector of
\* device specific items is replaced, and what it pointed to is lost.
Unpack(o, role) ==
    /\ kind[o] \in {"System", "Component"} /\ role \in {"device", "user"}
    /\ next \in Obj
    /\ kind' = [kind EXCEPT ![next] = "DataItem"]
    /\ owns' = [owns EXCEPT ![o] = {p \in @ : p[1] # "device"}
                    \cup {<<IF kind[o] = "System" THEN "device" ELSE role, next>>}]
    /\ leaked' = leaked \cup {p[2] : p \in {q \in owns[o] : q[1] = "device"}}
    /\ next' = next + 1
    /\ UNCHANGED <<held, broken, shared>>

-----------------------------------------------------------------------------
(* Trees.                                                                  *)

\* The objects that S reaches: the least set that contains S and with each
\* object what pointers(object) points to.
Closed(T, pointers(_)) == \A x \in T : {p[2] : p \in pointers(x)} \subseteq T
Reach(S, pointers(_)) ==
    {x \in Obj : \A T \in SUBSET Obj : S \subseteq T /\ Closed(T, pointers) => x \in T}

Owned(x) == owns[x]

\* addLeaf: the tree now owns what the client held.
AddLeaf(o, c) ==
    /\ kind[o] \in {"System", "Component"} /\ kind[c] = "Component"
    /\ c \in held /\ o \notin Reach({c}, Owned)
    /\ owns' = [owns EXCEPT ![o] = @ \cup {<<"leaf", c>>}]
    /\ held' = held \ {c}
    /\ UNCHANGED <<kind, next, broken, leaked, shared>>

\* The list that component head is in: the children of o, or the list that
\* begins with o.
InList(head, o, role) ==
    \/ role \in {"leaf", "next"} /\ <<role, head>> \in owns[o]
    \/ o = head /\ role = "next" /\ \A x \in Obj : head \notin Targets(x)

\* add_component walks from head to the end of the list that head is in, and
\* appends c with the list that begins with c.  (With a head or a component
\* that is NULL it does nothing.)
AddComponent(head, c) ==
    /\ kind[head] = "component" /\ kind[c] = "component"
    /\ c \in held /\ head \notin Reach({c}, Owned)
    /\ \E o \in Obj, role \in Role :
        /\ InList(head, o, role)
        /\ owns' = [owns EXCEPT
             ![c] = {p \in @ : p[1] # "next"},
             ![o] = @ \cup {<<role, c>>} \cup {<<role, p[2]>> : p \in {q \in owns[c] : q[1] = "next"}}]
    /\ held' = held \ {c}
    /\ UNCHANGED <<kind, next, broken, leaked, shared>>

\* mutant: removeLeaf deletes the leaf, as the destructor does.
RemoveDeletes(o, c) ==
    /\ <<"leaf", c>> \in owns[o] /\ kind[c] = "Component"
    /\ kind' = [kind EXCEPT ![c] = "freed"]
    /\ owns' = [owns EXCEPT ![c] = {}]
    /\ held' = held \cup {c}
    /\ UNCHANGED <<next, broken, leaked, shared>>

\* mutant: removeLeaf hands the leaf out and keeps it.
RemoveKeeps(o, c) ==
    /\ <<"leaf", c>> \in owns[o] /\ kind[c] = "Component"
    /\ held' = held \cup {c}
    /\ UNCHANGED <<kind, owns, next, broken, leaked, shared>>

\* removeLeaf erases the pointer and leaves the component to the caller.
RemoveLeaf(o, c) ==
    /\ <<"leaf", c>> \in owns[o] /\ kind[c] = "Component"
    /\ owns' = [owns EXCEPT ![o] = @ \ {<<"leaf", c>>}]
    /\ held' = held \cup {c}
    /\ UNCHANGED <<kind, next, broken, leaked, shared>>

\* removeLeaf(index) lets index = size through, and then erases the end.
RemoveLeafAtSize(o) ==
    /\ kind[o] \in {"System", "Component"}
    /\ broken' = "end"
    /\ UNCHANGED <<kind, owns, held, next, leaked, shared>>

\* copyToMe copies the pointers, not what they point to.
CopyToMe(o, c) ==
    /\ ~shared  \* a bound: one copy that shares something
    /\ owns' = [owns EXCEPT ![o] = @ \cup owns[c]]
    /\ shared' = (shared \/ owns[c] # {})

\* The copy constructor of Component, and the implicit one of System.
Copy(c) ==
    /\ kind[c] \in {"System", "Component"} /\ next \in Obj
    /\ CopyToMe(next, c)
    /\ kind' = [kind EXCEPT ![next] = kind[c]]
    /\ next' = next + 1
    /\ held' = held \cup {next}
    /\ UNCHANGED <<broken, leaked>>

\* Component's operator= appends to the lists that are there.  On itself it
\* pushes onto the vector that it walks.
Assign(o, c) ==
    /\ kind[o] = "Component" /\ kind[c] = "Component"
    /\ CopyToMe(o, c)
    /\ broken' = IF o = c /\ owns[c] # {} THEN "end" ELSE "no"
    /\ UNCHANGED <<kind, next, held, leaked>>

\* System has the implicit operator=: it replaces the vectors, and what they
\* pointed to is lost.
AssignSystem(o, c) ==
    /\ kind[o] = "System" /\ kind[c] = "System" /\ o # c
    /\ ~shared
    /\ owns' = [owns EXCEPT ![o] = owns[c]]
    /\ shared' = (owns[c] # {})
    /\ leaked' = leaked \cup Targets(o)
    /\ UNCHANGED <<kind, next, held, broken>>

-----------------------------------------------------------------------------
(* Destructors and free functions.                                         *)

\* What is left behind when x goes: the user items of a System (~System),
\* the children of a struct system (free_system), and the rest of the list
\* that begins with a struct component (free_component).
Left(x) == {p \in owns[x] : \/ kind[x] = "System" /\ p[1] = "user"
                            \/ kind[x] = "system" /\ p[1] = "leaf"
                            \/ kind[x] = "component" /\ p[1] = "next"}
Lost(x) == {p[2] : p \in Left(x)}

\* mutant: the list of user items is forgotten, as in ~System.
NoUserItems(x) == {p \in owns[x] \ Left(x) : p[1] # "user"}

\* What goes with x: all else that it owns.
Deletes(x) == owns[x] \ Left(x)

\* Deleting o arrives twice at an object, or at one that is gone.
FreedTwice(o, F) ==
    \/ \E x \in F : kind[x] = "freed"
    \/ \E x \in F, p \in Pointer : p \in Deletes(x) /\ p[2] = o
    \/ \E x, y \in F : \E p \in Deletes(x), q \in Deletes(y) :
            p[2] = q[2] /\ <<x, p>> # <<y, q>>

\* delete, free_system, free_component, free_dataitem.
Delete(o) ==
    LET F == Reach({o}, Deletes) IN
    /\ o \in held
    /\ kind' = [x \in Obj |-> IF x \in F THEN "freed" ELSE kind[x]]
    /\ owns' = [x \in Obj |-> IF x \in F THEN {} ELSE owns[x]]
    /\ held' = held \ F
    /\ leaked' = leaked \cup UNION {Lost(x) : x \in F}
    /\ broken' = IF FreedTwice(o, F) THEN "twice" ELSE "no"
    /\ UNCHANGED <<next, shared>>

Next ==
    /\ broken = "no"
    /\ \/ \E t \in Tree : (\E lang \in {"C", "C++"} : Fetch(t, lang)) \/ FetchThrows(t)
       \/ NewSystem
       \/ \E o \in Obj, role \in Role : AddItem(o, role) \/ Unpack(o, role)
       \/ \E o, c \in Obj : AddLeaf(o, c) \/ AddComponent(o, c) \/ RemoveLeaf(o, c)
       \/ \E o, c \in Obj : Assign(o, c) \/ AssignSystem(o, c)
       \/ \E o \in Obj : Copy(o) \/ Delete(o) \/ RemoveLeafAtSize(o)

Spec == Init /\ [][Next]_vars

-----------------------------------------------------------------------------
(* Properties.                                                             *)

\* A client that deletes what it holds frees nothing twice, whatever it
\* moves between trees and lists, unless it has copied or assigned a System
\* or a Component that owns something.
FreedOnce == broken = "twice" => shared

\* No object that is left points to one that was deleted.
NoDangling == ~shared => \A x \in Live : Targets(x) \subseteq Live

\* What is neither held by the client nor owned by something that is left was
\* lost in one of seven places: ~System (user items), free_system (children),
\* free_component (the rest of a list), new_system (descriptions), an
\* exception while a tree or a component is read, unpack of a filled object
\* and the assignment of a System.  All else is deleted with its tree.
LeaksAccounted ==
    ~shared => \A x \in Live : x \in held \cup leaked \/ \E y \in Live : x \in Targets(y)
=============================================================================
