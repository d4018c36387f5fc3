---------------------------- MODULE VpdRetriever ----------------------------
(***************************************************************************)
(* Reading the device tree while updaters run.  VpdRetriever (C++) reads   *)
(* through a read-only VpdDbEnv and so under the update lock, unless the   *)
(* lock turned it away; struct vpdretriever (C) opens the database without *)
(* looking at the lock.  Both fetch one row at a time, depth first.        *)
(***************************************************************************)
EXTENDS VpdDbEnv, SequencesExt

CONSTANTS CReader,     \* the clients of the C interface
          SysId        \* System::ID

ASSUME ReaderAssumption == CReader \cap Env = {} /\ SysId \in Id
ASSUME IdAssumption == IsFiniteSet(Id)
ASSUME KidsAssumption == \A i \in Id : \A row \in RowsOf[i] : row.kids \in Seq(Id)

Reader == ReadOnly \cup CReader

VARIABLES todo,        \* per reader: the ids still to be fetched, next first
          got,         \* per reader: the entries fetched so far, in order
          outcome,     \* per reader: "idle", "reading", "done" or "error"
          exposed,     \* history: environments with the lock whose table one
                       \* without it has changed under them
          removed      \* history: the devices that an environment with the
                       \* lock has removed and not stored again

rvars == <<todo, got, outcome, exposed, removed>>
vars == <<svars, table, rvars>>

Entry(i, row) == [id |-> i, row |-> row]
Entries == [id : Id, row : Rows]

TypeOK ==
    /\ TableTypeOK
    /\ todo \in [Reader -> Seq(Id)]
    /\ got \in [Reader -> Seq(Entries)]
    /\ outcome \in [Reader -> {"idle", "reading", "done", "error"}]
    /\ exposed \subseteq Env /\ removed \in [Env -> SUBSET Id]

Init ==
    /\ TableInit
    /\ todo = [r \in Reader |-> <<>>]
    /\ got = [r \in Reader |-> <<>>]
    /\ outcome = [r \in Reader |-> "idle"]
    /\ exposed = {} /\ removed = [e \in Env |-> {}]

-----------------------------------------------------------------------------
\* mutant: the lock is shared by those who only want to read.
OpenShared(e) ==
    /\ ~Inside(e)
    /\ holders' = holders \cup {e}
    /\ UNCHANGED <<guests, table, rvars>>

\* The database is opened, with or without the lock.
Open(e) ==
    /\ Enter(e) \/ EnterUnlocked(e)
    /\ UNCHANGED <<table, rvars>>

\* The database is closed, or its process dies in the middle of anything.
Close(e) ==
    /\ Inside(e)
    /\ Leave({e})
    /\ todo' = [r \in Reader |-> IF r = e THEN <<>> ELSE todo[r]]
    /\ got' = [r \in Reader |-> IF r = e THEN <<>> ELSE got[r]]
    /\ outcome' = [r \in Reader |-> IF r = e THEN "idle" ELSE outcome[r]]
    /\ exposed' = exposed \ {e}
    /\ removed' = [removed EXCEPT ![e] = {}]
    /\ UNCHANGED table

\* An updater's statement.  Without the lock it exposes those that have it.
Write(e) ==
    /\ \E i \in Id :
        \/ Store(e, i) /\ removed' = [removed EXCEPT ![e] = @ \ {i}]
        \/ /\ RemoveRow(e, i)
           /\ removed' = [removed EXCEPT ![e] = IF e \in holders THEN @ \cup {i} ELSE @]
    /\ exposed' = IF e \in guests THEN exposed \cup holders ELSE exposed
    /\ UNCHANGED <<todo, got, outcome>>

\* getComponentTree starts with the row of the System.
StartTree(r) ==
    /\ r \in CReader \/ Inside(r)
    /\ outcome[r] # "reading"
    /\ outcome' = [outcome EXCEPT ![r] = "reading"]
    /\ todo' = [todo EXCEPT ![r] = <<SysId>>]
    /\ got' = [got EXCEPT ![r] = <<>>]
    /\ UNCHANGED <<svars, table, exposed, removed>>

\* mutant: the recursive call is left out.
OwnLevel(r, i, row) == IF i = SysId THEN row.kids ELSE <<>>

\* The children that the unpacked row lists.  unpack_component (C) leaves
\* its loop over the lists before the first entry, so that a component read
\* by a C client lists none; unpack_system reads them.
Children(r, i, row) ==
    IF r \in CReader /\ i # SysId THEN <<>> ELSE row.kids

\* One fetch of buildSubTree / build_component_sub: the children of the row
\* come before the rest of its siblings.
FetchNext(r) ==
    LET i == Head(todo[r]) IN
    /\ outcome[r] = "reading" /\ todo[r] # <<>>
    /\ table[i] # NoRow
    /\ got' = [got EXCEPT ![r] = Append(@, Entry(i, table[i]))]
    /\ todo' = [todo EXCEPT ![r] = Children(r, i, table[i]) \o Tail(@)]
    /\ UNCHANGED <<svars, table, outcome, exposed, removed>>

\* mutant: a child that cannot be fetched is passed over.
SkipChild(r) ==
    /\ outcome[r] = "reading" /\ todo[r] # <<>>
    /\ table[Head(todo[r])] = NoRow
    /\ todo' = [todo EXCEPT ![r] = Tail(@)]
    /\ UNCHANGED <<svars, table, got, outcome, exposed, removed>>

\* mutant: the NULL is not looked at and becomes a leaf.
KeepNull(r) ==
    /\ outcome[r] = "reading" /\ todo[r] # <<>>
    /\ table[Head(todo[r])] = NoRow
    /\ got' = [got EXCEPT ![r] = Append(@, Entry(Head(todo[r]), NoRow))]
    /\ todo' = [todo EXCEPT ![r] = Tail(@)]
    /\ UNCHANGED <<svars, table, outcome, exposed, removed>>

\* fetch returned NULL: no row, or an error.  C++ throws; C frees what it
\* has and returns NULL.
FetchFails(r) ==
    /\ outcome[r] = "reading" /\ todo[r] # <<>>
    /\ NoRow \in Fetch(Head(todo[r]))
    /\ outcome' = [outcome EXCEPT ![r] = "error"]
    /\ todo' = [todo EXCEPT ![r] = <<>>]
    /\ got' = [got EXCEPT ![r] = <<>>]
    /\ UNCHANGED <<svars, table, exposed, removed>>

Return(r) ==
    /\ outcome[r] = "reading" /\ todo[r] = <<>>
    /\ outcome' = [outcome EXCEPT ![r] = "done"]
    /\ UNCHANGED <<svars, table, todo, got, exposed, removed>>

Next ==
    \/ \E e \in Env : Open(e) \/ Close(e) \/ Write(e)
    \/ \E r \in Reader : StartTree(r) \/ FetchNext(r) \/ FetchFails(r) \/ Return(r)

Spec == Init /\ [][Next]_vars

-----------------------------------------------------------------------------
(* Properties.                                                             *)

Ids(r) == {got[r][k].id : k \in DOMAIN got[r]}
Listed(r) == UNION {Range(got[r][k].row.kids) : k \in DOMAIN got[r]}

\* What a reader with the lock has fetched so far is still what the table
\* holds: its tree is never made of rows of different updates, as long as
\* every updater takes the lock.
SnapshotRead ==
    \A r \in (Reader \cap holders) \ exposed :
        \A k \in DOMAIN got[r] : got[r][k].row = table[got[r][k].id]

\* A tree that getComponentTree (C++) returns has the entry of every child
\* that it lists and no other, even one read without the lock in the middle
\* of an update: the call fails rather than leave a child out.
NoDanglingChild ==
    \A r \in ReadOnly : outcome[r] = "done" => Ids(r) = {SysId} \cup Listed(r)

\* An update is a remove and a store in two transactions.  What an updater
\* with the lock has removed stays without a row until it stores it, so that
\* its store is not refused and no half of another's update comes between, as
\* long as every updater takes the lock.
OwnGap ==
    \A e \in holders \ exposed : \A i \in removed[e] : table[i] = NoRow

\* vpdretriever.h: get_component_tree "Retrieves the entire tree of device
\* VPD".  (The components that a C client reads list no children.)
EntireTree ==
    \A r \in CReader : outcome[r] = "done" => Ids(r) = {SysId} \cup Listed(r)

\* getComponentTree is a read of one instant for a reader that the lock
\* protects.
Abstract == INSTANCE TreeRead WITH
    result    <- [r \in Reader |-> CASE outcome[r] = "done"  -> <<"tree", got[r]>>
                                     [] outcome[r] = "error" -> <<"error">>
                                     [] OTHER                -> <<"nothing">>],
    protected <- (Reader \cap holders) \ exposed
ReadsAtomically == Abstract!ReadSpec
=============================================================================
