------------------------------ MODULE TreeRead ------------------------------
(***************************************************************************)
(* What getComponentTree promises: the tree it returns is the tree that    *)
(* the database holds at one instant.  Only a reader that is not protected *)
(* (it came in without the update lock, or an updater did) may get         *)
(* anything.                                                               *)
(***************************************************************************)
EXTENDS SequencesExt

CONSTANTS Id,          \* device identifiers
          SysId,       \* System::ID, the key of the root
          NoRow,       \* no row with this key
          Reader       \* the readers

VARIABLES table,       \* the rows of the database
          result,      \* what each reader was last given
          protected    \* the readers protected by the lock

tvars == <<table, result, protected>>

\* What a reader has been given.
Nothing == <<"nothing">>
Failed  == <<"error">>
Tree(t) == <<"tree", t>>

Entry(i, row) == [id |-> i, row |-> row]

\* The tree below each device in preorder, given the trees below its children.
Grown(t, below) ==
    [i \in Id |->
        << Entry(i, t[i]) >> \o
            IF t[i] = NoRow THEN <<>>
            ELSE FlattenSeq([k \in DOMAIN t[i].kids |-> below[t[i].kids[k]]])]

\* A tree is at most as deep as there are devices: a deeper one would revisit
\* a device for ever.
Trees(t) ==
    LET below[n \in 0 .. Cardinality(Id)] ==
            IF n = 0 THEN [i \in Id |-> << Entry(i, t[i]) >>] ELSE Grown(t, below[n - 1])
    IN  below[Cardinality(Id)]

\* A device that is listed and has no row fails the whole call.
TreeOf(t) ==
    LET tree == Trees(t)[SysId]
    IN  IF \E k \in DOMAIN tree : tree[k].row = NoRow THEN Failed ELSE Tree(tree)

ReadInit == result = [r \in Reader |-> Nothing] /\ protected = {}

\* A read may fail (no memory, a damaged file); if it does not, it returns
\* the tree of this instant.
Read(r) ==
    /\ \E x \in {TreeOf(table), Failed} : result' = [result EXCEPT ![r] = x]
    /\ UNCHANGED <<table, protected>>

\* An unprotected reader may be told anything.
ReadUnprotected(r) ==
    /\ r \notin protected
    /\ result' = [result EXCEPT ![r] = result'[r]]
    /\ UNCHANGED <<table, protected>>

\* The reader asks again, or closes its database and with it its protection.
Forget(R) ==
    /\ result' = [r \in Reader |-> IF r \in R THEN Nothing ELSE result[r]]
    /\ protected' \in {protected, protected \ R}
    /\ UNCHANGED table

Protect(r) ==
    /\ protected' = protected \cup {r}
    /\ UNCHANGED <<table, result>>

\* The database changes, perhaps in a way that the lock does not keep from
\* its holders.
Update ==
    /\ protected' \subseteq protected
    /\ UNCHANGED result

ReadNext ==
    \/ \E r \in Reader : Read(r) \/ ReadUnprotected(r) \/ Protect(r)
    \/ \E R \in SUBSET Reader : Forget(R)
    \/ Update

ReadSpec == ReadInit /\ [][ReadNext]_tvars
=============================================================================
