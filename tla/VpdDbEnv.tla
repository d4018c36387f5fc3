------------------------------ MODULE VpdDbEnv ------------------------------
(***************************************************************************)
(* The VPD table and the statements that environments run on it.  The      *)
(* update lock is the one of LockService, which UpdateLock implements: an  *)
(* environment is a holder of the lock or a guest without it, and it runs  *)
(* its statements in both cases.  Each statement is a transaction of its   *)
(* own (SQLite's autocommit); the class starts no other.                   *)
(***************************************************************************)
EXTENDS LockService

CONSTANTS ReadOnly,    \* the environments opened read-only
          Id,          \* device identifiers, keys of the table
          NoRow,       \* no row with this key
          RowsOf       \* the packed objects that may be stored under a key

ASSUME ReadOnlyAssumption == ReadOnly \subseteq Env
ASSUME RowAssumption == \A i \in Id : NoRow \notin RowsOf[i]

VARIABLE table         \* the rows: table[i] is the blob stored under i

Rows == UNION {RowsOf[i] : i \in Id}
Table == [Id -> Rows \cup {NoRow}]

TableTypeOK ==
    /\ holders \subseteq Env /\ guests \subseteq Env
    /\ table \in Table

TableInit ==
    /\ ServiceInit
    /\ table \in [Id -> Rows \cup {NoRow}]
    /\ \A i \in Id : table[i] \in RowsOf[i] \cup {NoRow}

CanWrite(e) == Inside(e) /\ e \notin ReadOnly

\* INSERT with a UNIQUE key: it adds a row, and fails when there is one.
Insert(i, row) == table[i] = NoRow /\ table' = [table EXCEPT ![i] = row]

\* store(Component*) and store(System*) returning true.  When they return
\* false (the key is taken, an error of SQLite) the table is unchanged.
Store(e, i) ==
    /\ CanWrite(e)
    /\ \E row \in RowsOf[i] : Insert(i, row)
    /\ UNCHANGED svars

\* remove: DELETE succeeds whether or not there is a row.
RemoveRow(e, i) ==
    /\ CanWrite(e)
    /\ table' = [table EXCEPT ![i] = NoRow]
    /\ UNCHANGED svars

\* fetch: the row, or NULL both when there is none and on an error.
Fetch(i) == {table[i], NoRow}
=============================================================================
