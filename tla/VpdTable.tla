------------------------------ MODULE VpdTable ------------------------------
(***************************************************************************)
(* What the methods of VpdDbEnv and the fetches of the C interface promise *)
(* to concurrent callers: each call takes effect at one instant between    *)
(* its start and its return, and answers for the table of that instant.    *)
(* Statements shows that SQLite's locks, used as the code uses them,       *)
(* provide this across processes and crashes.                              *)
(***************************************************************************)
EXTENDS VpdCalls

VARIABLES table,       \* table[k]: the row under k, or NoRow
          call,        \* the call that each connection is in
          answer       \* what its last call returned

tvars == <<table, call, answer>>

TableInit ==
    /\ table \in [Key -> Row \cup {NoRow}]
    /\ call = [c \in Conn |-> NoCall]
    /\ answer = [c \in Conn |-> None]

Start(c) ==
    /\ call[c] = NoCall
    /\ \E q \in Call : call' = [call EXCEPT ![c] = q]
    /\ answer' = [answer EXCEPT ![c] = None]
    /\ UNCHANGED table

Return(c, a) ==
    /\ call' = [call EXCEPT ![c] = NoCall]
    /\ answer' = [answer EXCEPT ![c] = a]

Doing(c, op) == call[c] # NoCall /\ call[c].op = op

\* INSERT: only where there is no row.
Stored(c) ==
    /\ Doing(c, "store") /\ table[call[c].key] = NoRow
    /\ table' = [table EXCEPT ![call[c].key] = call[c].row]
    /\ Return(c, <<"true">>)

Removed(c) ==
    /\ Doing(c, "remove")
    /\ table' = [table EXCEPT ![call[c].key] = NoRow]
    /\ Return(c, <<"true">>)

\* false: nothing was changed.
Refused(c) ==
    /\ Doing(c, "store") \/ Doing(c, "remove")
    /\ Return(c, <<"false">>)
    /\ UNCHANGED table

\* The row, or NULL: there is none, or an error.
Fetched(c) ==
    /\ Doing(c, "fetch")
    /\ \E r \in {table[call[c].key], NoRow} \ Corrupt : Return(c, <<"row", r>>)
    /\ UNCHANGED table

\* An exception, in C++ only, and without an effect: VpdException for a row
\* that is there and corrupt, or bad_alloc.
Thrown(c) ==
    /\ call[c] # NoCall /\ c \notin CApi
    /\ \/ Doing(c, "fetch") /\ table[call[c].key] \in Corrupt
       \/ <<"memory", c>> \in Faults
    /\ Return(c, <<"thrown">>)
    /\ UNCHANGED table

Listed(c) ==
    /\ Doing(c, "getKeys")
    /\ Return(c, <<"keys", KeysOf(table)>>)
    /\ UNCHANGED table

\* An error in the middle: "the vector will be empty or incomplete".
ListedInPart(c) ==
    /\ Doing(c, "getKeys")
    /\ \E S \in SUBSET KeysOf(table) : Return(c, <<"part", S>>)
    /\ UNCHANGED table

\* The process ends in the middle of the call, which has no effect.
Gone(c) == Return(c, None) /\ UNCHANGED table

TableNext ==
    \E c \in Conn :
        \/ Start(c) \/ Stored(c) \/ Removed(c) \/ Refused(c) \/ Fetched(c)
        \/ Thrown(c) \/ Listed(c) \/ ListedInPart(c) \/ Gone(c)

TableSpec == TableInit /\ [][TableNext]_tvars
=============================================================================
