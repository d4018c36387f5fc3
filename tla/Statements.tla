----------------------------- MODULE Statements -----------------------------
(***************************************************************************)
(* The statements of VpdDbEnv (fetch, store, remove, getKeys) and of the C *)
(* interface (fetch_component, fetch_system) on connections that are open  *)
(* at the same time: clients that came in without the update lock, and C   *)
(* clients, who never look at it.  What keeps them apart is SQLite.        *)
(*                                                                         *)
(* SQLite (external) in its rollback-journal mode: a read statement holds  *)
(* SHARED from its first step until it is finalized or has no more rows; a *)
(* write statement takes RESERVED, saves the old pages in a journal and at *)
(* its end waits for EXCLUSIVE, keeping new readers out with PENDING; the  *)
(* commit is the deletion of the journal.  Whoever waits is in the busy    *)
(* handler, which always asks for another try.  A journal without a writer *)
(* is hot: the next connection that may write rolls it back first.         *)
(***************************************************************************)
EXTENDS VpdCalls

CONSTANTS ReadOnly,    \* connections opened with SQLITE_OPEN_READONLY
          CallsOf,     \* the calls that each connection may make
          Tables,      \* the contents that the database may start with
          NoConn, NoJournal,
          Torn         \* what half-written pages would be read as

Content == [Key -> Row \cup {NoRow}]

ASSUME RolesAssumption ==
    /\ ReadOnly \subseteq Conn /\ CApi \subseteq Conn \ ReadOnly
    /\ CallsOf \in [Conn -> SUBSET Call]
    /\ \A c \in CApi : \A q \in CallsOf[c] : q.op = "fetch"
    /\ \A c \in Conn : \A q \in CallsOf[c] : q.row \notin Corrupt
    /\ Faults \subseteq {"memory", "io", "exit"} \X Conn
ASSUME NamesAssumption ==
    /\ Tables \subseteq Content /\ NoConn \notin Conn /\ NoJournal \notin Content
    /\ Torn \notin Row \cup {NoRow}

VARIABLES
    call, answer,  \* the call of each connection, and what the last returned
    pc,            \* where each connection is
    shared,        \* the connections that hold SHARED
    writer,        \* the connection that holds RESERVED
    pending,       \* it holds PENDING as well
    disk,          \* the pages in the database file
    journal,       \* the pages as they were, or NoJournal
    leaked,        \* connections with a statement that nobody finalizes and
                   \* that holds SHARED
    unfinalized,   \* the same, and the statement holds nothing
    read           \* the row of an open fetch, the keys of an open getKeys

calls == <<call, answer>>
locks == <<shared, writer, pending>>
file == <<disk, journal>>
leaks == <<leaked, unfinalized>>
vars == <<calls, pc, locks, file, leaks, read>>

\* "ready": the object is open; "busy": a statement before its first lock;
\* "row", "rows": it holds SHARED; "commit": it holds RESERVED; "flush",
\* "flushed": EXCLUSIVE; "destroyed": the object is gone, its sqlite3
\* connection is not.
Phase == {"ready", "busy", "row", "rows", "commit", "flush", "flushed", "destroyed"}

Answer ==
    {None, <<"true">>, <<"false">>, <<"thrown">>}
    \cup {<<"row", r>> : r \in (Row \ Corrupt) \cup {NoRow}}
    \cup {<<n, S>> : n \in {"keys", "part"}, S \in SUBSET Key}

TypeOK ==
    /\ call \in [Conn -> Call \cup {NoCall}]
    /\ answer \in [Conn -> Answer]
    /\ pc \in [Conn -> Phase]
    /\ shared \subseteq Conn /\ leaked \subseteq Conn /\ unfinalized \subseteq Conn
    /\ writer \in Conn \cup {NoConn}
    /\ pending \in BOOLEAN
    /\ disk \in [Key -> Row \cup {NoRow, Torn}]
    /\ journal \in Content \cup {NoJournal}
    /\ read \in [Conn -> Row \cup {NoRow} \cup SUBSET Key]

Init ==
    /\ call = [c \in Conn |-> NoCall]
    /\ answer = [c \in Conn |-> None]
    /\ pc = [c \in Conn |-> "ready"]
    /\ shared = {} /\ writer = NoConn /\ pending = FALSE
    /\ disk \in Tables /\ journal = NoJournal
    /\ leaked = {} /\ unfinalized = {}
    /\ read = [c \in Conn |-> NoRow]

At(c, p) == pc[c] = p
Goto(c, p) == pc' = [pc EXCEPT ![c] = p]
Doing(c, op) == call[c] # NoCall /\ call[c].op = op
Writes(c) == Doing(c, "store") \/ Doing(c, "remove")

-----------------------------------------------------------------------------
(* SQLite's locks and journal.                                             *)

Exclusive == writer # NoConn /\ pc[writer] \in {"flush", "flushed"}
Hot == journal # NoJournal /\ writer = NoConn

\* SHARED is granted.  A connection with a leaked statement is in a read
\* transaction already and looks at neither PENDING nor the journal.
MayRead(c) == c \in leaked \/ (~pending /\ ~Exclusive /\ ~Hot)

\* The statement is finalized: SHARED goes, unless another statement of the
\* connection is still open.
Released(c) == shared \ ({c} \ leaked)

\* The first step of any statement finds a hot journal.
Recover(c) ==
    /\ At(c, "busy") /\ c \notin leaked \cup ReadOnly
    /\ Hot /\ shared = {}
    /\ disk' = journal /\ journal' = NoJournal
    /\ UNCHANGED <<calls, pc, locks, leaks, read>>

-----------------------------------------------------------------------------
(* The calls.                                                              *)

\* The SQL is prepared.
Begin(c) ==
    /\ At(c, "ready")
    /\ \E q \in CallsOf[c] : call' = [call EXCEPT ![c] = q]
    /\ answer' = [answer EXCEPT ![c] = None]
    /\ Goto(c, "busy")
    /\ UNCHANGED <<locks, file, leaks, read>>

\* The method returns a, with its statement finalized: SHARED, and for a
\* writer RESERVED and PENDING, are released.
Return(c, a) ==
    /\ call' = [call EXCEPT ![c] = NoCall]
    /\ answer' = [answer EXCEPT ![c] = a]
    /\ Goto(c, "ready")
    /\ read' = [read EXCEPT ![c] = NoRow]
    /\ shared' = Released(c)
    /\ writer' = IF writer = c THEN NoConn ELSE writer
    /\ pending' = (pending /\ writer # c)

\* sqlite3_step returns an error: NULL, false, or the keys so far.
ErrorAnswer(c) ==
    IF Writes(c) THEN <<"false">>
    ELSE IF Doing(c, "fetch") THEN <<"row", NoRow>>
    ELSE <<"part", IF At(c, "rows") THEN read[c] ELSE {}>>

\* bad_alloc leaves a C++ method, with a statement that has failed or was not
\* stepped yet and so holds no lock.
Raise(c) ==
    /\ <<"memory", c>> \in Faults /\ c \notin CApi
    /\ Return(c, <<"thrown">>)
    /\ unfinalized' = unfinalized \cup {c}
    /\ UNCHANGED leaked

\* The C++ methods report an error of SQLite before they finalize, getKeys
\* apart, and the string with the message may be one allocation too many.
Fail(c) ==
    \/ Return(c, ErrorAnswer(c)) /\ UNCHANGED leaks
    \/ ~Doing(c, "getKeys") /\ Raise(c)

\* A read-only connection cannot roll a hot journal back, nor write.
StepRefused(c) ==
    /\ At(c, "busy") /\ c \in ReadOnly
    /\ (Hot /\ c \notin leaked) \/ (Writes(c) /\ MayRead(c))
    /\ Fail(c)
    /\ UNCHANGED file

\* An error of the operating system while rows are read.
StepFails(c) ==
    /\ <<"io", c>> \in Faults
    /\ At(c, "busy") \/ At(c, "rows")
    /\ Fail(c)
    /\ UNCHANGED file

\* The disk is full, or the write fails: SQLite rolls back, store or remove
\* returns false.
WriteFails(c) ==
    /\ <<"io", c>> \in Faults
    /\ At(c, "commit") \/ At(c, "flush")
    /\ disk' = journal /\ journal' = NoJournal
    /\ Fail(c)

\* fetch steps onto its row.
FetchStep(c) ==
    /\ At(c, "busy") /\ Doing(c, "fetch") /\ MayRead(c)
    /\ read' = [read EXCEPT ![c] = disk[call[c].key]]
    /\ shared' = shared \cup {c}
    /\ Goto(c, "row")
    /\ UNCHANGED <<calls, writer, pending, file, leaks>>

\* mutant: fetch finalizes only when it has an object to return.
FetchKeepsNull(c) ==
    /\ At(c, "row")
    /\ read[c] \in Corrupt => c \in CApi
    /\ call' = [call EXCEPT ![c] = NoCall]
    /\ answer' = [answer EXCEPT ![c] = <<"row", IF read[c] \in Corrupt THEN NoRow ELSE read[c]>>]
    /\ Goto(c, "ready")
    /\ read' = [read EXCEPT ![c] = NoRow]
    /\ shared' = IF read[c] = NoRow THEN shared ELSE Released(c)
    /\ UNCHANGED <<writer, pending, file, leaks>>

\* mutant: the unpacking function does not check its bounds.
FetchUnchecked(c) ==
    /\ At(c, "row")
    /\ Return(c, <<"row", read[c]>>)
    /\ UNCHANGED <<file, leaks>>

\* The row, if there is one, is unpacked and the statement finalized.  The C
\* interface returns NULL for a corrupt row.
FetchEnd(c) ==
    /\ At(c, "row")
    /\ read[c] \in Corrupt => c \in CApi
    /\ Return(c, <<"row", IF read[c] \in Corrupt THEN NoRow ELSE read[c]>>)
    /\ UNCHANGED <<file, leaks>>

\* new throws bad_alloc, calloc returns NULL: finalized as well.
FetchNoMemory(c) ==
    /\ <<"memory", c>> \in Faults
    /\ At(c, "row") /\ read[c] # NoRow
    /\ Return(c, <<"row", NoRow>>)
    /\ UNCHANGED <<file, leaks>>

\* An exception leaves the method with its statement on a row: SHARED stays.
RaiseOnRow(c) ==
    /\ leaked' = leaked \cup {c}
    /\ call' = [call EXCEPT ![c] = NoCall]
    /\ answer' = [answer EXCEPT ![c] = <<"thrown">>]
    /\ Goto(c, "ready")
    /\ read' = [read EXCEPT ![c] = NoRow]
    /\ UNCHANGED <<locks, file, unfinalized>>

\* The C++ constructor throws VpdException, which fetch does not catch.
FetchThrows(c) ==
    /\ At(c, "row")
    /\ read[c] \in Corrupt /\ c \notin CApi
    /\ RaiseOnRow(c)

\* new throws where nobody catches it: in the string with the message that
\* fetch logs when it has caught bad_alloc, and where getKeys copies a key.
RowThrows(c) ==
    /\ <<"memory", c>> \in Faults /\ c \notin CApi
    /\ \/ At(c, "row") /\ read[c] # NoRow
       \/ At(c, "rows") /\ ~(KeysOf(disk) \subseteq read[c])
    /\ RaiseOnRow(c)

\* getKeys steps for the first time.
KeysFirst(c) ==
    /\ At(c, "busy") /\ Doing(c, "getKeys") /\ MayRead(c)
    /\ shared' = shared \cup {c}
    /\ read' = [read EXCEPT ![c] = {}]
    /\ Goto(c, "rows")
    /\ UNCHANGED <<calls, writer, pending, file, leaks>>

\* mutant: each row is read by a statement of its own.
KeysReprepared(c) ==
    /\ At(c, "rows")
    /\ \E k \in KeysOf(disk) \ read[c] : read' = [read EXCEPT ![c] = @ \cup {k}]
    /\ shared' = Released(c)
    /\ UNCHANGED <<calls, pc, writer, pending, file, leaks>>

\* One more key; the order is the index's.
KeysNext(c) ==
    /\ At(c, "rows")
    /\ \E k \in KeysOf(disk) \ read[c] : read' = [read EXCEPT ![c] = @ \cup {k}]
    /\ UNCHANGED <<calls, pc, locks, file, leaks>>

KeysEnd(c) ==
    /\ At(c, "rows") /\ KeysOf(disk) \subseteq read[c]
    /\ Return(c, <<"keys", read[c]>>)
    /\ UNCHANGED <<file, leaks>>

\* store packs the object between preparing the INSERT and stepping it.
PackThrows(c) ==
    /\ At(c, "busy") /\ Doing(c, "store")
    /\ Raise(c)
    /\ UNCHANGED file

\* INSERT or DELETE takes RESERVED, after SHARED, and saves the old pages.
WriteStep(c) ==
    /\ At(c, "busy") /\ Writes(c) /\ c \notin ReadOnly
    /\ MayRead(c) /\ writer = NoConn
    /\ call[c].op = "store" => disk[call[c].key] = NoRow
    /\ shared' = shared \cup {c}
    /\ writer' = c
    /\ journal' = disk
    /\ Goto(c, "commit")
    /\ UNCHANGED <<calls, pending, disk, leaks, read>>

\* mutant: store tries again until the key is free.
StoreRetries(c) ==
    /\ At(c, "busy") /\ Doing(c, "store") /\ c \notin ReadOnly
    /\ MayRead(c) /\ writer = NoConn
    /\ disk[call[c].key] # NoRow
    /\ UNCHANGED vars

\* There is a row with this key: SQLITE_CONSTRAINT, store returns false.
StoreConflict(c) ==
    /\ At(c, "busy") /\ Doing(c, "store") /\ c \notin ReadOnly
    /\ MayRead(c) /\ writer = NoConn
    /\ disk[call[c].key] # NoRow
    /\ Fail(c)
    /\ UNCHANGED file

\* Another connection holds RESERVED and this one has a statement open: to
\* wait might be a deadlock, so SQLite asks no busy handler and returns
\* SQLITE_BUSY ("Another instance of vpdupdate running").
WriteBusy(c) ==
    /\ At(c, "busy") /\ Writes(c) /\ c \in leaked
    /\ writer # NoConn
    /\ Fail(c)
    /\ UNCHANGED file

\* The end of the statement: PENDING, if there are readers, ...
Pending(c) ==
    /\ At(c, "commit") /\ shared # {c} /\ ~pending
    /\ pending' = TRUE
    /\ UNCHANGED <<calls, pc, shared, writer, file, leaks, read>>

\* ... then EXCLUSIVE and the pages, ...
FlushHalf(c) ==
    /\ At(c, "commit") /\ shared = {c}
    /\ disk' = [disk EXCEPT ![call[c].key] = Torn]
    /\ Goto(c, "flush")
    /\ UNCHANGED <<calls, locks, journal, leaks, read>>

Flush(c) ==
    /\ At(c, "flush")
    /\ disk' = [disk EXCEPT ![call[c].key] = call[c].row]
    /\ Goto(c, "flushed")
    /\ UNCHANGED <<calls, locks, journal, leaks, read>>

\* ... and with the journal the transaction ends.
Commit(c) ==
    /\ At(c, "flushed")
    /\ journal' = NoJournal
    /\ Return(c, <<"true">>)
    /\ UNCHANGED <<disk, leaks>>

-----------------------------------------------------------------------------
\* ~VpdDbEnv, free_vpddbenv: sqlite3_close refuses a connection that has a
\* statement left; the destructor logs it and goes on.  A connection that is
\* closed leaves nothing behind, and another client takes its place.
Destroy(c) ==
    /\ At(c, "ready")
    /\ Goto(c, IF c \in leaked \cup unfinalized THEN "destroyed" ELSE "ready")
    /\ answer' = [answer EXCEPT ![c] = None]
    /\ UNCHANGED <<call, locks, file, leaks, read>>

\* The process ends, at any point; the locks go, the journal stays.
Exit(c) ==
    /\ <<"exit", c>> \in Faults
    /\ ~At(c, "ready") \/ c \in leaked \cup unfinalized
    /\ call' = [call EXCEPT ![c] = NoCall]
    /\ answer' = [answer EXCEPT ![c] = None]
    /\ Goto(c, "ready")
    /\ read' = [read EXCEPT ![c] = NoRow]
    /\ shared' = shared \ {c}
    /\ leaked' = leaked \ {c} /\ unfinalized' = unfinalized \ {c}
    /\ writer' = IF writer = c THEN NoConn ELSE writer
    /\ pending' = (pending /\ writer # c)
    /\ UNCHANGED file

-----------------------------------------------------------------------------
\* What a call does by itself.  Each of these waits, if at all, in the busy
\* handler.
Lock(c) ==
    FetchStep(c) \/ KeysFirst(c) \/ WriteStep(c) \/ StoreConflict(c) \/ StepRefused(c)
Step(c) ==
    \/ Recover(c) \/ FetchEnd(c) \/ FetchThrows(c)
    \/ KeysNext(c) \/ KeysEnd(c) \/ WriteBusy(c)
    \/ Pending(c) \/ FlushHalf(c) \/ Flush(c) \/ Commit(c)

Next ==
    \E c \in Conn :
        \/ Begin(c) \/ Lock(c) \/ Step(c) \/ StepFails(c) \/ WriteFails(c)
        \/ FetchNoMemory(c) \/ RowThrows(c) \/ PackThrows(c) \/ Destroy(c) \/ Exit(c)

Spec == Init /\ [][Next]_vars

\* A call goes on, and one that the busy handler sends back to a lock that
\* is free again and again gets it: its sleeps (0, 1, 2, ... seconds) do not
\* keep step with the calls of the others.
FairSpec ==
    /\ Spec
    /\ \A c \in Conn : WF_vars(Step(c)) /\ SF_vars(Lock(c))

-----------------------------------------------------------------------------
(* Properties.                                                             *)

\* Between calls a connection holds a lock of SQLite only if an exception has
\* left a call of it with the statement on a row: a fetch of a corrupt row, a
\* fetch or getKeys without memory.  The exceptions of store and remove leave
\* no lock, and the C functions finalize on every way out.  (A connection
\* with a statement left survives its VpdDbEnv.)
LeakAccounted ==
    /\ \A c \in shared : call[c] = NoCall => c \in leaked
    /\ (leaked \cup unfinalized) \cap CApi = {}
    /\ writer # NoConn => Writes(writer)

\* A call that has started returns, or there is a process that goes on with
\* a statement left on a row: then writers wait for it, and everyone who is not in
\* the database yet waits for them.
CallsReturn ==
    \A c \in Conn : call[c] # NoCall ~> (call[c] = NoCall \/ leaked \ {c} # {})

\* The rows as of the last committed statement.
Committed == IF journal # NoJournal THEN journal ELSE disk

\* Calls of any number of processes, dying wherever they like, take effect
\* as if each were one step: no row half written, no list of keys of two
\* moments, nothing left of a store that did not return true.
Abstract == INSTANCE VpdTable WITH table <- Committed
ActsAtomically == Abstract!TableSpec
=============================================================================
