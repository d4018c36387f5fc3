-------------------------- MODULE StatementsProofs --------------------------
(***************************************************************************)
(* For any number of connections, keys and rows: what SQLite's locks       *)
(* protect while the methods of VpdDbEnv and the fetches of the C          *)
(* interface run, and that each call acts as one step on the table.        *)
(***************************************************************************)
EXTENDS Statements, TLAPS

Reading == {"row", "rows"}
Writing == {"commit", "flush", "flushed"}

\* Where a connection is says what it is doing.
Doings ==
    \A c \in Conn :
        /\ call[c] = NoCall <=> pc[c] \in {"ready", "destroyed"}
        /\ At(c, "row") => Doing(c, "fetch")
        /\ At(c, "rows") => Doing(c, "getKeys")
        /\ pc[c] \in Writing => Writes(c)

\* Who holds which lock.
Locks ==
    /\ \A c \in Conn : c \in shared <=> c \in leaked \/ pc[c] \in Reading \cup Writing
    /\ \A c \in Conn : pc[c] \in Writing <=> writer = c
    /\ pending => writer # NoConn
    /\ Exclusive => shared = {writer}
    /\ writer # NoConn => journal # NoJournal
    /\ (leaked \cup unfinalized) \cap CApi = {}

\* What is in the file, by how far the writer has got.
Pages ==
    /\ journal = NoJournal => disk \in Content
    /\ Hot /\ shared # {} => disk = journal
    /\ \A c \in Conn :
        /\ At(c, "commit") => disk = journal
        /\ At(c, "flush") => disk = [journal EXCEPT ![call[c].key] = Torn]
        /\ At(c, "flushed") => disk = [journal EXCEPT ![call[c].key] = call[c].row]
        /\ pc[c] \in Writing /\ Doing(c, "store") => journal[call[c].key] = NoRow

\* What a reader has read is what is there.
Reads ==
    \A c \in Conn :
        /\ At(c, "row") => read[c] = disk[call[c].key]
        /\ At(c, "rows") => read[c] \in SUBSET KeysOf(disk)

IInv == TypeOK /\ Doings /\ Locks /\ Pages /\ Reads

-----------------------------------------------------------------------------
\* The fields of a call.
LEMMA CallFields ==
    ASSUME NEW q \in Call
    PROVE  /\ q.op \in {"fetch", "remove", "store", "getKeys"}
           /\ q.op # "getKeys" => q.key \in Key
           /\ q.op = "store" => q.row \in Row
           /\ q.op = "remove" => q.row = NoRow
  BY DEF Call

\* Who may take SHARED, or has it without being the writer, sees the rows of
\* the last committed statement.
LEMMA ReaderSees ==
    ASSUME IInv, NEW c \in Conn,
           (At(c, "busy") /\ MayRead(c)) \/ pc[c] \in Reading
    PROVE  disk \in Content /\ disk = Committed /\ ~Exclusive
  <1>1. ~Exclusive
    BY NamesAssumption DEF IInv, TypeOK, Locks, Exclusive, MayRead, Reading, Writing, At
  <1>2. CASE journal = NoJournal
    BY <1>1, <1>2 DEF IInv, Pages, Committed
  <1>3. CASE journal # NoJournal /\ writer = NoConn
    <2>1. shared # {}
      BY <1>3 DEF IInv, Locks, MayRead, Hot, Reading
    <2>2. QED
      BY <1>1, <1>3, <2>1 DEF IInv, TypeOK, Pages, Committed, Hot
  <1>4. CASE journal # NoJournal /\ writer # NoConn
    <2>1. At(writer, "commit")
      BY <1>1, <1>4 DEF IInv, TypeOK, Locks, Exclusive, Writing, At
    <2>2. disk = journal
      BY <1>4, <2>1 DEF IInv, TypeOK, Pages
    <2>3. QED
      BY <1>1, <1>4, <2>2 DEF IInv, TypeOK, Committed
  <1>5. QED
    BY <1>2, <1>3, <1>4

\* What a call may answer.
LEMMA Answers ==
    /\ {None, <<"true">>, <<"false">>, <<"thrown">>} \subseteq Answer
    /\ \A r \in (Row \ Corrupt) \cup {NoRow} : <<"row", r>> \in Answer
    /\ \A S \in SUBSET Key : <<"keys", S>> \in Answer /\ <<"part", S>> \in Answer
  BY DEF Answer

-----------------------------------------------------------------------------
\* At the start nobody has a lock and there is no journal.
LEMMA InitInv == Init => IInv
  <1> SUFFICES ASSUME Init PROVE IInv
    OBVIOUS
  <1>1. disk \in Content
    BY NamesAssumption DEF Init
  <1>2. TypeOK
    <2>1. disk \in [Key -> Row \cup {NoRow, Torn}]
      BY <1>1 DEF Content
    <2>2. QED
      BY <2>1, Answers DEF Init, TypeOK, Phase
  <1>3. Doings
    BY DEF Init, Doings, At, Writing
  <1>4. Locks
    BY NamesAssumption DEF Init, Locks, Exclusive, Reading, Writing
  <1>5. Pages
    BY <1>1 DEF Init, Pages, Hot, At, Writing
  <1>6. Reads
    BY DEF Init, Reads, At
  <1>7. QED
    BY <1>2, <1>3, <1>4, <1>5, <1>6 DEF IInv

\* A connection goes to a place only with the call that belongs there.
LEMMA DoingsKept == IInv /\ [Next]_vars => Doings'
  <1> SUFFICES ASSUME IInv, [Next]_vars PROVE Doings'
    OBVIOUS
  <1> USE RolesAssumption, NoCallAssumption DEF IInv, TypeOK, Doings, At, Goto, Doing,
      Writes, Reading, Writing, locks, file, calls, leaks
  <1>1. ASSUME NEW c \in Conn, Begin(c) PROVE Doings'
    BY <1>1 DEF Begin
  <1>2. ASSUME NEW c \in Conn, Recover(c) PROVE Doings'
    BY <1>2 DEF Recover
  <1>3. ASSUME NEW c \in Conn, StepRefused(c) PROVE Doings'
    BY <1>3 DEF StepRefused, Fail, Raise, Return, Released, ErrorAnswer
  <1>4. ASSUME NEW c \in Conn, StepFails(c) PROVE Doings'
    BY <1>4 DEF StepFails, Fail, Raise, Return, Released, ErrorAnswer
  <1>5. ASSUME NEW c \in Conn, WriteFails(c) PROVE Doings'
    BY <1>5 DEF WriteFails, Fail, Raise, Return, Released
  <1>6. ASSUME NEW c \in Conn, FetchStep(c) PROVE Doings'
    BY <1>6 DEF FetchStep
  <1>7. ASSUME NEW c \in Conn, FetchEnd(c) PROVE Doings'
    BY <1>7 DEF FetchEnd, Return, Released
  <1>8. ASSUME NEW c \in Conn, FetchNoMemory(c) PROVE Doings'
    BY <1>8 DEF FetchNoMemory, Return, Released
  <1>9. ASSUME NEW c \in Conn, FetchThrows(c) \/ RowThrows(c) PROVE Doings'
    BY <1>9 DEF FetchThrows, RowThrows, RaiseOnRow
  <1>10. ASSUME NEW c \in Conn, KeysFirst(c) PROVE Doings'
    BY <1>10 DEF KeysFirst
  <1>11. ASSUME NEW c \in Conn, KeysNext(c) PROVE Doings'
    BY <1>11 DEF KeysNext
  <1>12. ASSUME NEW c \in Conn, KeysEnd(c) PROVE Doings'
    BY <1>12 DEF KeysEnd, Return, Released
  <1>13. ASSUME NEW c \in Conn, WriteStep(c) PROVE Doings'
    BY <1>13 DEF WriteStep
  <1>14. ASSUME NEW c \in Conn, StoreConflict(c) PROVE Doings'
    BY <1>14 DEF StoreConflict, Fail, Raise, Return, Released
  <1>15. ASSUME NEW c \in Conn, WriteBusy(c) PROVE Doings'
    BY <1>15 DEF WriteBusy, Fail, Raise, Return, Released
  <1>16. ASSUME NEW c \in Conn, Pending(c) PROVE Doings'
    BY <1>16 DEF Pending
  <1>17. ASSUME NEW c \in Conn, FlushHalf(c) PROVE Doings'
    BY <1>17 DEF FlushHalf
  <1>18. ASSUME NEW c \in Conn, Flush(c) PROVE Doings'
    BY <1>18 DEF Flush
  <1>19. ASSUME NEW c \in Conn, Commit(c) PROVE Doings'
    BY <1>19 DEF Commit, Return, Released
  <1>20. ASSUME NEW c \in Conn, Destroy(c) PROVE Doings'
    BY <1>20 DEF Destroy
  <1>21. ASSUME NEW c \in Conn, Exit(c) PROVE Doings'
    BY <1>21 DEF Exit
  <1>22. ASSUME NEW c \in Conn, PackThrows(c) PROVE Doings'
    BY <1>22 DEF PackThrows, Raise, Return, Released
  <1>23. CASE UNCHANGED vars
    BY <1>23 DEF vars, calls, locks, file, leaks
  <1>24. QED
    BY <1>1, <1>2, <1>3, <1>4, <1>5, <1>6, <1>7, <1>8, <1>9, <1>10, <1>11, <1>12,
       <1>13, <1>14, <1>15, <1>16, <1>17, <1>18, <1>19, <1>20, <1>21, <1>22, <1>23 DEF Next,
       Lock, Step

\* The types that the locks need.
LockTypes ==
    /\ pc \in [Conn -> Phase]
    /\ shared \subseteq Conn /\ leaked \subseteq Conn /\ unfinalized \subseteq Conn
    /\ writer \in Conn \cup {NoConn} /\ NoConn \notin Conn
    /\ pending \in BOOLEAN

\* SHARED, RESERVED, PENDING and EXCLUSIVE are taken and given back as the
\* places say, also when a process ends.
LEMMA LocksKept == IInv /\ [Next]_vars => Locks'
  <1> SUFFICES ASSUME IInv, [Next]_vars PROVE Locks'
    OBVIOUS
  <1> LockTypes /\ Locks
    BY NamesAssumption DEF IInv, TypeOK, LockTypes
  <1> NoJournal \notin Content
    BY NamesAssumption
  <1> USE DEF LockTypes, Locks, Exclusive, At, Goto, Reading, Writing, locks, file, calls, leaks
  <1>1. ASSUME NEW c \in Conn, Begin(c) PROVE Locks'
    BY <1>1 DEF Begin
  <1>2. ASSUME NEW c \in Conn, Recover(c) PROVE Locks'
    BY <1>2 DEF Recover
  <1>3. ASSUME NEW c \in Conn, StepRefused(c) PROVE Locks'
    BY <1>3 DEF StepRefused, Fail, Raise, Return, Released, ErrorAnswer
  <1>4. ASSUME NEW c \in Conn, StepFails(c) PROVE Locks'
    BY <1>4 DEF StepFails, Fail, Raise, Return, Released, ErrorAnswer
  <1>5. ASSUME NEW c \in Conn, WriteFails(c) PROVE Locks'
    <2>1. writer = c /\ ~(writer' # NoConn)
      BY <1>5 DEF WriteFails, Fail, Raise, Return
    <2>2. shared' = Released(c) /\ pc' = [pc EXCEPT ![c] = "ready"]
      BY <1>5 DEF WriteFails, Fail, Raise, Return
    <2>3. /\ leaked' = leaked
          /\ \/ unfinalized' = unfinalized
             \/ unfinalized' = unfinalized \cup {c} /\ c \notin CApi
      BY <1>5 DEF WriteFails, Fail, Raise
    <2>4. pending' = FALSE
      BY <1>5, <2>1 DEF WriteFails, Fail, Raise, Return
    <2>5. QED
      BY <2>1, <2>2, <2>3, <2>4 DEF Released
  <1>6. ASSUME NEW c \in Conn, FetchStep(c) PROVE Locks'
    BY <1>6 DEF FetchStep, MayRead
  <1>7. ASSUME NEW c \in Conn, FetchEnd(c) PROVE Locks'
    BY <1>7 DEF FetchEnd, Return, Released
  <1>8. ASSUME NEW c \in Conn, FetchNoMemory(c) PROVE Locks'
    BY <1>8 DEF FetchNoMemory, Return, Released
  <1>9. ASSUME NEW c \in Conn, FetchThrows(c) \/ RowThrows(c) PROVE Locks'
    BY <1>9 DEF FetchThrows, RowThrows, RaiseOnRow
  <1>10. ASSUME NEW c \in Conn, KeysFirst(c) PROVE Locks'
    BY <1>10 DEF KeysFirst, MayRead
  <1>11. ASSUME NEW c \in Conn, KeysNext(c) PROVE Locks'
    BY <1>11 DEF KeysNext
  <1>12. ASSUME NEW c \in Conn, KeysEnd(c) PROVE Locks'
    BY <1>12 DEF KeysEnd, Return, Released
  <1>13. ASSUME NEW c \in Conn, WriteStep(c) PROVE Locks'
    <2>1. journal' # NoJournal
      BY <1>13, ReaderSees DEF WriteStep
    <2>2. QED
      BY <1>13, <2>1 DEF WriteStep, MayRead, Phase
  <1>14. ASSUME NEW c \in Conn, StoreConflict(c) PROVE Locks'
    BY <1>14 DEF StoreConflict, Fail, Raise, Return, Released
  <1>15. ASSUME NEW c \in Conn, WriteBusy(c) PROVE Locks'
    BY <1>15 DEF WriteBusy, Fail, Raise, Return, Released
  <1>16. ASSUME NEW c \in Conn, Pending(c) PROVE Locks'
    BY <1>16 DEF Pending
  <1>17. ASSUME NEW c \in Conn, FlushHalf(c) PROVE Locks'
    BY <1>17 DEF FlushHalf
  <1>18. ASSUME NEW c \in Conn, Flush(c) PROVE Locks'
    BY <1>18 DEF Flush
  <1>19. ASSUME NEW c \in Conn, Commit(c) PROVE Locks'
    BY <1>19 DEF Commit, Return, Released
  <1>20. ASSUME NEW c \in Conn, Destroy(c) PROVE Locks'
    BY <1>20 DEF Destroy
  <1>21. ASSUME NEW c \in Conn, Exit(c) PROVE Locks'
    BY <1>21 DEF Exit
  <1>22. ASSUME NEW c \in Conn, PackThrows(c) PROVE Locks'
    BY <1>22 DEF PackThrows, Raise, Return, Released
  <1>23. CASE UNCHANGED vars
    BY <1>23 DEF vars, calls, locks, file, leaks
  <1>24. QED
    BY <1>1, <1>2, <1>3, <1>4, <1>5, <1>6, <1>7, <1>8, <1>9, <1>10, <1>11, <1>12,
       <1>13, <1>14, <1>15, <1>16, <1>17, <1>18, <1>19, <1>20, <1>21, <1>22, <1>23 DEF Next,
       Lock, Step

\* What a reader at its row, or in its list, has read.
LEMMA ReadTypes ==
    ASSUME IInv, NEW c \in Conn
    PROVE  /\ At(c, "row") => /\ read[c] = Committed[call[c].key]
                              /\ read[c] \in Row \cup {NoRow}
           /\ At(c, "rows") => read[c] \in SUBSET KeysOf(Committed)
           /\ ErrorAnswer(c) \in Answer
  <1>1. ASSUME At(c, "row")
        PROVE read[c] = Committed[call[c].key] /\ read[c] \in Row \cup {NoRow}
    <2>1. call[c].key \in Key
      BY <1>1, CallFields DEF IInv, TypeOK, Doings, Doing
    <2>2. disk \in Content /\ disk = Committed
      BY <1>1, ReaderSees DEF At, Reading
    <2>3. read[c] = disk[call[c].key]
      BY <1>1 DEF IInv, Reads
    <2>4. QED
      BY <2>1, <2>2, <2>3 DEF Content
  <1>2. ASSUME At(c, "rows") PROVE read[c] \in SUBSET KeysOf(Committed)
    BY <1>2, ReaderSees DEF IInv, Reads, At, Reading
  <1>3. ErrorAnswer(c) \in Answer
    BY <1>2, Answers DEF ErrorAnswer, KeysOf
  <1>4. QED
    BY <1>1, <1>2, <1>3

\* What a call leaves behind that fails is of its type.
LEMMA FailTypes ==
    ASSUME IInv, NEW c \in Conn, Fail(c) \/ Raise(c)
    PROVE  /\ call' \in [Conn -> Call \cup {NoCall}] /\ answer' \in [Conn -> Answer]
           /\ pc' \in [Conn -> Phase]
           /\ shared' \subseteq Conn /\ leaked' \subseteq Conn /\ unfinalized' \subseteq Conn
           /\ writer' \in Conn \cup {NoConn} /\ pending' \in BOOLEAN
           /\ read' \in [Conn -> Row \cup {NoRow} \cup SUBSET Key]
  <1> /\ ErrorAnswer(c) \in Answer /\ <<"thrown">> \in Answer /\ "ready" \in Phase
    BY ReadTypes, Answers DEF Phase
  <1>1. ASSUME NEW a \in Answer, Return(c, a)
        PROVE  /\ call' \in [Conn -> Call \cup {NoCall}] /\ answer' \in [Conn -> Answer]
               /\ pc' \in [Conn -> Phase]
               /\ shared' \subseteq Conn
               /\ writer' \in Conn \cup {NoConn} /\ pending' \in BOOLEAN
               /\ read' \in [Conn -> Row \cup {NoRow} \cup SUBSET Key]
    BY <1>1 DEF IInv, TypeOK, Return, Released, Goto
  <1>2. /\ \E a \in Answer : Return(c, a)
        /\ leaked' \subseteq Conn /\ unfinalized' \subseteq Conn
    BY DEF Fail, Raise, leaks, IInv, TypeOK
  <1>3. QED
    BY <1>1, <1>2

\* No step leaves the types; for fetch and getKeys this needs ReadTypes, as
\* torn pages are of the disk's type and not of an answer's.
LEMMA TypeKept == IInv /\ [Next]_vars => TypeOK'
  <1> SUFFICES ASSUME IInv, [Next]_vars PROVE TypeOK'
    OBVIOUS
  <1> TypeOK
    BY DEF IInv
  <1> USE RolesAssumption, Answers DEF TypeOK, Phase, At, Goto, locks, file, calls, leaks
  <1>1. ASSUME NEW c \in Conn, Begin(c) PROVE TypeOK'
    BY <1>1 DEF Begin
  <1>2. ASSUME NEW c \in Conn, Recover(c) PROVE TypeOK'
    <2>1. disk' \in [Key -> Row \cup {NoRow, Torn}]
      BY <1>2 DEF Recover, Hot, Content
    <2>2. QED
      BY <1>2, <2>1 DEF Recover
  <1>3. ASSUME NEW c \in Conn, StepRefused(c) PROVE TypeOK'
    BY <1>3, FailTypes DEF StepRefused
  <1>4. ASSUME NEW c \in Conn, StepFails(c) PROVE TypeOK'
    BY <1>4, FailTypes DEF StepFails
  <1>5. ASSUME NEW c \in Conn, WriteFails(c) PROVE TypeOK'
    <2>1. disk' \in [Key -> Row \cup {NoRow, Torn}]
      BY <1>5, NamesAssumption DEF WriteFails, IInv, Locks, Writing, Content
    <2>2. QED
      BY <1>5, <2>1, FailTypes DEF WriteFails
  <1>6. ASSUME NEW c \in Conn, FetchStep(c) PROVE TypeOK'
    <2>1. call[c].key \in Key
      BY <1>6, CallFields DEF FetchStep, Doing
    <2>2. disk \in Content
      BY <1>6, ReaderSees DEF FetchStep
    <2>3. QED
      BY <1>6, <2>1, <2>2 DEF FetchStep, Content
  <1>7. ASSUME NEW c \in Conn, FetchEnd(c) PROVE TypeOK'
    BY <1>7, ReadTypes DEF FetchEnd, Return, Released
  <1>8. ASSUME NEW c \in Conn, FetchNoMemory(c) PROVE TypeOK'
    BY <1>8 DEF FetchNoMemory, Return, Released
  <1>9. ASSUME NEW c \in Conn, FetchThrows(c) \/ RowThrows(c) PROVE TypeOK'
    BY <1>9 DEF FetchThrows, RowThrows, RaiseOnRow
  <1>10. ASSUME NEW c \in Conn, KeysFirst(c) PROVE TypeOK'
    BY <1>10 DEF KeysFirst, KeysOf
  <1>11. ASSUME NEW c \in Conn, KeysNext(c) PROVE TypeOK'
    <2>1. read[c] \in SUBSET Key
      BY <1>11, ReadTypes DEF KeysNext, KeysOf
    <2>2. QED
      BY <1>11, <2>1 DEF KeysNext, KeysOf
  <1>12. ASSUME NEW c \in Conn, KeysEnd(c) PROVE TypeOK'
    <2>1. read[c] \in SUBSET Key
      BY <1>12, ReadTypes DEF KeysEnd, KeysOf
    <2>2. QED
      BY <1>12, <2>1 DEF KeysEnd, Return, Released
  <1>13. ASSUME NEW c \in Conn, WriteStep(c) PROVE TypeOK'
    <2>1. disk \in Content
      BY <1>13, ReaderSees DEF WriteStep
    <2>2. QED
      BY <1>13, <2>1 DEF WriteStep
  <1>14. ASSUME NEW c \in Conn, StoreConflict(c) PROVE TypeOK'
    BY <1>14, FailTypes DEF StoreConflict
  <1>15. ASSUME NEW c \in Conn, WriteBusy(c) PROVE TypeOK'
    BY <1>15, FailTypes DEF WriteBusy
  <1>16. ASSUME NEW c \in Conn, Pending(c) PROVE TypeOK'
    BY <1>16 DEF Pending
  <1>17. ASSUME NEW c \in Conn, FlushHalf(c) PROVE TypeOK'
    BY <1>17 DEF FlushHalf
  <1>18. ASSUME NEW c \in Conn, Flush(c) PROVE TypeOK'
    <2>1. call[c].row \in Row \cup {NoRow} 
      BY <1>18, CallFields DEF Flush, IInv, Doings, Writes, Doing, Writing
    <2>2. QED
      BY <1>18, <2>1 DEF Flush
  <1>19. ASSUME NEW c \in Conn, Commit(c) PROVE TypeOK'
    BY <1>19 DEF Commit, Return, Released
  <1>20. ASSUME NEW c \in Conn, Destroy(c) PROVE TypeOK'
    BY <1>20 DEF Destroy
  <1>21. ASSUME NEW c \in Conn, Exit(c) PROVE TypeOK'
    BY <1>21 DEF Exit
  <1>22. ASSUME NEW c \in Conn, PackThrows(c) PROVE TypeOK'
    BY <1>22, FailTypes DEF PackThrows
  <1>23. CASE UNCHANGED vars
    BY <1>23 DEF vars, calls, locks, file, leaks
  <1>24. QED
    BY <1>1, <1>2, <1>3, <1>4, <1>5, <1>6, <1>7, <1>8, <1>9, <1>10, <1>11, <1>12,
       <1>13, <1>14, <1>15, <1>16, <1>17, <1>18, <1>19, <1>20, <1>21, <1>22, <1>23 DEF Next,
       Lock, Step

\* The journal is the way back from wherever the writer is.
LEMMA PagesKept == IInv /\ [Next]_vars => Pages'
  <1> SUFFICES ASSUME IInv, [Next]_vars PROVE Pages'
    OBVIOUS
  <1> LockTypes /\ Locks /\ Pages /\ Doings
    BY NamesAssumption DEF IInv, TypeOK, LockTypes
  <1> /\ call \in [Conn -> Call \cup {NoCall}]
      /\ journal \in Content \cup {NoJournal} /\ NoJournal \notin Content
    BY NamesAssumption DEF IInv, TypeOK
  <1> USE DEF LockTypes, Locks, Pages, Doings, Hot, Exclusive, At, Goto, Doing,
      Writes, Reading, Writing, locks, file, calls, leaks
  <1>1. ASSUME NEW c \in Conn, Begin(c) PROVE Pages'
    BY <1>1 DEF Begin
  <1>2. ASSUME NEW c \in Conn, Recover(c) PROVE Pages'
    BY <1>2 DEF Recover
  <1>3. ASSUME NEW c \in Conn, StepRefused(c) PROVE Pages'
    BY <1>3 DEF StepRefused, Fail, Raise, Return, Released, ErrorAnswer
  <1>4. ASSUME NEW c \in Conn, StepFails(c) PROVE Pages'
    BY <1>4 DEF StepFails, Fail, Raise, Return, Released, ErrorAnswer
  <1>5. ASSUME NEW c \in Conn, WriteFails(c) PROVE Pages'
    BY <1>5 DEF WriteFails, Fail, Raise, Return, Released
  <1>6. ASSUME NEW c \in Conn, FetchStep(c) PROVE Pages'
    BY <1>6 DEF FetchStep, MayRead
  <1>7. ASSUME NEW c \in Conn, FetchEnd(c) PROVE Pages'
    BY <1>7 DEF FetchEnd, Return, Released
  <1>8. ASSUME NEW c \in Conn, FetchNoMemory(c) PROVE Pages'
    BY <1>8 DEF FetchNoMemory, Return, Released
  <1>9. ASSUME NEW c \in Conn, FetchThrows(c) \/ RowThrows(c) PROVE Pages'
    BY <1>9 DEF FetchThrows, RowThrows, RaiseOnRow
  <1>10. ASSUME NEW c \in Conn, KeysFirst(c) PROVE Pages'
    BY <1>10 DEF KeysFirst, MayRead
  <1>11. ASSUME NEW c \in Conn, KeysNext(c) PROVE Pages'
    BY <1>11 DEF KeysNext
  <1>12. ASSUME NEW c \in Conn, KeysEnd(c) PROVE Pages'
    BY <1>12 DEF KeysEnd, Return, Released
  <1>13. ASSUME NEW c \in Conn, WriteStep(c) PROVE Pages'
    <2>1. disk \in Content
      BY <1>13, ReaderSees DEF WriteStep
    <2>2. QED
      BY <1>13, <2>1 DEF WriteStep, MayRead, Phase
  <1>14. ASSUME NEW c \in Conn, StoreConflict(c) PROVE Pages'
    BY <1>14 DEF StoreConflict, Fail, Raise, Return, Released
  <1>15. ASSUME NEW c \in Conn, WriteBusy(c) PROVE Pages'
    BY <1>15 DEF WriteBusy, Fail, Raise, Return, Released
  <1>16. ASSUME NEW c \in Conn, Pending(c) PROVE Pages'
    BY <1>16 DEF Pending
  <1>17. ASSUME NEW c \in Conn, FlushHalf(c) PROVE Pages'
    BY ZenonT(40), <1>17 DEF FlushHalf
  <1>18. ASSUME NEW c \in Conn, Flush(c) PROVE Pages'
    <2>1. call[c].key \in Key /\ journal \in Content
      BY <1>18, CallFields DEF Flush
    <2>2. disk' = [journal EXCEPT ![call[c].key] = call[c].row]
      BY ZenonT(40), <1>18, <2>1 DEF Flush, Content
    <2>3. QED
      BY ZenonT(40), <1>18, <2>2 DEF Flush
  <1>19. ASSUME NEW c \in Conn, Commit(c) PROVE Pages'
    <2>1. disk \in Content
      <3>1. call[c].key \in Key /\ call[c].row \in Row \cup {NoRow}
        BY <1>19, CallFields DEF Commit
      <3>2. disk = [journal EXCEPT ![call[c].key] = call[c].row] /\ journal \in Content
        BY <1>19 DEF Commit
      <3>3. QED
        BY <3>1, <3>2 DEF Content
    <2>2. QED
      BY <1>19, <2>1 DEF Commit, Return, Released
  <1>20. ASSUME NEW c \in Conn, Destroy(c) PROVE Pages'
    BY <1>20 DEF Destroy
  <1>21. ASSUME NEW c \in Conn, Exit(c) PROVE Pages'
    BY <1>21 DEF Exit
  <1>22. ASSUME NEW c \in Conn, PackThrows(c) PROVE Pages'
    BY <1>22 DEF PackThrows, Raise, Return, Released
  <1>23. CASE UNCHANGED vars
    BY <1>23 DEF vars, calls, locks, file, leaks
  <1>24. QED
    BY <1>1, <1>2, <1>3, <1>4, <1>5, <1>6, <1>7, <1>8, <1>9, <1>10, <1>11, <1>12,
       <1>13, <1>14, <1>15, <1>16, <1>17, <1>18, <1>19, <1>20, <1>21, <1>22, <1>23 DEF Next,
       Lock, Step

\* The pages change under EXCLUSIVE, or when nobody has SHARED.
LEMMA ReadsKept == IInv /\ [Next]_vars => Reads'
  <1> SUFFICES ASSUME IInv, [Next]_vars PROVE Reads'
    OBVIOUS
  <1> LockTypes /\ Locks /\ Pages /\ Reads
    BY NamesAssumption DEF IInv, TypeOK, LockTypes
  <1> DOMAIN read = Conn /\ DOMAIN call = Conn
    BY DEF IInv, TypeOK
  <1> USE DEF LockTypes, Locks, Pages, Reads, Exclusive, At, Goto, Reading, Writing,
      locks, file, calls, leaks
  <1>1. ASSUME NEW c \in Conn, Begin(c) PROVE Reads'
    BY <1>1 DEF Begin
  <1>2. ASSUME NEW c \in Conn, Recover(c) PROVE Reads'
    BY <1>2 DEF Recover
  <1>3. ASSUME NEW c \in Conn, StepRefused(c) PROVE Reads'
    BY <1>3 DEF StepRefused, Fail, Raise, Return, Released, ErrorAnswer
  <1>4. ASSUME NEW c \in Conn, StepFails(c) PROVE Reads'
    BY <1>4 DEF StepFails, Fail, Raise, Return, Released, ErrorAnswer
  <1>5. ASSUME NEW c \in Conn, WriteFails(c) PROVE Reads'
    BY <1>5 DEF WriteFails, Fail, Raise, Return, Released
  <1>6. ASSUME NEW c \in Conn, FetchStep(c) PROVE Reads'
    BY <1>6 DEF FetchStep
  <1>7. ASSUME NEW c \in Conn, FetchEnd(c) PROVE Reads'
    BY <1>7 DEF FetchEnd, Return, Released
  <1>8. ASSUME NEW c \in Conn, FetchNoMemory(c) PROVE Reads'
    BY <1>8 DEF FetchNoMemory, Return, Released
  <1>9. ASSUME NEW c \in Conn, FetchThrows(c) \/ RowThrows(c) PROVE Reads'
    BY <1>9 DEF FetchThrows, RowThrows, RaiseOnRow
  <1>10. ASSUME NEW c \in Conn, KeysFirst(c) PROVE Reads'
    BY <1>10 DEF KeysFirst, KeysOf
  <1>11. ASSUME NEW c \in Conn, KeysNext(c) PROVE Reads'
    BY <1>11 DEF KeysNext
  <1>12. ASSUME NEW c \in Conn, KeysEnd(c) PROVE Reads'
    BY <1>12 DEF KeysEnd, Return, Released
  <1>13. ASSUME NEW c \in Conn, WriteStep(c) PROVE Reads'
    BY <1>13 DEF WriteStep
  <1>14. ASSUME NEW c \in Conn, StoreConflict(c) PROVE Reads'
    BY <1>14 DEF StoreConflict, Fail, Raise, Return, Released
  <1>15. ASSUME NEW c \in Conn, WriteBusy(c) PROVE Reads'
    BY <1>15 DEF WriteBusy, Fail, Raise, Return, Released
  <1>16. ASSUME NEW c \in Conn, Pending(c) PROVE Reads'
    BY <1>16 DEF Pending
  <1>17. ASSUME NEW c \in Conn, FlushHalf(c) PROVE Reads'
    BY <1>17 DEF FlushHalf
  <1>18. ASSUME NEW c \in Conn, Flush(c) PROVE Reads'
    BY <1>18 DEF Flush
  <1>19. ASSUME NEW c \in Conn, Commit(c) PROVE Reads'
    BY <1>19 DEF Commit, Return, Released
  <1>20. ASSUME NEW c \in Conn, Destroy(c) PROVE Reads'
    BY <1>20 DEF Destroy
  <1>21. ASSUME NEW c \in Conn, Exit(c) PROVE Reads'
    BY <1>21 DEF Exit
  <1>22. ASSUME NEW c \in Conn, PackThrows(c) PROVE Reads'
    BY <1>22 DEF PackThrows, Raise, Return, Released
  <1>23. CASE UNCHANGED vars
    BY <1>23 DEF vars, calls, locks, file, leaks
  <1>24. QED
    BY <1>1, <1>2, <1>3, <1>4, <1>5, <1>6, <1>7, <1>8, <1>9, <1>10, <1>11, <1>12,
       <1>13, <1>14, <1>15, <1>16, <1>17, <1>18, <1>19, <1>20, <1>21, <1>22, <1>23 DEF Next,
       Lock, Step

\* The five together are inductive.
LEMMA Invariant == Spec => []IInv
  <1>1. IInv /\ [Next]_vars => IInv'
    BY TypeKept, DoingsKept, LocksKept, PagesKept, ReadsKept DEF IInv
  <1>2. QED
    BY <1>1, InitInv, PTL DEF Spec

-----------------------------------------------------------------------------
\* Type correctness; that no answer is a torn or a corrupt row is part of it.
THEOREM Typing == Spec => []TypeOK
  <1>1. IInv => TypeOK
    BY DEF IInv
  <1>2. QED
    BY <1>1, Invariant, PTL

\* Between calls only a connection that an exception left on a row holds a
\* lock of SQLite, and never one of the C interface.
THEOREM Leaks == Spec => []LeakAccounted
  <1>1. IInv => LeakAccounted
    BY NamesAssumption DEF IInv, TypeOK, Doings, Locks, LeakAccounted, Reading, Writing
  <1>2. QED
    BY <1>1, Invariant, PTL

-----------------------------------------------------------------------------
(* Refinement: the table is the rows as of the last committed statement.   *)

\* What a call that changes nothing answers, the table allows.
LEMMA Unchanged ==
    ASSUME IInv, NEW c \in Conn, UNCHANGED Committed,
           call' = [call EXCEPT ![c] = NoCall],
           \/ answer' = [answer EXCEPT ![c] = None]
           \/ call[c] # NoCall /\ answer' = [answer EXCEPT ![c] = ErrorAnswer(c)]
           \/ Doing(c, "fetch") /\ answer' = [answer EXCEPT ![c] = <<"row", NoRow>>]
           \/ Writes(c) /\ answer' = [answer EXCEPT ![c] = <<"false">>]
           \/ /\ <<"memory", c>> \in Faults /\ call[c] # NoCall /\ c \notin CApi
              /\ answer' = [answer EXCEPT ![c] = <<"thrown">>]
    PROVE  Abstract!TableNext
  <1>1. CASE answer' = [answer EXCEPT ![c] = None]
    BY <1>1 DEF None, Abstract!TableNext, Abstract!Gone, Abstract!Return, Abstract!None
  <1>2. CASE Writes(c) /\ answer' = [answer EXCEPT ![c] = <<"false">>]
    <2>1. Abstract!Refused(c)
      BY <1>2 DEF Writes, Doing, Abstract!Refused, Abstract!Return, Abstract!Doing
    <2>2. QED
      BY <2>1 DEF Abstract!TableNext
  <1>3. CASE Doing(c, "fetch") /\ answer' = [answer EXCEPT ![c] = <<"row", NoRow>>]
    <2>1. NoRow \in {Committed[call[c].key], NoRow} \ Corrupt
      BY CorruptAssumption
    <2>2. Abstract!Fetched(c)
      BY <1>3, <2>1 DEF Doing, Abstract!Fetched, Abstract!Return, Abstract!Doing
    <2>3. QED
      BY <2>2 DEF Abstract!TableNext
  <1>4. CASE call[c] # NoCall /\ answer' = [answer EXCEPT ![c] = ErrorAnswer(c)]
    <2>1. CASE Writes(c) \/ Doing(c, "fetch")
      BY <1>2, <1>3, <1>4, <2>1 DEF ErrorAnswer
    <2>2. CASE ~Writes(c) /\ ~Doing(c, "fetch")
      <3> DEFINE S == IF At(c, "rows") THEN read[c] ELSE {}
      <3>1. S \in SUBSET KeysOf(Committed)
        BY ReadTypes
      <3>2. answer' = [answer EXCEPT ![c] = <<"part", S>>]
        BY <1>4, <2>2 DEF ErrorAnswer
      <3>3. Doing(c, "getKeys")
        BY <1>4, <2>2, CallFields DEF IInv, TypeOK, Doing, Writes
      <3> HIDE DEF S
      <3>4. Abstract!ListedInPart(c)
        BY <3>1, <3>2, <3>3
        DEF Doing, KeysOf,
            Abstract!ListedInPart, Abstract!Return, Abstract!Doing, Abstract!KeysOf
      <3>5. QED
        BY <3>4 DEF Abstract!TableNext
    <2>3. QED
      BY <2>1, <2>2
  <1>5. CASE /\ <<"memory", c>> \in Faults /\ call[c] # NoCall /\ c \notin CApi
             /\ answer' = [answer EXCEPT ![c] = <<"thrown">>]
    <2>1. Abstract!Thrown(c)
      BY <1>5 DEF Abstract!Thrown, Abstract!Return
    <2>2. QED
      BY <2>1 DEF Abstract!TableNext
  <1>6. QED
    BY <1>1, <1>2, <1>3, <1>4, <1>5

\* What Fail does.
LEMMA Fails ==
    ASSUME NEW c \in Conn, Fail(c)
    PROVE  /\ call' = [call EXCEPT ![c] = NoCall]
           /\ \/ answer' = [answer EXCEPT ![c] = ErrorAnswer(c)]
              \/ /\ <<"memory", c>> \in Faults /\ c \notin CApi
                 /\ answer' = [answer EXCEPT ![c] = <<"thrown">>]
  BY DEF Fail, Raise, Return

\* Every step of the statements is a step of the table, or none.
LEMMA StepRefines == IInv /\ [Next]_vars => [Abstract!TableNext]_(Abstract!tvars)
  <1> SUFFICES ASSUME IInv, [Next]_vars
               PROVE  Abstract!TableNext \/ UNCHANGED <<Committed, call, answer>>
    BY DEF Abstract!tvars
  <1> DEFINE Goal == Abstract!TableNext \/ UNCHANGED <<Committed, call, answer>>
  <1> LockTypes /\ Locks /\ Pages /\ Doings
    BY NamesAssumption DEF IInv, TypeOK, LockTypes
  <1> call \in [Conn -> Call \cup {NoCall}] /\ answer \in [Conn -> Answer]
    BY DEF IInv, TypeOK
  <1> NoJournal \notin Content
    BY NamesAssumption
  <1>f. ASSUME UNCHANGED file PROVE UNCHANGED Committed
    BY <1>f DEF file, Committed
  <1> HIDE DEF Goal
  <1>1. ASSUME NEW c \in Conn, Begin(c) PROVE Goal
    <2>1. \E q \in Call : call' = [call EXCEPT ![c] = q]
      BY <1>1, RolesAssumption DEF Begin
    <2>2. call[c] = NoCall /\ UNCHANGED Committed /\ answer' = [answer EXCEPT ![c] = None]
      BY <1>1, <1>f DEF Begin, Doings, At
    <2>3. QED
      BY <2>1, <2>2
      DEF Goal, Call, NoKey, None,
          Abstract!TableNext, Abstract!Start, Abstract!Call, Abstract!NoKey, Abstract!None
  <1>2. ASSUME NEW c \in Conn, Recover(c) PROVE Goal
    BY <1>2 DEF Goal, Recover, Hot, Committed, calls
  <1>3. ASSUME NEW c \in Conn, StepRefused(c) \/ StepFails(c) PROVE Goal
    BY <1>3, <1>f, Fails, Unchanged DEF Goal, StepRefused, StepFails, Doings, At
  <1>4. ASSUME NEW c \in Conn, WriteFails(c) PROVE Goal
    <2>1. UNCHANGED Committed
      BY <1>4 DEF WriteFails, Locks, LockTypes, Committed, Writing, At
    <2>2. Writes(c)
      BY <1>4 DEF WriteFails, Doings, Writing, At
    <2>3. QED
      BY <1>4, <2>1, <2>2, Fails, Unchanged DEF Goal, WriteFails, Writes, Doing
  <1>5. ASSUME NEW c \in Conn, FetchEnd(c) PROVE Goal
    <2>1. Doing(c, "fetch") /\ read[c] = Committed[call[c].key]
      BY <1>5, ReadTypes DEF FetchEnd, Doings
    <2>2. CASE read[c] \in Corrupt
      BY <1>5, <1>f, <2>1, <2>2, Unchanged DEF Goal, FetchEnd, Return
    <2>3. CASE read[c] \notin Corrupt
      <3>1. Abstract!Fetched(c)
        BY <1>5, <1>f, <2>1, <2>3
        DEF FetchEnd, Return, Doing, Abstract!Fetched, Abstract!Return, Abstract!Doing
      <3>2. QED
        BY <3>1 DEF Goal, Abstract!TableNext
    <2>4. QED
      BY <2>2, <2>3
  <1>6. ASSUME NEW c \in Conn, FetchNoMemory(c) PROVE Goal
    BY <1>6, <1>f, Unchanged DEF Goal, FetchNoMemory, Return, Doings
  <1>7. ASSUME NEW c \in Conn, FetchThrows(c) PROVE Goal
    <2>1. Doing(c, "fetch") /\ read[c] = Committed[call[c].key]
      BY <1>7, ReadTypes DEF FetchThrows, Doings
    <2>2. Abstract!Thrown(c)
      BY <1>7, <1>f, <2>1
      DEF FetchThrows, RaiseOnRow, Doing, Abstract!Thrown, Abstract!Return, Abstract!Doing
    <2>3. QED
      BY <2>2 DEF Goal, Abstract!TableNext
  <1>8. ASSUME NEW c \in Conn, FetchStep(c) \/ KeysFirst(c) \/ KeysNext(c) \/
      Pending(c) PROVE Goal
    BY <1>8, <1>f DEF Goal, FetchStep, KeysFirst, KeysNext, Pending, calls
  <1>9. ASSUME NEW c \in Conn, KeysEnd(c) PROVE Goal
    <2>1. read[c] = KeysOf(Committed) /\ Doing(c, "getKeys")
      <3>1. disk = Committed
        BY <1>9, ReaderSees DEF KeysEnd, At, Reading
      <3>2. QED
        BY <1>9, <3>1, ReadTypes DEF KeysEnd, Doings
    <2>2. Abstract!Listed(c)
      BY <1>9, <1>f, <2>1
      DEF KeysEnd, Return, Doing, KeysOf,
          Abstract!Listed, Abstract!Return, Abstract!Doing, Abstract!KeysOf
    <2>3. QED
      BY <2>2 DEF Goal, Abstract!TableNext
  <1>10. ASSUME NEW c \in Conn, WriteStep(c) PROVE Goal
    <2>1. disk = Committed /\ disk \in Content
      BY <1>10, ReaderSees DEF WriteStep
    <2>2. Committed' = Committed
      BY <1>10, <2>1 DEF WriteStep, Committed
    <2>3. QED
      BY <1>10, <2>2 DEF Goal, WriteStep, calls
  <1>11. ASSUME NEW c \in Conn, StoreConflict(c) \/ WriteBusy(c) PROVE Goal
    BY <1>11, <1>f, Fails, Unchanged DEF Goal, StoreConflict, WriteBusy, Writes, Doing
  <1>12. ASSUME NEW c \in Conn, FlushHalf(c) \/ Flush(c) PROVE Goal
    BY <1>12 DEF Goal, FlushHalf, Flush, Locks, LockTypes, Committed, Writing, At, calls
  <1>13. ASSUME NEW c \in Conn, Commit(c) PROVE Goal
    <2>1. /\ Committed = journal /\ Writes(c)
          /\ Committed' = [Committed EXCEPT ![call[c].key] = call[c].row]
      BY <1>13 DEF Commit, Locks, LockTypes, Pages, Doings, Committed, Writing, At
    <2>2. CASE Doing(c, "store")
      <3>1. Committed[call[c].key] = NoRow
        BY <1>13, <2>1, <2>2 DEF Commit, Pages, Writing, At
      <3>2. Abstract!Stored(c)
        BY <1>13, <2>1, <2>2, <3>1
        DEF Commit, Return, Doing, Abstract!Stored, Abstract!Return, Abstract!Doing
      <3>3. QED
        BY <3>2 DEF Goal, Abstract!TableNext
    <2>3. CASE Doing(c, "remove")
      <3>1. call[c].row = NoRow
        BY <2>3, CallFields DEF Doing
      <3>2. Abstract!Removed(c)
        BY <1>13, <2>1, <2>3, <3>1
        DEF Commit, Return, Doing, Abstract!Removed, Abstract!Return, Abstract!Doing
      <3>3. QED
        BY <3>2 DEF Goal, Abstract!TableNext
    <2>4. QED
      BY <2>1, <2>2, <2>3 DEF Writes
  <1>14. ASSUME NEW c \in Conn, Destroy(c) PROVE Goal
    <2>1. call' = [call EXCEPT ![c] = NoCall]
      BY <1>14 DEF Destroy, Doings, At
    <2>2. QED
      BY <1>14, <1>f, <2>1, Unchanged DEF Goal, Destroy
  <1>15. ASSUME NEW c \in Conn, Exit(c) PROVE Goal
    BY <1>15, <1>f, Unchanged DEF Goal, Exit
  <1>16. ASSUME NEW c \in Conn, RowThrows(c) PROVE Goal
    BY <1>16, <1>f, Unchanged DEF Goal, RowThrows, RaiseOnRow, Doings, Doing, At
  <1>17. ASSUME NEW c \in Conn, PackThrows(c) PROVE Goal
    BY <1>17, <1>f, Unchanged DEF Goal, PackThrows, Raise, Return, Doing
  <1>18. CASE UNCHANGED vars
    BY <1>18, <1>f DEF Goal, vars, calls
  <1>19. QED
    BY <1>1, <1>2, <1>3, <1>4, <1>5, <1>6, <1>7, <1>8, <1>9, <1>10, <1>11, <1>12, <1>13,
       <1>14, <1>15, <1>16, <1>17, <1>18 DEF Next, Lock, Step, Goal

\* Calls of any number of processes, dying wherever they like, take effect as
\* if each were one step on the table.
THEOREM Atomicity == Spec => ActsAtomically
  <1>1. Init => Abstract!TableInit
    BY NamesAssumption DEF Init, Committed, Content, None, Abstract!TableInit, Abstract!None
  <1>2. QED
    BY <1>1, Invariant, StepRefines, PTL DEF Spec, ActsAtomically, Abstract!TableSpec
=============================================================================
