------------------------------ MODULE VpdCalls ------------------------------
(***************************************************************************)
(* The calls on an open VPD database and what they work on.                *)
(***************************************************************************)
CONSTANTS Conn,        \* the connections to the database
          Key,         \* device identifiers
          Row,         \* packed objects
          Corrupt,     \* the rows that no constructor can unpack
          NoRow, NoCall,
          CApi,        \* connections of the C interface, which only fetch
          Faults       \* which failures happen, each with its connection:
                       \* "memory": new fails, "io": a step fails half way,
                       \* "exit": a process dies in the middle of a call

ASSUME CorruptAssumption == Corrupt \subseteq Row /\ NoRow \notin Row

NoKey == "no key"
None == <<"none">>

Call == [op : {"fetch", "remove"}, key : Key, row : {NoRow}]
        \cup [op : {"store"}, key : Key, row : Row]
        \cup [op : {"getKeys"}, key : {NoKey}, row : {NoRow}]

ASSUME NoCallAssumption == NoCall \notin Call

KeysOf(t) == {k \in Key : t[k] # NoRow}
=============================================================================
