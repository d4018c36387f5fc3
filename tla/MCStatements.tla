---------------------------- MODULE MCStatements ----------------------------
(* Two writers, a reader and a C client without the update lock.           *)
EXTENDS Statements, TLC

CONSTANTS w1, w2, r1, c1, k1, k2, good, bad

FetchOf(k)  == [op |-> "fetch", key |-> k, row |-> NoRow]
RemoveOf(k) == [op |-> "remove", key |-> k, row |-> NoRow]
StoreOf(k)  == [op |-> "store", key |-> k, row |-> good]
GetKeys     == [op |-> "getKeys", key |-> NoKey, row |-> NoRow]

WhoCallsWhat ==
    [c \in Conn |-> CASE c = w1 -> {RemoveOf(k1), StoreOf(k1)}
                      [] c = w2 -> {StoreOf(k1), FetchOf(k2), GetKeys}
                      [] c = r1 -> {FetchOf(k1), RemoveOf(k1)}
                      [] c = c1 -> {FetchOf(k2)}]

\* One writer leaves journals behind, the other statements.
Failures == ({"io", "exit"} \X {w1}) \cup ({"memory", "io", "exit"} \X {w2})

OneCorrupt == {(k1 :> good) @@ (k2 :> bad)}
=============================================================================
