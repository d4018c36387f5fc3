--------------------------- MODULE MCVpdRetriever ---------------------------
(* A System over two devices, the second below the first or beside it, and *)
(* two versions of the second.                                             *)
EXTENDS VpdRetriever, TLC

CONSTANTS sys, a, b,   \* the System and two devices
          u, v         \* two updaters, which may change places

Row(kids, n) == [kids |-> kids, version |-> n]

MCRows ==
    (sys :> {Row(<<a>>, 1), Row(<<a, b>>, 1)}) @@
    (a :> {Row(<<>>, 1), Row(<<b>>, 1)}) @@
    (b :> {Row(<<>>, 1), Row(<<>>, 2)})

Updaters == Permutations({u, v})
=============================================================================
