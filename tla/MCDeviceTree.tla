---------------------------- MODULE MCDeviceTree ----------------------------
(* Trees of up to three objects in a heap of four.                           *)
EXTENDS DeviceTree, TLC

\* A Component, one with an item of its own, and a System with a leaf and an
\* item.
Trees ==
    {[size |-> 1, class |-> <<"Component">>, owns |-> <<{}>>],
     [size |-> 2, class |-> <<"Component", "DataItem">>, owns |-> <<{<<"device", 2>>}, {}>>],
     [size |-> 3, class |-> <<"System", "Component", "DataItem">>,
      owns |-> <<{<<"leaf", 2>>, <<"device", 3>>}, {}, {}>>]}
=============================================================================
