---------------------------- MODULE MCVpdRecord ----------------------------
(* Strings are those of TLC, in tables; setValue strips the blank of " x". *)
EXTENDS VpdRecord

MCWidth(s) == Len(s)
MCClean(v) == IF v = " x" THEN "x" ELSE v

Cut == [s \in Text \cup Delimiters |-> {SubSeq(s, i, Len(s)) : i \in 1 .. Len(s) + 1}]
MCRests(s) == Cut[s]

Beginnings ==
    {<<z, d>> \in (UNION Range(Cut)) \X Delimiters :
        Len(d) <= Len(z) /\ SubSeq(z, 1, Len(d)) = d}
MCBegins(s, t) == <<s, t>> \in Beginnings
=============================================================================
