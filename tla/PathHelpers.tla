---------------------------- MODULE PathHelpers -----------------------------
(***************************************************************************)
(* The string helpers of HelperFunctions, on a path that a client passes   *)
(* from one to the next.  They walk by index, with npos converted to int   *)
(* and with a NUL behind the end, so the arithmetic is kept: a string is a *)
(* sequence, its characters counted from 0 as in the code.                 *)
(***************************************************************************)
EXTENDS Integers, Sequences, FiniteSets, FiniteSetsExt

CONSTANTS Letter,    \* the characters that mean nothing here
          MaxLen,    \* bound on the length of the client's path
          MaxCount   \* bound on the count and position arguments

NUL == "NUL"
ASSUME LetterAssumption ==
    /\ Letter \cap {NUL, "/", "*", "'"} = {}
    /\ MaxLen \in Nat /\ MaxCount \in Nat

Char == Letter \cup {"/", "*", "'"}  \* ' stands for the double quote
Strings(S, n) == UNION {[1 .. k -> S] : k \in 0 .. n}

VARIABLES path,     \* the client's string, which may have NULs in it
          fixed,    \* fs_fixPath has put a NUL into it
          outside   \* which helper has left the string's memory, or "no"

vars == <<path, fixed, outside>>

-----------------------------------------------------------------------------
(* std::string.                                                            *)

npos == -1
Chr(s, i) == IF i < Len(s) THEN s[i + 1] ELSE NUL
Find(s, c, from) ==
    LET I == {i \in from .. Len(s) - 1 : Chr(s, i) = c} IN IF I = {} THEN npos ELSE Min(I)
\* A negative argument is a large one.
RFind(s, c, to) ==
    LET I == {i \in 0 .. Len(s) - 1 : Chr(s, i) = c /\ (i <= to \/ to < 0)}
    IN  IF I = {} THEN npos ELSE Max(I)
Substr(s, b, n) == SubSeq(s, b + 1, IF n < 0 \/ b + n > Len(s) THEN Len(s) ELSE b + n)
Rest(s, b) == Substr(s, b, npos)
Contains(s, t) == \E i \in 0 .. Len(s) - Len(t) : Substr(s, i, Len(t)) = t

\* c_str(), as a C function sees it.
CStr(s) == IF NUL \in {s[i] : i \in 1 .. Len(s)} THEN Substr(s, 0, Find(s, NUL, 0)) ELSE s

-----------------------------------------------------------------------------
(* The helpers that change nothing.                                        *)

\* mutant: one step too few.
ParsePathShort(p, count) ==
    LET beg[i \in 0 .. count] == IF i = 0 THEN 0 ELSE Find(p, "/", beg[i - 1]) + 1
    IN  Substr(p, beg[count], Find(p, "/", beg[count]) - beg[count])

\* The search starts again at the front when there are no more slashes,
\* because npos + 1 is 0.
ParsePath(p, count) ==
    LET beg[i \in 0 .. count + 1] == IF i = 0 THEN 0 ELSE Find(p, "/", beg[i - 1]) + 1
        b == beg[count + 1]
    IN  Substr(p, b, Find(p, "/", b) - b)

ParsePathr(p, count) ==
    LET beg[i \in 0 .. count + 1] ==
            IF i = 0 THEN Len(p) ELSE RFind(p, "/", beg[i - 1] - 2) + 1
    IN  IF p = <<>> THEN p
        ELSE Substr(p, beg[count + 1], beg[count] - 1 - beg[count + 1])

\* The position counts from 1; "" as well when a quote is missing.
ParseString(line, pos) ==
    LET close[i \in 0 .. MaxCount] ==  \* behind the i-th closing quote
            IF i = 0 THEN 0
            ELSE LET o == Find(line, "'", close[i - 1])
                     c == IF o = npos THEN npos ELSE Find(line, "'", o + 1)
                 IN  IF close[i - 1] = npos \/ c = npos THEN npos ELSE c + 1
        o == Find(line, "'", close[pos - 1])
    IN  IF pos <= 0 \/ close[pos] = npos THEN <<>>
        ELSE Substr(line, o + 1, close[pos] - o - 2)

\* Both strings lose as much of their fronts with every call.  The text up to
\* the next star is cut with its end for its length, and the call inside the
\* branch for two stars is for nothing.
Matches(pattern, s) ==
    LET from[o \in 0 .. Len(pattern)] ==
            LET s1 == Rest(pattern, o)
                s2 == Rest(s, o)
                beg == IF Chr(s1, 0) = "*" THEN 1 ELSE 0
                end == Find(s1, "*", beg)
                text == Substr(s1, beg, end)
            IN  IF s1 = s2 \/ s1 = <<>> \/ s2 = <<>> THEN s1 = s2
                ELSE \/ s1 = <<"*">>
                     \/ beg = 1 /\ end = npos /\ Contains(s2, text)
                     \/ end # npos /\ text = Substr(s2, beg, end) /\ from[o + end]
    IN  from[0]

-----------------------------------------------------------------------------
(* The helpers that change the string.                                     *)

\* Both loops of dropDir: i goes down from the NUL at the end to a slash, or
\* to 0, and erases what it passes.
Stop(s) == LET I == {i \in 1 .. Len(s) - 1 : Chr(s, i) = "/"} IN IF I = {} THEN 0 ELSE Max(I)
Erase(s) == [i \in 1 .. Len(s) |-> IF i - 1 > Stop(s) THEN NUL ELSE s[i]]
EraseAt(s, i) == [s EXCEPT ![i + 1] = NUL]
Dropped(s) == Erase(EraseAt(Erase(s), Len(s) - 1))

\* mutant: the trailing slash is not erased first.
DropDirOnce(s) == CStr(EraseAt(Erase(s), Stop(s)))

\* dropDir(string&), dropDir(char *): the latter keeps the slash.
DropDir(s) == CStr(EraseAt(Dropped(s), Stop(Dropped(s))))
DropDirC(s) == CStr(Dropped(s))

Init ==
    /\ path \in Strings(Char, MaxLen)
    /\ fixed = FALSE /\ outside = "no"

\* mutant: no check for an empty string.
CallDropDirUnchecked ==
    /\ IF path = <<>> \/ CStr(path) # path
       THEN outside' = "drop" /\ UNCHANGED <<path, fixed>>
       ELSE path' = DropDir(path) /\ fixed' = FALSE /\ UNCHANGED outside

\* The length is the string's, the copy ends at the first NUL.
CallDropDir ==
    /\ path # <<>>
    /\ IF CStr(path) # path
       THEN outside' = "drop" /\ UNCHANGED <<path, fixed>>
       ELSE path' = DropDir(path) /\ fixed' = FALSE /\ UNCHANGED outside

\* On the client's copy.
CallDropDirC ==
    /\ CStr(path) # <<>>
    /\ path' = DropDirC(CStr(path)) /\ fixed' = FALSE
    /\ UNCHANGED outside

\* fs_fixPath(string&) goes down from the end to something that is not NUL,
\* also past the front; a slash there becomes a NUL, the length stays.
FsFixPath ==
    IF CStr(path) = <<>>
    THEN outside' = "fix" /\ UNCHANGED <<path, fixed>>
    ELSE LET i == Len(CStr(path)) - 1 IN
         /\ path' = IF Chr(path, i) = "/" THEN EraseAt(path, i) ELSE path
         /\ fixed' = (fixed \/ path' # path)
         /\ UNCHANGED outside

\* fs_fixPath(char *) looks at the last character, also of an empty string.
FsFixPathC ==
    LET s == CStr(path) IN
    IF s = <<>>
    THEN outside' = "fix" /\ UNCHANGED <<path, fixed>>
    ELSE /\ path' = IF Chr(s, Len(s) - 1) = "/" THEN Substr(s, 0, Len(s) - 1) ELSE s
         /\ fixed' = FALSE
         /\ UNCHANGED outside

Next ==
    /\ outside = "no"
    /\ CallDropDir \/ CallDropDirC \/ FsFixPath \/ FsFixPathC

Spec == Init /\ [][Next]_vars

-----------------------------------------------------------------------------
(* Properties.                                                             *)

\* No sequence of calls makes a helper touch memory outside the string, but
\* for fs_fixPath on a string without a character, and dropDir(string&) on
\* one that fs_fixPath has shortened.
InBounds ==
    /\ outside = "fix" => CStr(path) = <<>>
    /\ outside = "drop" => fixed

\* Reference: the text between the k-th and the next c, the first is k = 0.
Places(s, c) == {i \in 1 .. Len(s) : s[i] = c}
Pieces(s, c) == Cardinality(Places(s, c))
Piece(s, c, k) ==
    LET P == Places(s, c) \cup {0, Len(s) + 1}
        Place(n) == CHOOSE i \in P : Cardinality({j \in P : j < i}) = n
    IN  SubSeq(s, Place(k) + 1, Place(k + 1) - 1)

Whole == CStr(path) = path /\ path # <<>>
Trimmed == IF path[Len(path)] = "/" THEN Substr(path, 0, Len(path) - 1) ELSE path

\* Each dropDir takes one directory off, a trailing slash is no directory,
\* and as the path gets shorter a loop until dropDir returns 0 ends.
DropsOneDir ==
    Whole =>
        LET up == Substr(Trimmed, 0, RFind(Trimmed, "/", npos)) IN
        /\ DropDir(path) = (IF Pieces(Trimmed, "/") = 0 THEN <<>> ELSE up)
        /\ Len(DropDirC(path)) < Len(path)
        /\ Pieces(Trimmed, "/") > 0 => DropDirC(path) = up \o <<"/">>

\* parsePath, parsePathr: "returning the node specified by 'count'", from the
\* front and from the end of an absolute path.  (A tail node without a slash
\* behind it is left to SomeCommentHolds.)
NodeAt ==
    path[1] = "/" =>
        \A count \in 0 .. MaxCount :
            /\ count < Pieces(path, "/") =>
                 ParsePath(path, count) = Piece(path, "/", count + 1)
            /\ count < Pieces(Trimmed, "/") /\ (count > 0 \/ path[Len(path)] = "/") =>
                 ParsePathr(path, count) = Piece(Trimmed, "/", Pieces(Trimmed, "/") - count)

\* parseString returns a whole quoted string, never what is between two, and
\* an empty one for a position behind the last.  (Which position is the first
\* is left to SomeCommentHolds.)
Quoted ==
    \A n \in 0 .. MaxCount :
        /\ Pieces(path, "'") < 2 * n => ParseString(path, n) = <<>>
        /\ \/ ParseString(path, n) = <<>>
           \/ \E k \in 0 .. n : /\ 2 * k + 2 <= Pieces(path, "'")
                               /\ ParseString(path, n) = Piece(path, "'", 2 * k + 1)

\* Strings are equivalent to a pattern without a star only when they are equal
\* to it, and to one with stars only when they begin with the text in front
\* of the first and hold the text behind it further on.  (What else must
\* match is left to SomeCommentHolds.)
Wildcard ==
    \A s \in Strings(Letter \cup {"/"}, MaxLen) :
        LET n == Len(Piece(path, "*", 0)) IN
        /\ Pieces(path, "*") = 0 => (Matches(path, s) <=> s = path)
        /\ Pieces(path, "*") > 0 /\ Matches(path, s) =>
             Substr(s, 0, n) = Piece(path, "*", 0) /\ Contains(Rest(s, n), Piece(path, "*", 1))

\* The helpers that only read compute what their comments say, but for what
\* SomeCommentHolds shows.
ReadsAsDescribed == Whole => NodeAt /\ Quoted /\ Wildcard

\* parsePathr: "0 is the tail node", which of /sys/devices/x/y/z is z.
TailNode ==
    Whole /\ path[1] = "/" /\ path[Len(path)] # "/" =>
        ParsePathr(path, 0) = Piece(path, "/", Pieces(path, "/"))

\* parseString: "a count of position [0...x]", from "string 0" on.
QuotedFromZero ==
    Whole => \A n \in 0 .. MaxCount : 2 * n + 2 <= Pieces(path, "'") =>
                ParseString(path, n) = Piece(path, "'", 2 * n + 1)

\* Whether s is p with every star replaced by some text, or by none.
Equivalent(p, s) ==
    LET eq[i \in 0 .. Len(p), j \in 0 .. Len(s)] ==  \* of the rests from i and j on
            IF i = Len(p) THEN j = Len(s)
            ELSE IF Chr(p, i) = "*" THEN \E k \in j .. Len(s) : eq[i + 1, k]
            ELSE j < Len(s) /\ Chr(p, i) = Chr(s, j) /\ eq[i + 1, j + 1]
    IN  eq[0, 0]

\* matches: "s1 can contain '*', meaning zero or more of anything can be
\* counted as a match".
ZeroOrMore ==
    Whole => \A s \in Strings(Char \ {"*"}, MaxLen) :
                Matches(path, s) = Equivalent(path, s)

\* Of the last three comments at least one holds of every string.  (There are
\* strings of which none does.)
SomeCommentHolds == TailNode \/ QuotedFromZero \/ ZeroOrMore
=============================================================================
