----------------------------- MODULE VpdRecord -----------------------------
(***************************************************************************)
(* The life of one Component or System in a program that collects VPD: the *)
(* collectors offer values at their preference levels, the object is       *)
(* stored, loaded again and changed further.  The mutators are private and *)
(* called by friend classes outside this library, in any order.            *)
(***************************************************************************)
EXTENDS Codec

CONSTANTS
    Clean(_),      \* what setValue keeps of a string
    Settable,      \* the single fields that are given values
    Values,        \* strings that are offered
    Levels,        \* preference levels
    Acs,           \* acronyms of list items
    ChildIds,      \* ids of children
    MaxCalls       \* bound on the calls of mutators

\* Every string that an object, or a row, can hold.
Text == {"", "AX"} \cup Acs \cup Values \cup {Clean(v) : v \in Values} \cup ChildIds

ASSUME LevelAssumption == Levels \subseteq Nat
ASSUME TextAssumption == \A s \in Text : Width(s) \in Nat

\* What the provers do not know of strings.
ASSUME StringAssumption ==
    /\ \A s \in Text \cup Delimiters : s \in Rests(s)
    /\ \A d \in Delimiters : Begins(d, d)
    /\ \A d, e \in Delimiters : \A z \in Rests(d) : Begins(z, e) => d = e

\* No string that the collectors offer contains a delimiter.  setValue and
\* addChild take such a string, pack writes it as it is, and a decoder takes
\* it for the delimiter.
ASSUME NoDelimiterAssumption ==
    \A s \in Text, d \in Delimiters : \A z \in Rests(s) : ~Begins(z, d)

VARIABLES
    kind,          \* Component or System
    obj,           \* the object in memory
    blob,          \* its row in the database, or Unstored
    saved,         \* history: the object as it was when the row was stored
    offers,        \* history: per field, what it held when it was loaded and
                   \* what was offered since
    clobbered,     \* history: a clobber changed the length of a value
    calls          \* calls of mutators so far

vars == <<kind, obj, blob, saved, offers, clobbered, calls>>

Unstored == [size |-> 0, tokens |-> <<>>]
\* What pack leaves when an item is longer or shorter than it believes: the
\* next item starts inside it, or behind a gap that reads as empty strings.
Garbled == [size |-> 1, tokens |-> <<>>]

\* A DataItem in memory: pref is prefLevelUsed, cached is packedLength.
New(ac) == [ac |-> ac, name |-> ac, value |-> "", pref |-> 0, cached |-> 0]
Plain(d) == [ac |-> d.ac, name |-> d.name, value |-> d.value]
Loaded(d) == [ac |-> d.ac, name |-> d.name, value |-> d.value, pref |-> 0,
              cached |-> ItemLength(d)]
Each(op(_), ds) == [k \in DOMAIN ds |-> op(ds[k])]

Fields == Settable \cap ToSet(FieldsOf(kind))

\* The object with every field of its kind and without the meta-data.
Content(o) ==
    [fields   |-> [f \in ToSet(FieldsOf(kind)) |->
                     IF f \in Settable THEN Plain(o.fields[f]) ELSE Plain(New(""))],
     children |-> o.children,
     device   |-> Each(Plain, o.device),
     user     |-> Each(Plain, o.user),
     ax       |-> Each(Plain, o.ax)]

Item == [ac : Text, name : Text, value : Text, pref : Levels \cup {0}, cached : Nat]

TypeOK ==
    /\ kind \in {Component, System}
    /\ obj \in [fields : [Fields -> Item], children : Seq(ChildIds),
                device : Seq(Item), user : Seq(Item), ax : Seq(Item)]
    /\ kind = System => obj.ax = <<>>

Empty == [fields |-> [f \in Fields |-> New("")], children |-> <<>>,
          device |-> <<>>, user |-> <<>>, ax |-> <<>>]

Init ==
    /\ kind \in {Component, System}
    /\ obj = Empty
    /\ blob = Unstored
    /\ saved = Content(Empty)
    /\ offers = [f \in Fields |-> << [value |-> "", level |-> 0] >>]
    /\ clobbered = FALSE
    /\ calls = 0

-----------------------------------------------------------------------------
\* mutants of setValue: the cached length is kept; the last offer wins.
KeepLength(d, v, lvl) ==
    IF lvl > d.pref /\ Width(v) > 0
    THEN [d EXCEPT !.value = Clean(v), !.pref = lvl] ELSE d
LastWins(d, v, lvl) ==
    IF lvl >= d.pref /\ Width(v) > 0
    THEN [d EXCEPT !.value = Clean(v), !.pref = lvl, !.cached = 0] ELSE d
NoLevel(d, v, lvl) == [d EXCEPT !.value = Clean(v), !.pref = -1, !.cached = 0]

\* DataItem::setValue takes a value from a strictly better source only.
SetValue(d, v, lvl) ==
    IF lvl > d.pref /\ Width(v) > 0
    THEN [d EXCEPT !.value = Clean(v), !.pref = lvl, !.cached = 0] ELSE d

Call == calls < MaxCalls /\ calls' = calls + 1

\* A collector fills a single field.
SetField(f, v, lvl) ==
    /\ Call
    /\ obj' = [obj EXCEPT !.fields[f] = SetValue(@, v, lvl)]
    /\ offers' = [offers EXCEPT ![f] = Append(@, [value |-> v, level |-> lvl])]
    /\ UNCHANGED <<kind, blob, saved, clobbered>>

Found(ds, ac) == \E k \in DOMAIN ds : ds[k].ac = ac
First(ds, ac) == SelectInSeq(ds, LAMBDA d : d.ac = ac)
Added(ds, ac, v, lvl) == Append(ds, SetValue(New(ac), v, lvl))

\* addDeviceSpecific adds an item even if there is one with this acronym.
AddDevice(ac, v, lvl) ==
    /\ Call
    /\ obj' = [obj EXCEPT !.device = Added(@, ac, v, lvl)]
    /\ UNCHANGED <<kind, blob, saved, offers, clobbered>>

\* updateDeviceSpecific offers the value to the first item with this acronym.
UpdateDevice(ac, v, lvl) ==
    LET k == First(obj.device, ac) IN
    /\ Call /\ kind = Component
    /\ obj' = IF Found(obj.device, ac)
              THEN [obj EXCEPT !.device[k] = SetValue(@, v, lvl)]
              ELSE [obj EXCEPT !.device = Added(@, ac, v, lvl)]
    /\ UNCHANGED <<kind, blob, saved, offers, clobbered>>

\* mutant: the search of addUserData is left out, as in addDeviceSpecific.
NotFound(ds, ac) == FALSE

UserFound(ds, ac) == Found(ds, ac)

\* addUserData: the first of an acronym stays.
AddUser(ac, v, lvl) ==
    /\ Call /\ ~UserFound(obj.user, ac)
    /\ obj' = [obj EXCEPT !.user = Added(@, ac, v, lvl)]
    /\ UNCHANGED <<kind, blob, saved, offers, clobbered>>

\* addUserData with clobber: dataValue is assigned directly, so the string is
\* not cleaned and packedLength not reset.
Clobber(ac, v) ==
    LET k == First(obj.user, ac) IN
    /\ Call /\ UserFound(obj.user, ac)
    /\ obj' = [obj EXCEPT !.user[k].value = v]
    /\ clobbered' = (clobbered \/ Width(v) # Width(obj.user[k].value))
    /\ UNCHANGED <<kind, blob, saved, offers>>

\* addAIXName compares with the names as they were cleaned.
AddAixName(v, lvl) ==
    /\ Call /\ kind = Component
    /\ \A k \in DOMAIN obj.ax : obj.ax[k].value # v
    /\ obj' = [obj EXCEPT !.ax = Added(@, "AX", v, lvl)]
    /\ UNCHANGED <<kind, blob, saved, offers, clobbered>>

AddChild(c) ==
    /\ Call
    /\ obj' = [obj EXCEPT !.children = Append(@, c)]
    /\ UNCHANGED <<kind, blob, saved, offers, clobbered>>

\* removeChild removes the first entry only.
RemoveChild(c) ==
    /\ Call /\ c \in ToSet(obj.children)
    /\ obj' = [obj EXCEPT !.children = RemoveFirst(@, c)]
    /\ UNCHANGED <<kind, blob, saved, offers, clobbered>>

-----------------------------------------------------------------------------
AllItems(o) == {o.fields[f] : f \in DOMAIN o.fields} \cup
               ToSet(o.device) \cup ToSet(o.user) \cup ToSet(o.ax)

\* getPackedLength believes the cached length when there is one.
Stale(d) == d.cached \notin {0, ItemLength(d)}
Intact(o) == \A d \in AllItems(o) : ~Stale(d)
Measured(d) == IF d.cached = 0 THEN [d EXCEPT !.cached = ItemLength(d)] ELSE d

\* pack and INSERT (after a remove of the old row): every item has been
\* asked for its length.
Store ==
    /\ obj' = [obj EXCEPT !.fields = [f \in DOMAIN @ |-> Measured(@[f])],
                          !.device = Each(Measured, @),
                          !.user = Each(Measured, @),
                          !.ax = Each(Measured, @)]
    /\ blob' = IF Intact(obj) THEN Pack(kind, Content(obj)) ELSE Garbled
    /\ saved' = Content(obj)
    /\ UNCHANGED <<kind, offers, clobbered, calls>>

\* fetch: a new object is made of the row, in which no item has a preference
\* level any more.  A garbled row is not read (unpack throws).
Load ==
    LET c == Unpack(kind, blob) IN
    /\ blob \notin {Unstored, Garbled}
    /\ obj' = [fields   |-> [f \in Fields |-> Loaded(c.fields[f])],
               children |-> c.children,
               device   |-> Each(Loaded, c.device),
               user     |-> Each(Loaded, c.user),
               ax       |-> Each(Loaded, c.ax)]
    /\ offers' = [f \in Fields |-> << [value |-> c.fields[f].value, level |-> 0] >>]
    /\ clobbered' = FALSE
    /\ UNCHANGED <<kind, blob, saved, calls>>

Next ==
    \/ \E v \in Values, lvl \in Levels :
         \/ \E f \in Fields : SetField(f, v, lvl)
         \/ \E ac \in Acs : AddDevice(ac, v, lvl) \/ UpdateDevice(ac, v, lvl)
                            \/ AddUser(ac, v, lvl)
         \/ AddAixName(v, lvl)
    \/ \E ac \in Acs, v \in Values : Clobber(ac, v)
    \/ \E c \in ChildIds : AddChild(c) \/ RemoveChild(c)
    \/ Store \/ Load

Spec == Init /\ [][Next]_vars

-----------------------------------------------------------------------------
(* Properties.                                                             *)

Readable == blob \notin {Unstored, Garbled}

\* system.cpp and component.cpp: "unpack does exactly the opposite from pack".
\* Of the user data of a System, and of the ids of children, it is said here.
UserDataKept == Readable => Unpack(kind, blob).user = saved.user
ChildrenKept == Readable => Unpack(kind, blob).children = saved.children

\* dataitem.cpp: pack "will return the number of bytes packed into that
\* buffer", whatever has been done to the item.
LengthReturned == Intact(obj)

\* At least one of the three sentences holds.  (None does: the user data of a
\* System comes back as device specific data, empty ids do not come back, and
\* addUserData with clobber leaves the old length.)
PackAsDescribed == UserDataKept \/ ChildrenKept \/ LengthReturned

\* What a load gives back of a stored object.
Kept(c) ==
    IF kind = Component THEN [c EXCEPT !.children = NonEmpty(@)]
    ELSE [c EXCEPT !.children = NonEmpty(@), !.device = @ \o c.user, !.user = <<>>]

\* The C decoders: all of a System; the k-th field that unpack_component
\* reads is the k-th that was written, which from n5 on is another one.
KeptInC(c) ==
    IF kind = System THEN UnpackC(kind, blob) = c
    ELSE \A k \in DOMAIN CComponentFields :
            UnpackC(kind, blob).fields[CComponentFields[k]] = c.fields[ComponentFields[k]]

\* Nothing is lost or displaced between pack and the four decoders but what
\* PackAsDescribed and EntireTree (VpdRetriever) show: in C++ empty child ids
\* and the place of a System's user data; in C the fields of a Component behind
\* n5, which unpack_component does not read, and its lists.
RoundTrip == Readable => Unpack(kind, blob) = Kept(saved) /\ KeptInC(saved)

\* pack never writes more than the buffer that getPackedSize measured, which
\* is also the bound that every decoder checks its cursor against.
SizeFits == Readable => BlobBytes(kind, blob) <= blob.size

\* A cached length is exact for as long as values change through setValue.
LengthsExact == ~clobbered => Intact(obj)

\* The collectors may come in any order: a field holds the offer with the
\* highest level, the earliest of them, among all since it was loaded.
BestOffer ==
    \A f \in Fields : LET o == offers[f] IN
      \E k \in DOMAIN o :
        /\ obj.fields[f].value = (IF k = 1 THEN o[k].value ELSE Clean(o[k].value))
        /\ \A j \in DOMAIN o : j # k /\ (j = 1 \/ Width(o[j].value) > 0) =>
             o[j].level < o[k].level \/ (o[j].level = o[k].level /\ j > k)

\* component.hpp: "the UserData vector has to have unique acronymns", through
\* any number of stores and loads.
UniqueUserData ==
    \A j, k \in DOMAIN obj.user : obj.user[j].ac = obj.user[k].ac => j = k
=============================================================================
