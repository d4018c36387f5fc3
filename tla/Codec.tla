------------------------------- MODULE Codec -------------------------------
(***************************************************************************)
(* How a Component or a System becomes a blob of the database and back.    *)
(* A blob is its size and the NUL-terminated strings that follow: the      *)
(* single fields in a fixed order, three strings each, then the lists, each *)
(* between two delimiters.  Four decoders read it: Component::unpack,      *)
(* System::unpack, and their C counterparts, which are separate code.      *)
(*                                                                         *)
(* Strings are values with a length.  The decoders look for a delimiter in *)
(* four ways, which are the same for strings that contain none; pack does  *)
(* not look at what it writes.                                             *)
(***************************************************************************)
EXTENDS SequencesExt, Integers

CONSTANTS
    Width(_),      \* the length of a string
    Rests(_),      \* what a cursor that moves through a string byte by byte
                   \* comes to: the string, and less and less of it
    Begins(_, _)   \* one string begins with another

\* Component::pack and Component::unpack.
ComponentFields == <<
    "idNode", "deviceTreeNode", "sysFsNode", "sysFsLinkTarget", "halUDI",
    "mNetAddr", "mDevClass", "mDescription", "mCDField", "mSerialNumber",
    "mPartNumber", "mFirmwareLevel", "mFirmwareVersion", "mFRU",
    "mManufacturer", "mModel", "mManufacturerID", "mEngChangeLevel",
    "mParent", "devSubsystem", "devDriver", "devKernel", "devKernelNumber",
    "devSysName", "devDevTreeName", "devBus", "devBusAddr", "mRecordType",
    "scsiDetail", "n5", "n6", "plantMfg", "mFeatureCode", "mKeywordVersion",
    "mMicroCodeImage", "mSecondLocation", "mPhysicalLocation" >>

\* System::pack, System::unpack and unpack_system.
SystemFields == <<
    "mIdNode", "mArch", "deviceTreeNode", "mDescription", "mBrand",
    "mNodeName", "mOS", "mProcessorID", "mMachineType", "mMachineModel",
    "mFeatureCode", "mFlagField", "mRecordType", "mSerialNum1",
    "mSerialNum2", "mSUID", "mKeywordVersion", "mLocationCode" >>

\* unpack_component reads no n5 and no n6, the 30th and the 31st.
CComponentFields == [k \in 1 .. 35 |-> ComponentFields[IF k < 30 THEN k ELSE k + 2]]

ChildStart  == "::childrenStart::"
ChildEnd    == "::childrenEnd::"
DeviceStart == "::deviceSpecificStart::"
DeviceEnd   == "::deviceSpecificEnd::"
UserStart   == "::userStart::"
UserEnd     == "::userEnd::"
AxStart     == "::axStart::"
AxEnd       == "::axEnd::"
Delimiters  == {ChildStart, ChildEnd, DeviceStart, DeviceEnd,
                UserStart, UserEnd, AxStart, AxEnd}

\* Their lengths, which are part of INIT_BUF_SIZE.
ASSUME DelimiterAssumption ==
    /\ Width(ChildStart) = 17 /\ Width(DeviceStart) = 23
    /\ Width(ChildEnd) = 15   /\ Width(DeviceEnd) = 21
    /\ Width(UserStart) = 13  /\ Width(AxStart) = 11
    /\ Width(UserEnd) = 11    /\ Width(AxEnd) = 9

Component == "component"
System    == "system"
FieldsOf(kind) == IF kind = Component THEN ComponentFields ELSE SystemFields

-----------------------------------------------------------------------------
(* Encoding.  A DataItem is a record with ac, name and value.              *)

\* mutant: value and name change places.
SwappedItem(d) == <<d.ac, d.value, d.name>>

\* DataItem::pack.
PackItem(d) == <<d.ac, d.name, d.value>>

\* The items one behind the other: string k belongs to item (k + 2) \div 3.
PackItems(ds) ==
    [k \in 1 .. 3 * Len(ds) |-> PackItem(ds[(k + 2) \div 3])[((k + 2) % 3) + 1]]

\* The single fields, which are a function from their names to items.
PackFields(order, fields) == PackItems([k \in DOMAIN order |-> fields[order[k]]])

\* The lists, in the order children, device specific, user, AIX names.
Framed(start, s, end) == <<start>> \o s \o <<end>>
Lists(kind, o) ==
    Framed(ChildStart, o.children, ChildEnd)
      \o Framed(DeviceStart, PackItems(o.device), DeviceEnd)
      \o Framed(UserStart, PackItems(o.user), UserEnd)
      \o (IF kind = Component THEN Framed(AxStart, PackItems(o.ax), AxEnd) ELSE <<>>)

Total(ns) ==
    LET sum[n \in 0 .. Len(ns)] == IF n = 0 THEN 0 ELSE sum[n - 1] + ns[n]
    IN  sum[Len(ns)]
SumOf(op(_), s) == Total([k \in DOMAIN s |-> op(s[k])])

\* DataItem::getPackedLength of an item that was not packed before.
ItemLength(d) == 3 + Width(d.ac) + Width(d.name) + Width(d.value)

\* INIT_BUF_SIZE and the header: the size, and for a System the CPU count.
InitBufSize(kind) == IF kind = Component THEN 129 ELSE 107
HeaderSize(kind) == IF kind = Component THEN 4 ELSE 8

\* mutant: the terminators of the children are left out of the sum.
NoTerminators(kind, o) ==
    InitBufSize(kind) - 1 + HeaderSize(kind)
      + SumOf(LAMBDA f : ItemLength(o.fields[f]), FieldsOf(kind))
      + SumOf(LAMBDA d : ItemLength(d), o.device \o o.user \o o.ax)
      + SumOf(Width, o.children)

\* getPackedSize: one more byte per list entry than items need.
PackedSize(kind, o) ==
    InitBufSize(kind) + HeaderSize(kind)
      + SumOf(LAMBDA f : ItemLength(o.fields[f]), FieldsOf(kind))
      + SumOf(LAMBDA d : ItemLength(d) + 1, o.device \o o.user \o o.ax)
      + SumOf(LAMBDA c : Width(c) + 1, o.children)

\* Component::pack and System::pack.
Pack(kind, o) ==
    [size   |-> PackedSize(kind, o),
     tokens |-> PackFields(FieldsOf(kind), o.fields) \o Lists(kind, o)]

\* What a blob takes, header included.
BlobBytes(kind, b) == HeaderSize(kind) + SumOf(LAMBDA t : Width(t) + 1, b.tokens)

-----------------------------------------------------------------------------
(* Decoding.                                                               *)

\* DataItem::unpack of the three strings from place p on.
ItemAt(ts, p) == [ac |-> ts[p], name |-> ts[p + 1], value |-> ts[p + 2]]

Items(ts) == [k \in 1 .. (Len(ts) \div 3) |-> ItemAt(ts, 3 * k - 2)]

PlaceOf(x, s) == SelectInSeq(s, LAMBDA y : y = x)

\* Component::unpack compares what is left of the string at each byte, until
\* it finds the list of children.
ScanTo(x, s) == SelectInSeq(s, LAMBDA y : x \in Rests(y))

\* strncmp in C compares as many bytes as the delimiter has, at the cursor or
\* at each byte.
PrefixPlace(x, s) == SelectInSeq(s, LAMBDA y : Begins(y, x))
PrefixScan(x, s) == SelectInSeq(s, LAMBDA y : \E z \in Rests(y) : Begins(z, x))

\* Where each name stands in an order of fields.
Places == [order \in {ComponentFields, SystemFields, CComponentFields} |->
             [f \in ToSet(order) |-> PlaceOf(f, order)]]

UnpackFields(order, ts) ==
    LET places == Places[order]
    IN  [f \in DOMAIN places |-> ItemAt(ts, 3 * places[f] - 2)]

\* The strings between two delimiters.
Inside(ts, p, q) == SubSeq(ts, p + 1, q - 1)
Between(ts, start, end) == Inside(ts, PlaceOf(start, ts), PlaceOf(end, ts))
BetweenC(ts, start, end) == Inside(ts, PrefixPlace(start, ts), PrefixPlace(end, ts))

\* The C++ decoders skip empty child ids.
NonEmpty(cs) ==
    LET kept[n \in 0 .. Len(cs)] ==
            IF n = 0 THEN <<>>
            ELSE IF Width(cs[n]) > 0 THEN Append(kept[n - 1], cs[n]) ELSE kept[n - 1]
    IN  kept[Len(cs)]

\* Component::unpack.
UnpackComponent(b) ==
    [fields   |-> UnpackFields(ComponentFields, b.tokens),
     children |-> NonEmpty(Inside(b.tokens, ScanTo(ChildStart, b.tokens),
                                            PlaceOf(ChildEnd, b.tokens))),
     device   |-> Items(Between(b.tokens, DeviceStart, DeviceEnd)),
     user     |-> Items(Between(b.tokens, UserStart, UserEnd)),
     ax       |-> Items(Between(b.tokens, AxStart, AxEnd))]

\* System::unpack: the user items are put behind the device specific ones.
UnpackSystem(b) ==
    [fields   |-> UnpackFields(SystemFields, b.tokens),
     children |-> NonEmpty(Between(b.tokens, ChildStart, ChildEnd)),
     device   |-> Items(Between(b.tokens, DeviceStart, DeviceEnd)) \o
                  Items(Between(b.tokens, UserStart, UserEnd)),
     user     |-> <<>>,
     ax       |-> <<>>]

Unpack(kind, b) == IF kind = Component THEN UnpackComponent(b) ELSE UnpackSystem(b)

\* A list that unpack_component reads: the one that begins at its cursor, on
\* the first string of the 36th field.
ListAtCursor(ts, start, end) ==
    IF Begins(ts[3 * 35 + 1], start) THEN Items(BetweenC(ts, start, end)) ELSE <<>>

\* unpack_component.  The loop that should look for the children runs only
\* while it is at them, so that it never stops there.
UnpackCComponent(b) ==
    [fields   |-> UnpackFields(CComponentFields, b.tokens),
     children |-> <<>>,
     device   |-> ListAtCursor(b.tokens, DeviceStart, DeviceEnd),
     user     |-> ListAtCursor(b.tokens, UserStart, UserEnd),
     ax       |-> ListAtCursor(b.tokens, AxStart, AxEnd)]

\* unpack_system.
UnpackCSystem(b) ==
    [fields   |-> UnpackFields(SystemFields, b.tokens),
     children |-> Inside(b.tokens, PrefixScan(ChildStart, b.tokens),
                                   PrefixPlace(ChildEnd, b.tokens)),
     device   |-> Items(BetweenC(b.tokens, DeviceStart, DeviceEnd)),
     user     |-> Items(BetweenC(b.tokens, UserStart, UserEnd)),
     ax       |-> <<>>]

UnpackC(kind, b) == IF kind = Component THEN UnpackCComponent(b) ELSE UnpackCSystem(b)
=============================================================================
