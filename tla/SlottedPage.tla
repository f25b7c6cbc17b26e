----------------------------- MODULE SlottedPage -----------------------------
(***************************************************************************)
(* Page: a fixed block of bytes with a header, records growing up from the *)
(* header and a directory of slots growing down from the end.  A slot is   *)
(* modelled twice: its two fields in slots, and the bytes it occupies in   *)
(* data, so that a record written over the directory, or a slot over a     *)
(* record, shows.                                                          *)
(***************************************************************************)
EXTENDS Integers, Sequences

CONSTANTS
    PageSize,       \* PAGE_SIZE
    HeaderSize,     \* PAGE_HEADER_SIZE, 12
    SlotSize,       \* sizeof(Slot), 4
    SLOT_DELETED,   \* 0xFFFF
    MaxLength,      \* longest record offered (bound)
    Values,         \* byte values of records
    HeaderByte, SlotByte, ZeroByte,  \* what the other bytes of the page hold
    Deleted         \* a record that is gone

ASSUME SizesAssumption ==
    /\ PageSize \in Nat /\ HeaderSize \in Nat /\ SlotSize \in Nat \ {0}
    /\ HeaderSize <= PageSize
    /\ SLOT_DELETED \in Nat /\ PageSize < SLOT_DELETED
    /\ MaxLength \in Nat

\* The records offered; an insertion copies bytes, so it is enough to tell them by value.
Records == UNION {{[k \in 1 .. length |-> v] : v \in Values} : length \in 0 .. MaxLength}

ASSUME DeletedAssumption == Deleted \notin Records

VARIABLES
    data,               \* the bytes of the page
    num_slots,          \* header fields
    free_space_offset,
    slots               \* [offset, length] of each slot

pageVars == <<data, num_slots, free_space_offset, slots>>

Positions == 0 .. PageSize - 1
SlotIds == 0 .. num_slots - 1
Bytes == Values \cup {HeaderByte, SlotByte, ZeroByte}
Slot == [offset : 0 .. PageSize \cup {SLOT_DELETED}, length : 0 .. PageSize]

PageTypeOK ==
    /\ data \in [Positions -> Bytes]
    /\ num_slots \in Nat
    /\ free_space_offset \in 0 .. PageSize
    /\ slots \in [SlotIds -> Slot]

\* Page::init
PageInit ==
    /\ data = [b \in Positions |-> IF b < HeaderSize THEN HeaderByte ELSE ZeroByte]
    /\ num_slots = 0
    /\ free_space_offset = HeaderSize
    /\ slots = [n \in {} |-> 0]

-----------------------------------------------------------------------------
\* freeSpace without the bytes of the directory (a mistake)
FreeSpaceGross == PageSize - free_space_offset

FreeSpace == PageSize - free_space_offset - num_slots * SlotSize

\* The bytes of slot n, counted from the end of the page.
SlotBytes(n) == PageSize - (n + 1) * SlotSize .. PageSize - n * SlotSize - 1

\* A record of the given length whose bytes are all v.
Insert(length, v) ==
    /\ FreeSpace >= length + SlotSize
    /\ data' = [b \in Positions |->
                   IF b \in SlotBytes(num_slots) THEN SlotByte
                   ELSE IF b \in free_space_offset .. free_space_offset + length - 1 THEN v
                   ELSE data[b]]
    /\ slots' = [n \in 0 .. num_slots |->
                    IF n = num_slots
                    THEN [offset |-> free_space_offset, length |-> length]
                    ELSE slots[n]]
    /\ free_space_offset' = free_space_offset + length
    /\ num_slots' = num_slots + 1

Live(n) == slots[n].offset # SLOT_DELETED
RecordBytes(n) == slots[n].offset .. slots[n].offset + slots[n].length - 1

\* getRecord
GetRecord(n) ==
    IF Live(n) THEN [k \in 1 .. slots[n].length |-> data[slots[n].offset + k - 1]]
    ELSE Deleted

Update(n, length, v) ==
    /\ Live(n)
    /\ slots[n].length = length
    /\ data' = [b \in Positions |-> IF b \in RecordBytes(n) THEN v ELSE data[b]]
    /\ UNCHANGED <<num_slots, free_space_offset, slots>>

\* deleteRecord of the last slot that takes the slot back (a mistake)
DeleteAndPop(n) ==
    /\ Live(n)
    /\ num_slots' = IF n = num_slots - 1 THEN n ELSE num_slots
    /\ slots' = IF n = num_slots - 1 THEN [m \in 0 .. n - 1 |-> slots[m]]
                ELSE [slots EXCEPT ![n] = [offset |-> SLOT_DELETED, length |-> 0]]
    /\ UNCHANGED <<data, free_space_offset>>

Delete(n) ==
    /\ Live(n)
    /\ slots' = [slots EXCEPT ![n] = [offset |-> SLOT_DELETED, length |-> 0]]
    /\ UNCHANGED <<data, num_slots, free_space_offset>>

PageNext ==
    \/ \E length \in 0 .. MaxLength, v \in Values : Insert(length, v)
    \/ \E n \in SlotIds, length \in 0 .. MaxLength, v \in Values : Update(n, length, v)
    \/ \E n \in SlotIds : Delete(n)

PageSpec == PageInit /\ [][PageNext]_pageVars

-----------------------------------------------------------------------------
(* Properties *)

\* Between header and directory: the two areas never meet, so that freeSpace, an
\* unsigned difference in the code, never wraps around.
AreasApart ==
    /\ HeaderSize <= free_space_offset
    /\ free_space_offset + num_slots * SlotSize <= PageSize

\* Live records lie between the header and the free space.
RecordsBelowFree ==
    \A n \in SlotIds : Live(n) =>
        HeaderSize <= slots[n].offset /\ slots[n].offset + slots[n].length <= free_space_offset

\* Live records do not share a byte, in slot order.
RecordsDisjoint ==
    \A m, n \in SlotIds : m < n /\ Live(m) /\ Live(n) =>
        slots[m].offset + slots[m].length <= slots[n].offset

\* No sequence of insertions, updates and deletions lets two records, a record and the
\* directory, or a record and the header, share a byte.
LayoutSound == AreasApart /\ RecordsBelowFree /\ RecordsDisjoint

\* The page is a table of records: a slot id returned by insertRecord reads the record
\* last stored under it, until it is deleted, and is never given to another record.
RT == INSTANCE RecordTable WITH table <- [n \in SlotIds |-> GetRecord(n)]

ImplementsRecordTable == RT!RTSpec
=============================================================================
