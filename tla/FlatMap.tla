------------------------------ MODULE FlatMap ------------------------------
(***************************************************************************)
(* main/flatmap.c: a map kept as an array of (key, content) entries that   *)
(* is searched linearly.  The array is one heap block, grown by realloc()  *)
(* when it is full.  The size of that block is part of the state, because  *)
(* what the array holds is only meaningful inside it.                      *)
(*                                                                         *)
(* A map has one user at a time (the buffer's mutex sees to that), so each *)
(* operation is one step.  A key is the word it consists of plus whether   *)
(* the caller surrounded it with whitespace; the loops that strip the      *)
(* whitespace are taken for what they do to a key that has a word in it.   *)
(***************************************************************************)
EXTENDS Naturals, Sequences, FiniteSets, FiniteSetsExt

CONSTANTS Words,       \* keys without surrounding whitespace
          Contents,    \* what assignContent leaves in an entry
          InitialMax,  \* MapInfo.entriesMax as the caller sets it (16 in buffer.cpp)
          EntrySize    \* sizeof(Entry), two pointers (8 on the ESP32)

ASSUME ConstantsOK ==
    /\ InitialMax \in Nat
    /\ EntrySize \in Nat
    /\ EntrySize >= 2

VARIABLES entries,     \* entries[0 .. entriesLen - 1]
          entriesMax,  \* MapInfo.entriesMax
          bytes,       \* size of the heap block MapInfo.entries points to; 0 for NULL
          heap,        \* "ok", or "corrupt" once an entry was written past the block
          asked        \* history: the trimmed keys flatmap_put got since flatmap_init

vars == <<entries, entriesMax, bytes, heap, asked>>

-----------------------------------------------------------------------------
(* Keys *)

RawKeys == [word : Words, padded : BOOLEAN]

trimWhitespace(raw) == raw.word

Entry == [key : Words, content : Contents]

-----------------------------------------------------------------------------
(* Operations *)

Capacity == IF InitialMax = 0 THEN 16 ELSE InitialMax

Init ==
    /\ entries = <<>>
    /\ entriesMax = InitialMax
    /\ bytes = 0
    /\ heap = "ok"
    /\ asked = {}

\* Mutant of Positions: flatmap_get() compares the key as the caller wrote it.
PositionsUntrimmed(raw) ==
    {pos \in 1..Len(entries) : ~raw.padded /\ entries[pos].key = raw.word}

\* The position of the first entry stored under the trimmed key; 0 stands for
\* the NULL that is returned when there is none.
Positions(raw) == {pos \in 1..Len(entries) : entries[pos].key = trimWhitespace(raw)}

flatmap_get(raw) == IF Positions(raw) = {} THEN 0 ELSE Min(Positions(raw))

\* Every caller fills in a fresh MapInfo (entries NULL, entriesMax InitialMax)
\* right before; calloc() then provides entriesMax entries.
flatmap_init ==
    /\ heap = "ok"
    /\ bytes = 0
    /\ entriesMax' = Capacity
    /\ entries' = <<>>
    /\ bytes' = Capacity * EntrySize
    /\ asked' = {}
    /\ UNCHANGED heap

\* flatmap_put() of a key that is there: assignContent replaces the content.
PutExisting(raw, c) ==
    /\ heap = "ok" /\ bytes > 0
    /\ flatmap_get(raw) # 0
    /\ entries' = [entries EXCEPT ![flatmap_get(raw)].content = c]
    /\ asked' = asked \cup {trimWhitespace(raw)}
    /\ UNCHANGED <<entriesMax, bytes, heap>>

\* Mutant of GrownBytes: the last free entry is not used.
GrownTooSoon == IF entriesMax <= Len(entries) + 1 THEN entriesMax * 2 ELSE bytes

\* The heap block after the "need more space" test: doubled entriesMax is
\* handed to realloc() as a number of bytes.
GrownMax == IF entriesMax <= Len(entries) THEN entriesMax * 2 ELSE entriesMax
GrownBytes == IF entriesMax <= Len(entries) THEN GrownMax ELSE bytes

\* flatmap_put() of a new key: the entry behind the last one is taken.  When it
\* lies outside the block, everything after that write is undefined.
PutNew(raw, c) ==
    /\ heap = "ok" /\ bytes > 0
    /\ flatmap_get(raw) = 0
    /\ entriesMax' = GrownMax
    /\ bytes' = GrownBytes
    /\ asked' = asked \cup {trimWhitespace(raw)}
    /\ IF (Len(entries) + 1) * EntrySize <= GrownBytes
       THEN /\ entries' = Append(entries, [key |-> trimWhitespace(raw), content |-> c])
            /\ UNCHANGED heap
       ELSE /\ heap' = "corrupt"
            /\ UNCHANGED entries

flatmap_put(raw, c) == PutExisting(raw, c) \/ PutNew(raw, c)

\* Mutant of flatmap_free: entriesLen is not counted down.
FreeKeepsEntries ==
    /\ heap = "ok" /\ bytes > 0
    /\ bytes' = 0
    /\ asked' = {}
    /\ UNCHANGED <<entries, entriesMax, heap>>

\* Frees keys and contents from the last entry down, then the block.
flatmap_free ==
    /\ heap = "ok" /\ bytes > 0
    /\ entries' = <<>>
    /\ bytes' = 0
    /\ asked' = {}
    /\ UNCHANGED <<entriesMax, heap>>

Next ==
    \/ flatmap_init
    \/ \E raw \in RawKeys, c \in Contents : flatmap_put(raw, c)
    \/ flatmap_free

Spec == Init /\ [][Next]_vars

-----------------------------------------------------------------------------
(* Properties *)

\* The state is well formed: no more entries than entriesMax, and no entry
\* outside a live block (flatmap_free leaves nothing behind).
TypeOK ==
    /\ entries \in Seq(Entry)
    /\ entriesMax \in Nat
    /\ bytes \in Nat
    /\ heap \in {"ok", "corrupt"}
    /\ asked \subseteq Words
    /\ Len(entries) <= entriesMax
    /\ bytes = 0 => entries = <<>>

\* No two entries have the same trimmed key, however the callers padded it:
\* the first match flatmap_get finds is the only one, and a snapshot made by
\* putting every entry into an empty map never meets an entry twice (the
\* assertion "Entry already exists." of buffer.cpp).
KeysUnique ==
    \A p, q \in 1..Len(entries) : entries[p].key = entries[q].key => p = q

\* The entries lie inside the heap block.
EntriesFitAllocation ==
    /\ heap = "ok"
    /\ Len(entries) * EntrySize <= bytes

\* The keys the array has an entry for.
KeysPresent == {entries[pos].key : pos \in 1..Len(entries)}

\* A map that has been asked for no more than Capacity different keys since its
\* flatmap_init is intact: no entry was ever written outside its block, however
\* often the keys were put again, and it has an entry for every one of them.
IntactUntilGrowth ==
    Cardinality(asked) <= Capacity =>
        /\ heap = "ok"
        /\ Len(entries) * EntrySize <= bytes
        /\ KeysPresent = asked

\* The array implements the map of flatmap.h: the latest content per trimmed
\* key, up to Capacity keys; only a key beyond that leads to undefined
\* behaviour.
Stored(w) == entries[CHOOSE pos \in 1..Len(entries) : entries[pos].key = w].content
StoreMap == [w \in KeysPresent |-> Stored(w)]
Phase == IF heap = "corrupt" THEN "undefined"
         ELSE IF bytes = 0 THEN "null" ELSE "live"
Map == INSTANCE BoundedMap WITH phase <- Phase, store <- StoreMap
ImplementsMap == Map!Spec
=============================================================================
