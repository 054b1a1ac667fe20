--------------------------- MODULE FlatMapProofs ---------------------------
(***************************************************************************)
(* What flatmap.c keeps, for every initial size, key and content, and that *)
(* it implements the map of flatmap.h up to its initial size.              *)
(***************************************************************************)
EXTENDS FlatMap, FiniteSetTheorems, TLAPS

\* Until something was written outside it, the block is the one flatmap_init
\* allocated, and holds every entry.
BlockUnchanged ==
    heap = "ok" /\ bytes > 0 =>
        /\ entriesMax = Capacity
        /\ bytes = Capacity * EntrySize
        /\ Len(entries) * EntrySize <= bytes

\* There is an entry for every key asked for, unless there were too many of them.
AskedFor ==
    /\ IsFiniteSet(asked)
    /\ heap = "ok" => KeysPresent = asked
    /\ heap = "corrupt" => Cardinality(asked) > Capacity

\* The inductive invariant.  None of its parts is inductive by itself: that a
\* write stays in bounds needs the size of the block, the size of the block
\* only stays what it was because the first growth always ends in "corrupt", and
\* that this takes more than Capacity keys needs the keys of the entries to be
\* unique.
IInv == TypeOK /\ KeysUnique /\ BlockUnchanged /\ AskedFor

LEMMA CapacityType == Capacity \in Nat /\ Capacity >= 1
  BY ConstantsOK DEF Capacity

\* A block of 2n bytes does not hold n + 1 entries.
LEMMA GrownBlockTooSmall ==
  ASSUME NEW n \in Nat
  PROVE  (n + 1) * EntrySize > n * 2
  <1>1. (n + 1) * EntrySize >= (n + 1) * 2
    BY ConstantsOK
  <1> QED
    BY <1>1, ConstantsOK

\* With n entries of capacity c in use, one more fits exactly when n < c.
LEMMA BlockHolds ==
  ASSUME NEW n \in Nat, NEW c \in Nat, n <= c
  PROVE  /\ n * EntrySize \in Nat
         /\ n * EntrySize <= c * EntrySize
  <1> USE ConstantsOK
  <1>1. PICK d \in Nat : c = n + d
    BY c - n \in Nat
  <1>2. c * EntrySize = n * EntrySize + d * EntrySize
    BY <1>1
  <1> QED
    BY <1>2

LEMMA InitIInv == Init => IInv
  <1> SUFFICES ASSUME Init PROVE IInv
    OBVIOUS
  <1>1. KeysPresent = {}
    BY DEF Init, KeysPresent
  <1>2. AskedFor
    BY <1>1, FS_EmptySet DEF Init, AskedFor
  <1>3. TypeOK /\ KeysUnique /\ BlockUnchanged
    BY ConstantsOK DEF Init, TypeOK, KeysUnique, BlockUnchanged
  <1> QED
    BY <1>2, <1>3 DEF IInv

\* A put of a new key either fits the original block or corrupts the heap.
LEMMA PutNewCases ==
  ASSUME IInv, NEW raw \in RawKeys, NEW c \in Contents, PutNew(raw, c)
  PROVE  \/ /\ Len(entries) < Capacity
            /\ entries' = Append(entries, [key |-> raw.word, content |-> c])
            /\ UNCHANGED <<entriesMax, bytes, heap>>
         \/ /\ Len(entries) = Capacity
            /\ entriesMax' = Capacity * 2
            /\ bytes' = Capacity * 2
            /\ heap' = "corrupt"
            /\ UNCHANGED entries
  <1> USE CapacityType DEF IInv, TypeOK, BlockUnchanged
  <1>0. Len(entries) \in Nat /\ entriesMax = Capacity /\ bytes = Capacity * EntrySize
    BY DEF PutNew
  <1>1. CASE Len(entries) < Capacity
    <2>1. (Len(entries) + 1) * EntrySize <= Capacity * EntrySize
      BY <1>0, <1>1, BlockHolds
    <2>2. GrownMax = entriesMax /\ GrownBytes = bytes
      BY <1>0, <1>1 DEF GrownMax, GrownBytes
    <2> QED
      BY <1>0, <1>1, <2>1, <2>2 DEF PutNew, trimWhitespace
  <1>2. CASE Len(entries) = Capacity
    <2>1. GrownMax = Capacity * 2 /\ GrownBytes = Capacity * 2
      BY <1>0, <1>2 DEF GrownMax, GrownBytes
    <2>2. ~((Len(entries) + 1) * EntrySize <= GrownBytes)
      BY <1>2, <2>1, GrownBlockTooSmall, ConstantsOK
    <2> QED
      BY <1>2, <2>1, <2>2 DEF PutNew
  <1> QED
    BY <1>0, <1>1, <1>2

\* With unique keys the first entry flatmap_get finds is the only one.
LEMMA GetFinds ==
  ASSUME IInv, NEW raw \in RawKeys, flatmap_get(raw) # 0
  PROVE  /\ flatmap_get(raw) \in 1..Len(entries)
         /\ entries[flatmap_get(raw)].key = raw.word
  <1>1. PICK p \in 1..Len(entries) : entries[p].key = raw.word
    BY DEF flatmap_get, Positions, trimWhitespace
  <1>2. Positions(raw) = {p}
    BY <1>1 DEF IInv, KeysUnique, Positions, trimWhitespace
  <1>3. Min({p}) = p
    BY DEF Min
  <1> QED
    BY <1>1, <1>2, <1>3 DEF flatmap_get

LEMMA GetMisses ==
  ASSUME NEW raw \in RawKeys, flatmap_get(raw) = 0, IInv
  PROVE  \A p \in 1..Len(entries) : entries[p].key # raw.word
  <1> SUFFICES ASSUME NEW p \in 1..Len(entries), entries[p].key = raw.word PROVE FALSE
    OBVIOUS
  <1>1. Positions(raw) = {p}
    BY DEF IInv, KeysUnique, Positions, trimWhitespace
  <1>2. Min({p}) = p /\ p # 0
    BY DEF Min
  <1> QED
    BY <1>1, <1>2 DEF flatmap_get

\* Replacing the content of one entry leaves the keys and the other contents.
LEMMA ReplaceContent ==
  ASSUME NEW s \in Seq(Entry), NEW p \in 1..Len(s), NEW c \in Contents, NEW r,
         r = [s EXCEPT ![p].content = c]
  PROVE  /\ r \in Seq(Entry)
         /\ Len(r) = Len(s)
         /\ \A q \in 1..Len(s) : /\ r[q].key = s[q].key
                                 /\ r[q].content = IF q = p THEN c ELSE s[q].content
  <1>1. \A q \in 1..Len(s) : s[q] \in Entry
    OBVIOUS
  <1>2. r = [s EXCEPT ![p] = [s[p] EXCEPT !.content = c]]
    OBVIOUS
  <1>3. [s[p] EXCEPT !.content = c] = [key |-> s[p].key, content |-> c]
    BY <1>1 DEF Entry
  <1>4. [key |-> s[p].key, content |-> c] \in Entry
    BY <1>1 DEF Entry
  <1>5. r = [s EXCEPT ![p] = [key |-> s[p].key, content |-> c]]
    BY <1>2, <1>3
  <1> QED
    BY <1>1, <1>4, <1>5 DEF Entry

\* Unique keys: there are as many keys as entries.
LEMMA KeysCount ==
  ASSUME IInv
  PROVE  Cardinality(KeysPresent) = Len(entries)
  <1> DEFINE S == 1..Len(entries)
             f == [p \in S |-> entries[p].key]
  <1>1. Len(entries) \in Nat
    BY DEF IInv, TypeOK
  <1>2. IsFiniteSet(S) /\ Cardinality(S) = Len(entries)
    <2> DEFINE n == Len(entries)
    <2>1. n \in Int /\ 1 \in Int
      BY <1>1
    <2>2. IsFiniteSet(1..n) /\ Cardinality(1..n) = IF 1 > n THEN 0 ELSE n - 1 + 1
      <3> HIDE DEF n
      <3> QED
        BY <2>1, FS_Interval, Zenon
    <2>3. (IF 1 > n THEN 0 ELSE n - 1 + 1) = n
      BY <1>1
    <2> QED
      BY <2>2, <2>3
  <1>3. f \in Bijection(S, KeysPresent)
    <2>1. f \in [S -> KeysPresent]
      BY DEF KeysPresent
    <2>2. \A x, y \in S : f[x] = f[y] => x = y
      BY DEF IInv, KeysUnique
    <2>3. \A w \in KeysPresent : \E x \in S : f[x] = w
      BY DEF KeysPresent
    <2> HIDE DEF f, S
    <2> QED
      BY <2>1, <2>2, <2>3 DEF Bijection, Injection, Surjection, IsInjective
  <1>4. ExistsBijection(S, KeysPresent)
    BY <1>3 DEF ExistsBijection
  <1> QED
    BY <1>2, <1>4, FS_Bijection

\* What a put does to the keys asked for and to those present.
LEMMA PutAsked ==
  ASSUME IInv, NEW raw \in RawKeys, NEW c \in Contents, flatmap_put(raw, c)
  PROVE  AskedFor'
  <1>0. PICK w \in Words : w = raw.word
    BY DEF RawKeys
  <1>1. heap = "ok" /\ bytes > 0 /\ asked' = asked \cup {w}
    BY <1>0 DEF flatmap_put, PutExisting, PutNew, trimWhitespace
  <1>2. IsFiniteSet(asked) /\ KeysPresent = asked
    BY <1>1 DEF IInv, AskedFor
  <1>3. IsFiniteSet(asked \cup {w})
    BY <1>2, FS_AddElement
  <1>4. entries \in Seq(Entry) /\ Len(entries) \in Nat
    BY DEF IInv, TypeOK
  <1>5. CASE PutExisting(raw, c)
    <2> DEFINE p == flatmap_get(raw)
    <2>1. p \in 1..Len(entries) /\ entries[p].key = w
      BY <1>0, <1>5, GetFinds DEF PutExisting
    <2>2. /\ Len(entries') = Len(entries)
          /\ \A q \in 1..Len(entries) : entries'[q].key = entries[q].key
      <3>1. entries' = [entries EXCEPT ![p].content = c]
        BY <1>5 DEF PutExisting
      <3> HIDE DEF p
      <3> QED
        BY <1>4, <2>1, <3>1, ReplaceContent
    <2>3. KeysPresent' = KeysPresent
      BY <2>2 DEF KeysPresent
    <2>4. w \in KeysPresent
      BY <2>1 DEF KeysPresent
    <2>5. heap' = "ok"
      BY <1>5 DEF PutExisting
    <2> HIDE DEF p
    <2> QED
      BY <1>1, <1>2, <1>3, <2>3, <2>4, <2>5 DEF AskedFor
  <1>6. CASE PutNew(raw, c)
    <2> DEFINE e == [key |-> w, content |-> c]
    <2>1. e \in Entry /\ e.key = w
      BY DEF Entry
    <2>2. w \notin KeysPresent
      BY <1>0, <1>6, GetMisses DEF PutNew, KeysPresent
    <2>3. CASE entries' = Append(entries, e) /\ UNCHANGED heap
      <3> HIDE DEF e
      <3>1. /\ Len(entries') = Len(entries) + 1
            /\ entries'[Len(entries) + 1] = e
            /\ \A q \in 1..Len(entries) : entries'[q] = entries[q]
        BY <1>4, <2>1, <2>3
      <3>2. ASSUME NEW x \in KeysPresent' PROVE x \in KeysPresent \cup {w}
        <4>1. PICK q \in 1..Len(entries') : entries'[q].key = x
          BY <3>2 DEF KeysPresent
        <4>2. q \in 1..Len(entries) \/ q = Len(entries) + 1
          BY <1>4, <3>1, <4>1
        <4> QED
          BY <2>1, <3>1, <4>1, <4>2 DEF KeysPresent
      <3>3. ASSUME NEW x \in KeysPresent PROVE x \in KeysPresent'
        <4>1. PICK q \in 1..Len(entries) : entries[q].key = x
          BY <3>3 DEF KeysPresent
        <4>2. q \in 1..Len(entries') /\ entries'[q].key = x
          BY <1>4, <3>1, <4>1
        <4> QED
          BY <4>2 DEF KeysPresent
      <3>4. w \in KeysPresent'
        <4>1. Len(entries) + 1 \in 1..Len(entries')
          BY <1>4, <3>1
        <4> QED
          BY <2>1, <3>1, <4>1 DEF KeysPresent
      <3>5. KeysPresent' = KeysPresent \cup {w}
        BY <3>2, <3>3, <3>4
      <3> QED
        BY <1>1, <1>2, <1>3, <2>3, <3>5 DEF AskedFor
    <2>4. CASE Len(entries) = Capacity /\ heap' = "corrupt"
      <3>1. Cardinality(asked) = Capacity
        BY <1>2, <2>4, KeysCount
      <3>2. Cardinality(asked \cup {w}) = Cardinality(asked) + 1
        BY <1>2, <2>2, FS_AddElement
      <3>3. Cardinality(asked') > Capacity
        BY <1>1, <3>1, <3>2, CapacityType
      <3> QED
        BY <1>1, <1>3, <2>4, <3>3 DEF AskedFor
    <2> QED
      BY <1>0, <1>6, <2>3, <2>4, PutNewCases
  <1> QED
    BY <1>5, <1>6 DEF flatmap_put

LEMMA StepIInv == IInv /\ [Next]_vars => IInv'
  <1> SUFFICES ASSUME IInv, [Next]_vars PROVE IInv'
    OBVIOUS
  <1> USE CapacityType, ConstantsOK DEF TypeOK, KeysUnique, BlockUnchanged
  <1>0. TypeOK /\ KeysUnique /\ BlockUnchanged /\ AskedFor
    BY DEF IInv
  <1>1. CASE flatmap_init
    <2>1. Capacity * EntrySize \in Nat
      OBVIOUS
    <2>2. KeysPresent' = {}
      BY <1>1 DEF flatmap_init, KeysPresent
    <2>3. AskedFor'
      BY <1>1, <2>2, FS_EmptySet DEF flatmap_init, AskedFor
    <2> QED
      BY <1>0, <1>1, <2>1, <2>3 DEF flatmap_init, IInv
  <1>2. ASSUME NEW raw \in RawKeys, NEW c \in Contents, PutExisting(raw, c)
        PROVE  IInv'
    <2> DEFINE p == flatmap_get(raw)
    <2>1. p \in 1..Len(entries)
      BY <1>2, GetFinds DEF PutExisting
    <2>2. /\ entries' \in Seq(Entry) /\ Len(entries') = Len(entries)
          /\ \A q \in 1..Len(entries) : entries'[q].key = entries[q].key
      <3>1. entries \in Seq(Entry) /\ entries' = [entries EXCEPT ![p].content = c]
        BY <1>0, <1>2 DEF PutExisting
      <3> HIDE DEF p
      <3> QED
        BY <2>1, <3>1, ReplaceContent
    <2>3. heap = "ok" /\ bytes > 0 /\ UNCHANGED <<entriesMax, bytes, heap>>
      BY <1>2 DEF PutExisting
    <2>3a. asked' \subseteq Words
      BY <1>0, <1>2 DEF PutExisting, trimWhitespace, RawKeys
    <2>4. TypeOK'
      BY <1>0, <2>2, <2>3, <2>3a
    <2>5. KeysUnique'
      BY <1>0, <2>2
    <2>6. BlockUnchanged'
      BY <1>0, <2>2, <2>3
    <2> QED
      BY <1>2, <2>4, <2>5, <2>6, PutAsked DEF flatmap_put, IInv
  <1>3. ASSUME NEW raw \in RawKeys, NEW c \in Contents, PutNew(raw, c)
        PROVE  IInv'
    <2>1. [key |-> raw.word, content |-> c] \in Entry
      BY DEF RawKeys, Entry
    <2>2. heap = "ok" /\ bytes > 0 /\ \A p \in 1..Len(entries) : entries[p].key # raw.word
      BY <1>3, GetMisses DEF PutNew
    <2>2a. asked' \subseteq Words
      BY <1>0, <1>3 DEF PutNew, trimWhitespace, RawKeys
    <2>2b. AskedFor'
      BY <1>3, PutAsked DEF flatmap_put
    <2>3. CASE /\ Len(entries) < Capacity
               /\ entries' = Append(entries, [key |-> raw.word, content |-> c])
               /\ UNCHANGED <<entriesMax, bytes, heap>>
      <3>0. entries' \in Seq(Entry) /\ Len(entries') = Len(entries) + 1
        BY <1>0, <2>1, <2>3
      <3>1. TypeOK'
        <4>1. entriesMax = Capacity /\ bytes \in Nat
          BY <1>0, <2>2
        <4> QED
          BY <1>0, <2>2, <2>2a, <2>3, <3>0, <4>1
      <3>2. KeysUnique'
        BY <1>0, <2>1, <2>2, <2>3
      <3>3. BlockUnchanged'
        <4>1. Len(entries) + 1 \in Nat /\ Len(entries) + 1 <= Capacity
          BY <1>0, <2>3
        <4>2. (Len(entries) + 1) * EntrySize <= Capacity * EntrySize
          BY <4>1, BlockHolds
        <4> QED
          BY <1>0, <2>2, <2>3, <3>0, <4>2
      <3> QED
        BY <2>2b, <3>1, <3>2, <3>3 DEF IInv
    <2>4. CASE /\ Len(entries) = Capacity
               /\ entriesMax' = Capacity * 2
               /\ bytes' = Capacity * 2
               /\ heap' = "corrupt"
               /\ UNCHANGED entries
      BY <1>0, <2>2, <2>2a, <2>2b, <2>4 DEF IInv
    <2> QED
      BY <1>3, <2>3, <2>4, PutNewCases
  <1>4. CASE flatmap_free
    <2>1. KeysPresent' = {}
      BY <1>4 DEF flatmap_free, KeysPresent
    <2>2. AskedFor'
      BY <1>4, <2>1, FS_EmptySet DEF flatmap_free, AskedFor
    <2> QED
      BY <1>0, <1>4, <2>2 DEF flatmap_free, IInv
  <1>5. CASE UNCHANGED vars
    <2>1. KeysPresent' = KeysPresent
      BY <1>5 DEF vars, KeysPresent
    <2> QED
      BY <1>0, <1>5, <2>1 DEF vars, IInv, AskedFor
  <1> QED
    BY <1>1, <1>2, <1>3, <1>4, <1>5 DEF Next, flatmap_put

LEMMA Invariance == Spec => []IInv
  BY InitIInv, StepIInv, PTL DEF Spec

\* The state of a map is well formed, whatever its initial size.
THEOREM TypeCorrect == Spec => []TypeOK
  BY Invariance, PTL DEF IInv

\* No two entries of a map ever have the same trimmed key.
THEOREM UniqueKeys == Spec => []KeysUnique
  BY Invariance, PTL DEF IInv

\* A map that was asked for at most its initial number of different keys never
\* writes outside its block and has an entry for every one of them.
THEOREM IntactUntilFull == Spec => []IntactUntilGrowth
  <1>1. IInv => IntactUntilGrowth
    <2> SUFFICES ASSUME IInv, Cardinality(asked) <= Capacity PROVE
                   heap = "ok" /\ Len(entries) * EntrySize <= bytes /\ KeysPresent = asked
      BY DEF IntactUntilGrowth
    <2>1. Cardinality(asked) \in Nat
      BY FS_CardinalityType DEF IInv, AskedFor
    <2>2. heap = "ok"
      BY <2>1, CapacityType DEF IInv, AskedFor, TypeOK
    <2>3. KeysPresent = asked
      BY <2>2 DEF IInv, AskedFor
    <2>4. CASE bytes = 0
      BY <2>2, <2>3, <2>4, ConstantsOK DEF IInv, TypeOK
    <2>5. CASE bytes > 0
      BY <2>2, <2>3, <2>5 DEF IInv, BlockUnchanged
    <2> QED
      BY <2>4, <2>5 DEF IInv, TypeOK
  <1> QED
    BY <1>1, Invariance, PTL

-----------------------------------------------------------------------------
(* The refinement *)

\* The map a sequence of entries with unique keys stands for.
LEMMA StoredIs ==
  ASSUME KeysUnique, NEW CONSTANT w, NEW p \in 1..Len(entries), entries[p].key = w
  PROVE  Stored(w) = entries[p].content
  BY DEF KeysUnique, Stored

LEMMA StoredIsNext ==
  ASSUME KeysUnique', NEW CONSTANT w, NEW p \in 1..Len(entries'), entries'[p].key = w
  PROVE  Stored(w)' = entries'[p].content
  BY DEF KeysUnique, Stored

\* BoundedMap's Put, as a function of the map.
PutInto(st, w, c) == [x \in DOMAIN st \cup {w} |-> IF x = w THEN c ELSE st[x]]

\* An entry array without entries is the empty map.
LEMMA EmptyStore ==
  ASSUME entries = <<>>
  PROVE  StoreMap = Map!Empty
  <1>1. KeysPresent = {}
    BY DEF KeysPresent
  <1> QED
    BY <1>1 DEF StoreMap, Map!Empty

LEMMA EmptyStoreNext ==
  ASSUME entries' = <<>>
  PROVE  StoreMap' = Map!Empty
  <1>1. KeysPresent' = {}
    BY DEF KeysPresent
  <1> QED
    BY <1>1 DEF StoreMap, Map!Empty

\* Storing a content under a key that is present, or behind the last entry, is a
\* put into the map.
LEMMA StorePut ==
  ASSUME IInv, IInv', NEW CONSTANT w, NEW CONSTANT c, NEW p \in 1..Len(entries'),
         entries'[p].key = w, entries'[p].content = c,
         Len(entries') >= Len(entries),
         \A q \in 1..Len(entries') : q # p => q \in 1..Len(entries) /\ entries'[q] = entries[q],
         p \in 1..Len(entries) => entries[p].key = w
  PROVE  StoreMap' = PutInto(StoreMap, w, c)
  <1> USE DEF IInv
  <1>0. Len(entries) \in Nat /\ Len(entries') \in Nat
    BY DEF TypeOK
  <1>1. KeysPresent' = KeysPresent \cup {w}
    <2>1. ASSUME NEW x \in KeysPresent' PROVE x \in KeysPresent \cup {w}
      BY <2>1 DEF KeysPresent
    <2>2. ASSUME NEW x \in KeysPresent PROVE x \in KeysPresent'
      <3>1. PICK q \in 1..Len(entries) : entries[q].key = x
        BY <2>2 DEF KeysPresent
      <3>2. q \in 1..Len(entries') /\ entries'[q].key = x
        BY <1>0, <3>1
      <3> QED
        BY <3>2 DEF KeysPresent
    <2>3. w \in KeysPresent'
      BY DEF KeysPresent
    <2> QED
      BY <2>1, <2>2, <2>3
  <1>2. Stored(w)' = c
    BY StoredIsNext
  <1>3. ASSUME NEW x \in KeysPresent, x # w PROVE Stored(x)' = Stored(x)
    <2>1. PICK q \in 1..Len(entries) : entries[q].key = x
      BY <1>3 DEF KeysPresent
    <2>2. q \in 1..Len(entries') /\ q # p /\ entries'[q] = entries[q]
      BY <1>0, <1>3, <2>1
    <2> QED
      BY <2>1, <2>2, StoredIs, StoredIsNext
  <1> QED
    BY <1>1, <1>2, <1>3 DEF StoreMap, PutInto

\* BoundedMap counts keys as this module does.
LEMMA SameCount == ASSUME NEW S PROVE Map!Cardinality(S) = Cardinality(S)
  BY DEF Map!Cardinality, Cardinality

\* The map is a function of the entries alone.
LEMMA StoreUnchanged == ASSUME UNCHANGED entries PROVE UNCHANGED StoreMap
  <1>1. KeysPresent' = KeysPresent
    BY DEF KeysPresent
  <1>2. ASSUME NEW w PROVE Stored(w)' = Stored(w)
    BY DEF Stored
  <1> QED
    BY <1>1, <1>2 DEF StoreMap

LEMMA RefineInit == Init => Map!Init
  BY EmptyStore, ConstantsOK DEF Init, Map!Init, Phase

LEMMA RefineStep == IInv /\ IInv' /\ [Next]_vars => [Map!Next]_Map!vars
  <1> SUFFICES ASSUME IInv, IInv', [Next]_vars PROVE [Map!Next]_Map!vars
    OBVIOUS
  <1> USE CapacityType
  <1>1. CASE flatmap_init
    <2>1. Capacity * EntrySize > 0
      BY BlockHolds, ConstantsOK
    <2>2. StoreMap' = Map!Empty
      BY <1>1, EmptyStoreNext DEF flatmap_init
    <2>3. Map!Create
      BY <1>1, <2>1, <2>2 DEF flatmap_init, Map!Create, Phase
    <2> QED
      BY <2>3 DEF Map!Next
  <1>2. ASSUME NEW raw \in RawKeys, NEW c \in Contents, PutExisting(raw, c)
        PROVE  Map!Next
    <2>0. PICK w \in Words : w = raw.word
      BY DEF RawKeys
    <2>1. PICK p \in 1..Len(entries) : p = flatmap_get(raw) /\ entries[p].key = w
      BY <1>2, <2>0, GetFinds DEF PutExisting
    <2>2. entries \in Seq(Entry) /\ entries' = [entries EXCEPT ![p].content = c]
      BY <1>2, <2>1 DEF PutExisting, IInv, TypeOK
    <2>3. Len(entries') = Len(entries) /\ entries'[p].key = w /\ entries'[p].content = c
      BY <2>1, <2>2, ReplaceContent
    <2>4. /\ p \in 1..Len(entries') /\ Len(entries') >= Len(entries)
          /\ \A q \in 1..Len(entries') : q # p => q \in 1..Len(entries) /\ entries'[q] = entries[q]
          /\ p \in 1..Len(entries) => entries[p].key = w
      BY <2>1, <2>2, <2>3
    <2>5. StoreMap' = PutInto(StoreMap, w, c)
      BY <2>3, <2>4, StorePut
    <2>6. w \in DOMAIN StoreMap
      BY <2>1 DEF KeysPresent, StoreMap
    <2>7. Map!Put(w, c)
      BY <1>2, <2>5, <2>6 DEF PutExisting, Map!Put, Phase, PutInto
    <2> QED
      BY <2>7 DEF Map!Next
  <1>3. ASSUME NEW raw \in RawKeys, NEW c \in Contents, PutNew(raw, c)
        PROVE  Map!Next
    <2>0. PICK w \in Words : w = raw.word
      BY DEF RawKeys
    <2> DEFINE e == [key |-> w, content |-> c]
    <2>1. Len(entries) \in Nat /\ entries \in Seq(Entry) /\ e \in Entry
      BY DEF IInv, TypeOK, Entry
    <2>2. Cardinality(DOMAIN StoreMap) = Len(entries)
      <3>1. DOMAIN StoreMap = KeysPresent
        BY DEF StoreMap
      <3> QED
        BY <3>1, KeysCount
    <2>2a. Map!Cardinality(DOMAIN StoreMap) = Len(entries)
      BY <2>2, SameCount
    <2>3. heap = "ok" /\ bytes > 0 /\ bytes \in Nat
      BY <1>3 DEF PutNew, IInv, TypeOK
    <2>4. CASE /\ Len(entries) < Capacity
               /\ entries' = Append(entries, e)
               /\ UNCHANGED <<entriesMax, bytes, heap>>
      <3>1. StoreMap' = PutInto(StoreMap, w, c)
        <4>1. PICK p \in Nat : p = Len(entries) + 1
          BY <2>1
        <4>2. /\ p \in 1..Len(entries') /\ Len(entries') >= Len(entries)
              /\ entries'[p].key = w /\ entries'[p].content = c
              /\ p \in 1..Len(entries) => entries[p].key = w
          BY <2>1, <2>4, <4>1
        <4>3. \A q \in 1..Len(entries') :
                 q # p => q \in 1..Len(entries) /\ entries'[q] = entries[q]
          BY <2>1, <2>4, <4>1
        <4> QED
          BY <4>2, <4>3, StorePut
      <3>2. Map!Put(w, c)
        BY <2>2a, <2>3, <2>4, <3>1 DEF Map!Put, Phase, PutInto
      <3> QED
        BY <3>2 DEF Map!Next
    <2>5. CASE /\ Len(entries) = Capacity
               /\ heap' = "corrupt"
               /\ UNCHANGED entries
      <3>1. StoreMap' = StoreMap
        BY <2>5, StoreUnchanged
      <3>2. Map!Overflow
        BY <2>2a, <2>3, <2>5, <3>1 DEF Map!Overflow, Phase
      <3> QED
        BY <3>2 DEF Map!Next
    <2> QED
      BY <1>3, <2>0, <2>4, <2>5, PutNewCases
  <1>4. CASE flatmap_free
    <2>1. StoreMap' = Map!Empty
      BY <1>4, EmptyStoreNext DEF flatmap_free
    <2>2. Map!Free
      BY <1>4, <2>1 DEF flatmap_free, Map!Free, Phase
    <2> QED
      BY <2>2 DEF Map!Next
  <1>5. CASE UNCHANGED vars
    BY <1>5 DEF vars, Map!vars, Phase, StoreMap, KeysPresent, Stored
  <1> QED
    BY <1>1, <1>2, <1>3, <1>4, <1>5 DEF Next, flatmap_put

\* flatmap.c implements the map of flatmap.h: the latest content per trimmed key,
\* for as many keys as it was created for, whatever that number is; one key more
\* is the only way to undefined behaviour.
THEOREM FlatMapRefines == Spec => ImplementsMap
  BY RefineInit, RefineStep, Invariance, PTL DEF Spec, ImplementsMap, Map!Spec
=============================================================================
