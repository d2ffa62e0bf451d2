----------------------------- MODULE RntpCache -----------------------------
(* The slots of the Linux client's sector cache (c/rntp/linux/client.c):    *)
(* cache_put(), the lookup of rntp_client_read() and the clearing of the    *)
(* whole cache.  Slots below Split serve sectors below MetadataEnd.         *)
EXTENDS Integers, FiniteSets, FiniteSetsExt, WellFoundedInduction, TLAPS

CONSTANTS Slots,        \* 224, of which
          Split,        \* the first 192 hold metadata
          Sectors, MetadataEnd, Data,
          MaxClock      \* bound: uses of the cache

\* What rntp_client_connect() and the declaration of the cache make sure of.
Shape ==
    /\ Slots \in Nat /\ Split \in 1 .. Slots - 1
    /\ Sectors \in Nat /\ MetadataEnd \in Nat /\ MaxClock \in Nat

EMPTY == -1

VARIABLES cache,   \* lba, stamp and data of every slot
          clock,
          newest   \* history: the data last put for a sector since the cache was cleared

vars == <<cache, clock, newest>>

Part(lba) == IF lba < MetadataEnd THEN 0 .. Split - 1 ELSE Split .. Slots - 1

\* Faulty variant: an empty slot is taken before the sector's own.
SlotForEmptyFirst(lba) ==
    LET empty == {i \in Part(lba) : cache[i].lba = EMPTY}
        own   == {i \in Part(lba) : cache[i].lba = lba}
    IN  IF empty # {} THEN Min(empty) ELSE IF own # {} THEN Min(own)
        ELSE Min({i \in Part(lba) : \A j \in Part(lba) : cache[i].stamp <= cache[j].stamp})

\* Faulty variant: when none is free, the first slot is taken however lately it was used.
SlotForFirst(lba) ==
    LET fits == {i \in Part(lba) : cache[i].lba \in {lba, EMPTY}}
    IN  Min(IF fits # {} THEN fits ELSE Part(lba))

\* The first slot that is empty or holds the sector, else the least recently used.
SlotFor(lba) ==
    LET fits == {i \in Part(lba) : cache[i].lba \in {lba, EMPTY}}
    IN  IF fits # {} THEN Min(fits)
        ELSE Min({i \in Part(lba) : \A j \in Part(lba) : cache[i].stamp <= cache[j].stamp})

Put(lba, data) ==
    /\ clock < MaxClock
    /\ clock' = clock + 1
    /\ cache' = [cache EXCEPT ![SlotFor(lba)] = [lba |-> lba, stamp |-> clock + 1, data |-> data]]
    /\ newest' = [newest EXCEPT ![lba] = data]

\* A hit makes the slot the most recently used one.
Hit(i) ==
    /\ clock < MaxClock /\ cache[i].lba # EMPTY
    /\ clock' = clock + 1
    /\ cache' = [cache EXCEPT ![i].stamp = clock + 1]
    /\ UNCHANGED newest

Clear ==
    /\ cache' = [i \in 0 .. Slots - 1 |-> [cache[i] EXCEPT !.lba = EMPTY]]
    /\ UNCHANGED <<clock, newest>>

Init ==
    /\ clock = 0
    /\ \E d \in Data : cache = [i \in 0 .. Slots - 1 |-> [lba |-> EMPTY, stamp |-> 0, data |-> d]]
                       /\ newest = [s \in 0 .. Sectors - 1 |-> d]

Next ==
    \/ \E s \in 0 .. Sectors - 1, d \in Data : Put(s, d)
    \/ \E i \in 0 .. Slots - 1 : Hit(i)
    \/ Clear

Spec == Init /\ [][Next]_vars

\* Whichever slot a lookup finds first, it holds what was last put for the sector:
\* no sector is ever cached twice, also after the cache was cleared and refilled.
LookupNewest == \A i \in 0 .. Slots - 1 : cache[i].lba # EMPTY => cache[i].data = newest[cache[i].lba]

\* A sector put while its part is full replaces the one that was not used for the
\* longest time: what was used since stays.
RecentStays ==
    \A i \in 0 .. Slots - 1 :
          (cache[i].lba # EMPTY /\ cache'[i].lba \notin {cache[i].lba, EMPTY}) =>
              \A j \in Part(cache'[i].lba) : j # i => cache[j].lba # EMPTY /\ cache[j].stamp > cache[i].stamp

-----------------------------------------------------------------------------
(* Proofs, for every number of slots, sectors and uses.                     *)

\* A set of naturals that is not empty has a least element.
LEMMA LeastExists ==
  ASSUME NEW S, S \subseteq Nat, S # {}
  PROVE  \E x \in S : \A y \in S : x <= y
<1>1. PICK x \in S : \A y \in S : ~(<<y, x>> \in OpToRel(<, Nat))
  BY WFMin, NatLessThanWellFounded, Zenon
<1>2. ASSUME NEW y \in S PROVE x <= y
  <2>1. ~(y < x)
    BY <1>1 DEF OpToRel
  <2> QED
    BY <2>1
<1> QED
  BY <1>2

\* Min picks it.
LEMMA MinIsLeast ==
  ASSUME NEW S, S \subseteq Nat, S # {}
  PROVE  Min(S) \in S /\ \A y \in S : Min(S) <= y
  BY LeastExists DEF Min

-----------------------------------------------------------------------------
(* The inductive invariant.                                                 *)

LBA == 0 .. Sectors - 1
Slot == 0 .. Slots - 1
Entry == [lba : LBA \cup {EMPTY}, stamp : Nat, data : Data]

\* Slots, clock and history hold what they should.
TypeOK ==
    /\ cache \in [Slot -> Entry]
    /\ clock \in Nat
    /\ newest \in [LBA -> Data]

\* cache_put() keeps a sector in the slots of its kind.
InPart == \A i \in Slot : cache[i].lba # EMPTY => i \in Part(cache[i].lba)

\* The empty slots of a kind are behind the others: what makes the first that is empty
\* or the sector's own the right one.
EmptyLast ==
    \A l \in LBA : \A i, j \in Part(l) : i < j /\ cache[i].lba = EMPTY => cache[j].lba = EMPTY

\* No sector has two slots.
OneSlot == \A i, j \in Slot : i # j /\ cache[i].lba # EMPTY => cache[i].lba # cache[j].lba

\* No two slots were used at the same time.
StampsDiffer ==
    /\ \A i \in Slot : cache[i].lba # EMPTY => cache[i].stamp <= clock
    /\ \A i, j \in Slot :
          i # j /\ cache[i].lba # EMPTY /\ cache[j].lba # EMPTY => cache[i].stamp # cache[j].stamp

IInv == TypeOK /\ InPart /\ EmptyLast /\ OneSlot /\ StampsDiffer /\ LookupNewest

-----------------------------------------------------------------------------
(* What SlotFor() finds.                                                    *)

\* The slots of a kind are slots, and there are some.
LEMMA PartIsSlots ==
  ASSUME Shape, NEW l \in LBA
  PROVE  Part(l) \subseteq Slot /\ Part(l) \subseteq Nat /\ Part(l) # {}
  BY DEF Shape, Part, Slot, LBA

\* Kinds do not share slots: two sectors have all slots in common, or none.
LEMMA PartsApart ==
  ASSUME Shape, NEW l \in LBA, NEW m \in LBA, NEW i \in Part(l), i \in Part(m)
  PROVE  Part(l) = Part(m)
  BY DEF Shape, Part, LBA

\* SlotFor() yields a slot of the sector's kind: its own or an empty one with none such
\* before it, or else the one with the oldest stamp while all are in use by others.
LEMMA SlotForFinds ==
  ASSUME Shape, TypeOK, NEW l \in LBA
  PROVE  /\ SlotFor(l) \in Part(l)
         /\ \/ /\ cache[SlotFor(l)].lba \in {l, EMPTY}
               /\ \A j \in Part(l) : cache[j].lba \in {l, EMPTY} => SlotFor(l) <= j
            \/ /\ \A j \in Part(l) : cache[j].lba \notin {l, EMPTY}
               /\ \A j \in Part(l) : cache[SlotFor(l)].stamp <= cache[j].stamp
<1> DEFINE fits == {i \in Part(l) : cache[i].lba \in {l, EMPTY}}
           oldest == {i \in Part(l) : \A j \in Part(l) : cache[i].stamp <= cache[j].stamp}
           stamps == {cache[i].stamp : i \in Part(l)}
<1>1. Part(l) \subseteq Slot /\ Part(l) \subseteq Nat /\ Part(l) # {}
  BY PartIsSlots
<1>2. CASE fits # {}
  <2>1. fits \subseteq Nat
    BY <1>1
  <2>2. Min(fits) \in fits /\ \A y \in fits : Min(fits) <= y
    BY <1>2, <2>1, MinIsLeast
  <2>3. SlotFor(l) = Min(fits)
    BY <1>2 DEF SlotFor
  <2> QED
    BY <2>2, <2>3
<1>3. CASE fits = {}
  <2>1. stamps \subseteq Nat /\ stamps # {}
    BY <1>1 DEF TypeOK, Entry
  <2>2. PICK t \in stamps : \A u \in stamps : t <= u
    BY <2>1, LeastExists
  <2>3. oldest # {} /\ oldest \subseteq Nat
    BY <1>1, <2>2
  <2>4. Min(oldest) \in oldest
    BY <2>3, MinIsLeast
  <2>5. SlotFor(l) = Min(oldest)
    BY <1>3 DEF SlotFor
  <2> QED
    BY <1>3, <2>4, <2>5
<1> QED
  BY <1>2, <1>3

-----------------------------------------------------------------------------
(* Every step keeps the invariant.                                          *)

\* The empty cache rntp_client_connect() starts with.
LEMMA InitIInv == ASSUME Shape, Init PROVE IInv
<1> USE DEF Shape, LBA, Slot
<1>1. PICK d \in Data : /\ cache = [i \in Slot |-> [lba |-> EMPTY, stamp |-> 0, data |-> d]]
                        /\ newest = [s \in LBA |-> d]
  BY DEF Init
<1>2. \A i \in Slot : cache[i].lba = EMPTY
  BY <1>1
<1>3. TypeOK
  BY <1>1 DEF Init, TypeOK, Entry
<1>4. InPart /\ OneSlot /\ StampsDiffer /\ LookupNewest
  BY <1>2 DEF InPart, OneSlot, StampsDiffer, LookupNewest
<1>5. EmptyLast
  BY <1>2, PartIsSlots DEF EmptyLast
<1> QED
  BY <1>3, <1>4, <1>5 DEF IInv

\* cache_put(): the slot it takes is the only one that holds the sector.
LEMMA PutIInv == ASSUME Shape, IInv, NEW l \in LBA, NEW d \in Data, Put(l, d) PROVE IInv'
<1> DEFINE k == SlotFor(l)
           e == [lba |-> l, stamp |-> clock + 1, data |-> d]
<1> USE DEF IInv
<1>1. /\ k \in Part(l)
      /\ \/ /\ cache[k].lba \in {l, EMPTY}
            /\ \A j \in Part(l) : cache[j].lba \in {l, EMPTY} => k <= j
         \/ \A j \in Part(l) : cache[j].lba \notin {l, EMPTY}
  BY SlotForFinds
<1>2. k \in Slot /\ l # EMPTY /\ Part(l) \subseteq Nat /\ Part(l) \subseteq Slot
  BY <1>1, PartIsSlots DEF LBA, EMPTY
<1>3. cache' = [cache EXCEPT ![k] = e] /\ clock' = clock + 1 /\ newest' = [newest EXCEPT ![l] = d]
  BY DEF Put
<1>4. e \in Entry /\ e.lba = l /\ e.stamp = clock + 1 /\ e.data = d
  BY DEF Entry, TypeOK
<1> HIDE DEF k, e
<1>5. cache'[k] = e /\ \A i \in Slot : i # k => cache'[i] = cache[i]
  BY <1>2, <1>3 DEF TypeOK
<1>6. TypeOK'
  BY <1>2, <1>3, <1>4 DEF TypeOK
<1>7. \A i \in Slot : i # k => cache[i].lba # l
  <2> SUFFICES ASSUME NEW i \in Slot, i # k, cache[i].lba = l PROVE FALSE
    OBVIOUS
  <2>1. i \in Part(l)
    BY <1>2 DEF InPart
  <2>2. cache[k].lba \in {l, EMPTY} /\ k < i
    BY <1>1, <1>2, <2>1
  <2>3. cache[k].lba # l
    BY <1>2 DEF OneSlot
  <2>4. cache[k].lba = EMPTY
    BY <2>2, <2>3
  <2>5. cache[i].lba = EMPTY
    BY <1>1, <2>1, <2>2, <2>4 DEF EmptyLast
  <2> QED
    BY <1>2, <2>5
<1>8. InPart'
  BY <1>1, <1>4, <1>5 DEF InPart, Part
<1>9. OneSlot'
  BY <1>2, <1>4, <1>5, <1>7 DEF OneSlot
<1>10. StampsDiffer'
  <2>1. \A i \in Slot : cache[i].lba # EMPTY => cache[i].stamp < clock + 1 /\ cache[i].stamp <= clock + 1
    BY DEF StampsDiffer, TypeOK, Entry
  <2>2. clock + 1 \in Nat /\ clock + 1 <= clock + 1 /\ clock' = clock + 1
    BY <1>3 DEF TypeOK
  <2>3. \A i \in Slot : cache'[i].lba # EMPTY => cache'[i].stamp <= clock'
    BY <1>4, <1>5, <2>1, <2>2
  <2>4. ASSUME NEW i \in Slot, NEW j \in Slot, i # j, cache'[i].lba # EMPTY, cache'[j].lba # EMPTY
        PROVE  cache'[i].stamp # cache'[j].stamp
    <3>1. CASE i # k /\ j # k
      BY <1>5, <2>4, <3>1 DEF StampsDiffer
    <3>2. CASE i = k
      BY <1>4, <1>5, <2>1, <2>2, <2>4, <3>2
    <3>3. CASE j = k
      BY <1>4, <1>5, <2>1, <2>2, <2>4, <3>3
    <3> QED
      BY <3>1, <3>2, <3>3
  <2> QED
    BY <2>3, <2>4 DEF StampsDiffer
<1>11. EmptyLast'
  <2> SUFFICES ASSUME NEW m \in LBA, NEW i \in Part(m), NEW j \in Part(m),
                      i < j, cache'[i].lba = EMPTY
               PROVE  cache'[j].lba = EMPTY
    BY DEF EmptyLast, Part
  <2>1. i \in Slot /\ j \in Slot /\ i \in Nat /\ j \in Nat
    BY PartIsSlots
  <2>2. i # k
    BY <1>2, <1>4, <1>5
  <2>3. cache[i].lba = EMPTY /\ cache[j].lba = EMPTY
    BY <1>5, <2>1, <2>2 DEF EmptyLast
  <2>4. j # k
    <3> SUFFICES ASSUME j = k PROVE FALSE
      OBVIOUS
    <3>1. i \in Part(l)
      BY <1>1, PartsApart
    <3>2. k <= i
      BY <1>1, <2>3, <3>1
    <3> QED
      BY <1>2, <2>1, <3>2
  <2> QED
    BY <1>5, <2>1, <2>3, <2>4
<1>12. LookupNewest'
  <2> SUFFICES ASSUME NEW i \in Slot, cache'[i].lba # EMPTY
               PROVE  cache'[i].data = newest'[cache'[i].lba]
    BY DEF LookupNewest, Slot
  <2>1. CASE i = k
    BY <1>3, <1>4, <1>5, <2>1 DEF TypeOK
  <2>2. CASE i # k
    <3>1. cache'[i] = cache[i] /\ cache[i].lba # l /\ cache[i].lba \in LBA
      BY <1>5, <1>7, <2>2 DEF TypeOK, Entry
    <3>2. newest'[cache[i].lba] = newest[cache[i].lba]
      BY <1>3, <3>1 DEF TypeOK
    <3>3. cache[i].data = newest[cache[i].lba]
      BY <3>1 DEF LookupNewest, Slot
    <3> QED
      BY <3>1, <3>2, <3>3
  <2> QED
    BY <2>1, <2>2
<1> QED
  BY <1>6, <1>8, <1>9, <1>10, <1>11, <1>12

\* A hit in rntp_client_read() changes the stamp of a slot in use.
LEMMA HitIInv == ASSUME Shape, IInv, NEW i \in Slot, Hit(i) PROVE IInv'
<1> USE DEF IInv
<1>1. /\ cache' = [cache EXCEPT ![i].stamp = clock + 1]
      /\ clock' = clock + 1 /\ newest' = newest /\ cache[i].lba # EMPTY
  BY DEF Hit
<1>2. /\ \A j \in Slot : cache'[j].lba = cache[j].lba /\ cache'[j].data = cache[j].data
      /\ \A j \in Slot : j # i => cache'[j].stamp = cache[j].stamp
      /\ cache'[i].stamp = clock + 1
  BY <1>1 DEF TypeOK, Entry
<1>3. TypeOK'
  BY <1>1 DEF TypeOK, Entry
<1>4. InPart' /\ OneSlot'
  BY <1>2 DEF InPart, OneSlot, Part
<1>5. EmptyLast'
  BY <1>2, PartIsSlots DEF EmptyLast, Part
<1>6. StampsDiffer'
  BY <1>1, <1>2 DEF StampsDiffer, TypeOK, Entry
<1>7. LookupNewest'
  BY <1>1, <1>2 DEF LookupNewest, Slot
<1> QED
  BY <1>3, <1>4, <1>5, <1>6, <1>7

\* invalidate() leaves no slot in use.
LEMMA ClearIInv == ASSUME Shape, IInv, Clear PROVE IInv'
<1> USE DEF IInv
<1>1. cache' = [i \in Slot |-> [cache[i] EXCEPT !.lba = EMPTY]] /\ clock' = clock /\ newest' = newest
  BY DEF Clear, Slot
<1>2. \A i \in Slot : cache'[i].lba = EMPTY
  BY <1>1 DEF TypeOK, Entry
<1>3. TypeOK'
  BY <1>1 DEF TypeOK, Entry
<1>4. InPart' /\ OneSlot' /\ StampsDiffer' /\ LookupNewest'
  BY <1>2 DEF InPart, OneSlot, StampsDiffer, LookupNewest, Slot
<1>5. EmptyLast'
  BY <1>2, PartIsSlots DEF EmptyLast, Part
<1> QED
  BY <1>3, <1>4, <1>5

LEMMA StutterIInv == ASSUME IInv, UNCHANGED vars PROVE IInv'
  BY DEF IInv, vars, TypeOK, InPart, EmptyLast, OneSlot, StampsDiffer, LookupNewest, Part

LEMMA StepIInv == ASSUME Shape, IInv, [Next]_vars PROVE IInv'
  BY PutIInv, HitIInv, ClearIInv, StutterIInv DEF Next, LBA, Slot

\* The invariant holds in every state.
THEOREM Inductive == ASSUME Shape PROVE Spec => []IInv
<1>1. Init => IInv
  BY InitIInv
<1>2. IInv /\ [Next]_vars => IInv'
  BY StepIInv
<1> QED
  BY <1>1, <1>2, PTL DEF Spec

\* Whatever is put, looked up and cleared, the slot a lookup of rntp_client_read() finds
\* holds what cache_put() was last given for the sector.
THEOREM LookupIsNewest == ASSUME Shape PROVE Spec => []LookupNewest
<1>1. IInv => LookupNewest
  BY DEF IInv
<1> QED
  BY <1>1, Inductive, PTL

LEMMA StepKeepsRecent == ASSUME Shape, IInv, Next PROVE RecentStays
<1> SUFFICES ASSUME NEW i \in Slot, cache[i].lba # EMPTY, cache'[i].lba \notin {cache[i].lba, EMPTY},
                    NEW j \in Part(cache'[i].lba), j # i
             PROVE  cache[j].lba # EMPTY /\ cache[j].stamp > cache[i].stamp
  BY DEF RecentStays, Slot
<1> USE DEF IInv
<1>1. ASSUME NEW l \in LBA, NEW d \in Data, Put(l, d)
      PROVE  cache[j].lba # EMPTY /\ cache[j].stamp > cache[i].stamp
  <2>1. cache' = [cache EXCEPT ![SlotFor(l)] = [lba |-> l, stamp |-> clock + 1, data |-> d]]
    BY <1>1 DEF Put
  <2>2. i = SlotFor(l) /\ cache'[i].lba = l
    BY <2>1 DEF TypeOK
  <2>3. /\ i \in Part(l) /\ j \in Part(l) /\ j \in Slot
        /\ \A m \in Part(l) : cache[m].lba \notin {l, EMPTY}
        /\ \A m \in Part(l) : cache[i].stamp <= cache[m].stamp
    BY <2>2, SlotForFinds, PartIsSlots
  <2>4. cache[j].lba # EMPTY /\ cache[i].stamp <= cache[j].stamp /\ cache[i].stamp # cache[j].stamp
    BY <2>3 DEF StampsDiffer
  <2> QED
    BY <2>3, <2>4 DEF TypeOK, Entry
<1>2. ASSUME NEW m \in Slot, Hit(m) PROVE FALSE
  <2>1. cache' = [cache EXCEPT ![m].stamp = clock + 1]
    BY <1>2 DEF Hit
  <2> QED
    BY <2>1 DEF TypeOK, Entry
<1>3. ASSUME Clear PROVE FALSE
  <2>1. cache' = [n \in Slot |-> [cache[n] EXCEPT !.lba = EMPTY]]
    BY <1>3 DEF Clear, Slot
  <2> QED
    BY <2>1 DEF TypeOK, Entry
<1> QED
  BY <1>1, <1>2, <1>3 DEF Next, LBA, Slot

\* cache_put() replaces a sector only while all slots of its kind are in use, and then the
\* one that was not used for the longest time.
THEOREM OldestGoes == ASSUME Shape PROVE Spec => [][RecentStays]_vars
<1>1. IInv /\ [Next]_vars => [RecentStays]_vars
  BY StepKeepsRecent
<1> QED
  BY <1>1, Inductive, PTL DEF Spec
=============================================================================
