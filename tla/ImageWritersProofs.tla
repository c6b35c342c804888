-------------------------- MODULE ImageWritersProofs --------------------------
(***************************************************************************)
(* Proofs about MemorySpace and ImageWriters, for located tables of any    *)
(* sections, pages of any even size and windows of any bounds: the paged    *)
(* memory is the array of bytes its callers take it for.                   *)
(***************************************************************************)
EXTENDS ImageWriters, NumberLemmas

-----------------------------------------------------------------------------
\* The paged memory.

MemoryInv == MemoryTypeOK /\ PagesAreSeparate

LEMMA PageSizes ==
  /\ PageSize \in Nat \ {0} /\ Pages \in Nat \ {0} /\ ByteLimit \in Nat \ {0}
  /\ Space \in Nat \ {0} /\ 0 \in Byte
  /\ 0 \in PageIndexes /\ 0 \in Offsets
<1>1. PageSize \in Nat \ {0} /\ Pages \in Nat \ {0} /\ ByteLimit \in Nat \ {0}
  BY PageAssumption
<1>2. Pages * PageSize \in Nat \ {0}
  BY <1>1
<1> QED BY <1>1, <1>2 DEF Space, Byte, PageIndexes, Offsets

LEMMA MemoryInitInv == MemoryInit => MemoryInv
<1> SUFFICES ASSUME MemoryInit PROVE MemoryInv
  OBVIOUS
<1>1. ZeroPage \in [Offsets -> Byte]
  BY PageSizes DEF ZeroPage
<1>2. heap \in Seq([Offsets -> Byte]) /\ DOMAIN heap = {1} /\ heap[1] = ZeroPage
  BY <1>1 DEF MemoryInit
<1>3. data \in Seq(Byte)
  BY DEF MemoryInit
<1>4. page_table \in [PageIndexes -> [present : BOOLEAN, data : DOMAIN heap]]
  BY <1>2 DEF MemoryInit, page_zero
<1>5. MemoryTypeOK
  BY <1>2, <1>3, <1>4, PageSizes DEF MemoryTypeOK, MemoryInit
<1>6. PagesAreSeparate
  BY <1>2 DEF MemoryInit, PagesAreSeparate, page_zero
<1> QED BY <1>5, <1>6 DEF MemoryInv

LEMMA AddressParts ==
  ASSUME NEW a \in Nat
  PROVE  /\ PageOf(a) \in PageIndexes /\ OffsetOf(a) \in Offsets
         /\ a \div PageSize \in Nat
         /\ a = (a \div PageSize) * PageSize + OffsetOf(a)
<1>1. /\ a \div PageSize \in Nat /\ a % PageSize \in 0 .. PageSize - 1
      /\ a = (a \div PageSize) * PageSize + (a % PageSize)
  <2>1. PageSize \in Nat \ {0} /\ a \in Int
    BY PageSizes
  <2> QED BY <2>1, QuotientAndRest
<1> DEFINE q == a \div PageSize
<1>2. q % Pages \in 0 .. Pages - 1
  <2> HIDE DEF q
  <2> QED BY <1>1, PageSizes DEF q
<1> QED BY <1>1, <1>2 DEF PageOf, OffsetOf, PageIndexes, Offsets

LEMMA WriteInv ==
  ASSUME MemoryInv, NEW a \in Nat, NEW block \in Seq(Byte), Write(a, block)
  PROVE  MemoryInv'
BY AddressParts DEF Write, MemoryInv, MemoryTypeOK, PagesAreSeparate

\* The part of data that fits in the page of the cursor.
Part == SubSeq(data, 1, Smaller(Len(data), PageSize - byte_offset))
Rest == SubSeq(data, Smaller(Len(data), PageSize - byte_offset) + 1, Len(data))

LEMMA PartAndRest ==
  ASSUME MemoryTypeOK, data # <<>>
  PROVE  /\ Part \in Seq(Byte) /\ Rest \in Seq(Byte)
         /\ Len(Part) = Smaller(Len(data), PageSize - byte_offset)
         /\ Len(Part) \in 1 .. Len(data) /\ Len(Part) <= PageSize - byte_offset
         /\ Len(data) = Len(Part) + Len(Rest)
         /\ \A k \in 1 .. Len(Part) : Part[k] = data[k]
         /\ \A k \in 1 .. Len(Rest) : Rest[k] = data[Len(Part) + k]
         /\ Rest # <<>> => Len(Part) = PageSize - byte_offset
         /\ Len(Rest) \in Nat /\ Len(data) \in Nat
<1> DEFINE n == Smaller(Len(data), PageSize - byte_offset)
<1>1. /\ data \in Seq(Byte) /\ byte_offset \in Nat /\ byte_offset < PageSize
      /\ PageSize \in Nat
  BY PageSizes DEF MemoryTypeOK, Offsets
<1>2. Len(data) \in Nat /\ Len(data) > 0
  BY <1>1
<1>3. n \in 1 .. Len(data) /\ n <= PageSize - byte_offset
      /\ (n = Len(data) \/ n = PageSize - byte_offset)
      /\ n = Smaller(Len(data), PageSize - byte_offset)
  BY <1>1, <1>2 DEF Smaller
<1> HIDE DEF n
<1>4. /\ SubSeq(data, 1, n) \in Seq(Byte) /\ Len(SubSeq(data, 1, n)) = n
      /\ \A k \in 1 .. n : SubSeq(data, 1, n)[k] = data[k]
  <2>1. /\ 1 \in 1 .. Len(data) + 1 /\ n \in 0 .. Len(data)
        /\ n \in Nat /\ n - 1 + 1 = n
    BY <1>2, <1>3
  <2>2. \A k \in 1 .. n : data[k] \in Byte
    BY <1>1, <1>2, <1>3
  <2> QED BY <1>1, <2>1, <2>2
<1>5. /\ SubSeq(data, n + 1, Len(data)) \in Seq(Byte)
      /\ Len(SubSeq(data, n + 1, Len(data))) = Len(data) - n
      /\ \A k \in 1 .. Len(data) - n : SubSeq(data, n + 1, Len(data))[k] = data[n + k]
  BY <1>1, <1>2, <1>3
<1>6. Part = SubSeq(data, 1, n) /\ Rest = SubSeq(data, n + 1, Len(data))
  BY DEF Part, Rest, n
<1>7. Rest # <<>> => Len(Rest) # 0
  BY <1>5, <1>6
<1>8. Len(Part) = n /\ Len(Rest) = Len(data) - n /\ n \in Nat
  BY <1>3, <1>4, <1>5, <1>6
<1>9. Rest # <<>> => n = PageSize - byte_offset
  BY <1>3, <1>7, <1>8
<1>10. \A k \in 1 .. Len(Rest) : Rest[k] = data[Len(Part) + k]
  BY <1>5, <1>6, <1>8
<1>11. Len(data) = Len(Part) + Len(Rest)
  BY <1>2, <1>8
<1>12. Part \in Seq(Byte) /\ Rest \in Seq(Byte)
  BY <1>4, <1>5, <1>6
<1>13. \A k \in 1 .. Len(Part) : Part[k] = data[k]
  BY <1>4, <1>6, <1>8
<1>14. /\ Len(Part) = Smaller(Len(data), PageSize - byte_offset)
       /\ Len(Part) \in 1 .. Len(data) /\ Len(Part) <= PageSize - byte_offset
       /\ Rest # <<>> => Len(Part) = PageSize - byte_offset
  BY <1>3, <1>8, <1>9
<1>15. Len(Rest) \in Nat
  BY <1>2, <1>3, <1>8
<1> QED BY <1>2, <1>10, <1>11, <1>12, <1>13, <1>14, <1>15

\* One iteration of write: the page of the cursor changes where the part is
\* copied, and no other page does, whatever pages shared page_zero before.
LEMMA WriteChunkEffect ==
  ASSUME MemoryInv, WriteChunk
  PROVE  /\ MemoryInv'
         /\ \A q \in PageIndexes, o \in Offsets :
              Peek(q, o)' = IF /\ q = page_index
                               /\ byte_offset <= o /\ o < byte_offset + Len(Part)
                            THEN Part[o - byte_offset + 1]
                            ELSE Peek(q, o)
<1> DEFINE p == page_index
           b == BlockWritten
           n == Len(Part)
           new == Copied(Allocate[b], Part)
<1>1. /\ heap \in Seq([Offsets -> Byte])
      /\ page_table \in [PageIndexes -> [present : BOOLEAN, data : DOMAIN heap]]
      /\ p \in PageIndexes /\ byte_offset \in Offsets
      /\ data \in Seq(Byte)
  BY DEF MemoryInv, MemoryTypeOK
<1>2. /\ data # <<>>
      /\ page_table' = [page_table EXCEPT ![p] = [present |-> TRUE, data |-> b]]
      /\ heap' = [Allocate EXCEPT ![b] = new]
      /\ data' = Rest
      /\ page_index' = NextPage /\ byte_offset' = 0
  <2>1. SubSeq(data, 1, Smaller(Len(data), PageSize - byte_offset)) = Part
    BY DEF Part
  <2> QED BY <2>1 DEF WriteChunk, Rest
<1>3. /\ Part \in Seq(Byte) /\ Rest \in Seq(Byte)
      /\ n \in Nat /\ n <= PageSize - byte_offset
  BY <1>1, <1>2, PartAndRest DEF MemoryInv
<1>4. /\ heap[1] = ZeroPage
      /\ \A q, r \in PageIndexes :
           page_table[q].data = page_table[r].data /\ q # r => page_table[q].data = 1
      /\ \A q \in PageIndexes : page_table[q].present <=> page_table[q].data # 1
  BY DEF MemoryInv, PagesAreSeparate, page_zero
<1>5. ZeroPage \in [Offsets -> Byte]
  BY PageSizes DEF ZeroPage
<1>6. /\ Allocate \in Seq([Offsets -> Byte])
      /\ DOMAIN heap \subseteq DOMAIN Allocate
      /\ b \in DOMAIN Allocate /\ b # 1 /\ 1 \in DOMAIN heap
      /\ \A c \in DOMAIN heap : Allocate[c] = heap[c]
      /\ Allocate[b] = heap[page_table[p].data]
      /\ \A q \in PageIndexes : q # p => page_table[q].data # b
      /\ \A q \in PageIndexes : page_table[q].data \in DOMAIN heap
  <2>1. /\ page_table[p].data \in DOMAIN heap
        /\ \A q \in PageIndexes : page_table[q].data \in DOMAIN heap
    BY <1>1
  <2>2. DOMAIN heap = 1 .. Len(heap) /\ Len(heap) \in Nat /\ 1 \in DOMAIN heap
    BY <1>1, <2>1
  <2>3. CASE page_table[p].present
    BY <1>1, <1>4, <2>1, <2>2, <2>3 DEF Allocate, BlockWritten
  <2>4. CASE ~page_table[p].present
    <3>1. /\ Append(heap, ZeroPage) \in Seq([Offsets -> Byte])
          /\ DOMAIN Append(heap, ZeroPage) = 1 .. Len(heap) + 1
          /\ Append(heap, ZeroPage)[Len(heap) + 1] = ZeroPage
          /\ \A c \in 1 .. Len(heap) : Append(heap, ZeroPage)[c] = heap[c]
      BY <1>1, <1>5
    <3>2. b = Len(heap) + 1 /\ Allocate = Append(heap, ZeroPage)
      BY <2>4 DEF BlockWritten, Allocate
    <3>3. page_table[p].data = 1
      BY <1>1, <1>4, <2>4
    <3> QED BY <1>4, <2>1, <2>2, <3>1, <3>2, <3>3
  <2> QED BY <2>3, <2>4
<1> DEFINE old == Allocate[b]
<1>7. old \in [Offsets -> Byte]
  BY <1>6
<1>8. /\ new \in [Offsets -> Byte]
      /\ \A o \in Offsets : new[o] = IF byte_offset <= o /\ o < byte_offset + n
                                     THEN Part[o - byte_offset + 1]
                                     ELSE old[o]
  <2> HIDE DEF old, b
  <2>1. ASSUME NEW o \in Offsets, byte_offset <= o, o < byte_offset + n
        PROVE  Part[o - byte_offset + 1] \in Byte
    <3>1. o - byte_offset + 1 \in 1 .. n
      BY <1>1, <1>3, <2>1, PageSizes DEF Offsets
    <3> QED BY <1>3, <3>1
  <2> QED BY <1>7, <2>1 DEF Copied, old
<1> HIDE DEF new, b, p, n, old
<1>9. /\ heap' \in Seq([Offsets -> Byte])
      /\ DOMAIN heap' = DOMAIN Allocate
      /\ heap'[b] = new
      /\ \A c \in DOMAIN heap : c # b => heap'[c] = heap[c]
  BY <1>2, <1>6, <1>8
<1>10. /\ page_table' \in [PageIndexes -> [present : BOOLEAN, data : DOMAIN heap']]
       /\ page_table'[p] = [present |-> TRUE, data |-> b]
       /\ \A q \in PageIndexes : q # p => page_table'[q] = page_table[q]
  <2>1. \A q \in PageIndexes : /\ page_table[q].present \in BOOLEAN
                               /\ page_table[q].data \in DOMAIN heap'
                               /\ page_table[q] \in [present : BOOLEAN, data : DOMAIN heap']
    BY <1>1, <1>6, <1>9
  <2> QED BY <1>1, <1>2, <1>6, <1>9, <2>1
<1>11. NextPage \in PageIndexes
  <2>1. (p + 1) % Pages \in 0 .. Pages - 1
    BY <1>1, PageSizes DEF PageIndexes
  <2> QED BY <2>1 DEF NextPage, PageIndexes, p
<1>12. MemoryTypeOK'
  BY <1>2, <1>3, <1>9, <1>10, <1>11, PageSizes DEF MemoryTypeOK
<1>13. PagesAreSeparate'
  <2>1. heap'[1] = ZeroPage
    BY <1>4, <1>6, <1>9
  <2>2. ASSUME NEW q \in PageIndexes, NEW r \in PageIndexes, q # r,
               page_table'[q].data = page_table'[r].data
        PROVE  page_table'[q].data = 1
    <3>1. q # p /\ r # p
      BY <1>6, <1>10, <2>2
    <3> QED BY <1>4, <1>10, <2>2, <3>1
  <2>3. \A q \in PageIndexes : page_table'[q].present <=> page_table'[q].data # 1
    BY <1>4, <1>6, <1>10
  <2> QED BY <2>1, <2>2, <2>3 DEF PagesAreSeparate, page_zero
<1>14. ASSUME NEW q \in PageIndexes, NEW o \in Offsets
       PROVE  Peek(q, o)' = IF /\ q = p
                               /\ byte_offset <= o /\ o < byte_offset + n
                            THEN Part[o - byte_offset + 1]
                            ELSE Peek(q, o)
  <2>1. CASE q = p
    BY <1>6, <1>8, <1>9, <1>10, <2>1 DEF Peek, old
  <2>2. CASE q # p
    <3>1. page_table'[q].data = page_table[q].data /\ page_table[q].data # b
      BY <1>6, <1>10, <2>2
    <3>2. heap'[page_table[q].data] = heap[page_table[q].data]
      BY <1>6, <1>9, <3>1
    <3> QED BY <2>2, <3>1, <3>2 DEF Peek
  <2> QED BY <2>1, <2>2
<1> QED BY <1>12, <1>13, <1>14 DEF MemoryInv, p, n
-----------------------------------------------------------------------------
\* Cells of the flat memory and places in pages.

LEMMA CellOfPage ==
  ASSUME NEW p \in PageIndexes, NEW o \in Offsets
  PROVE  p * PageSize + o \in 0 .. Space - 1
<1>1. /\ PageSize \in Nat \ {0} /\ Pages \in Nat \ {0}
      /\ p \in 0 .. Pages - 1 /\ o \in 0 .. PageSize - 1
  BY PageSizes DEF PageIndexes, Offsets
<1> DEFINE above == Pages - 1 - p
<1>2. above \in Nat /\ Pages * PageSize = p * PageSize + above * PageSize + PageSize
  BY <1>1
<1>3. above * PageSize \in Nat /\ p * PageSize \in Nat
  BY <1>1, <1>2
<1> HIDE DEF above
<1> QED BY <1>1, <1>2, <1>3 DEF Space

LEMMA PagePlaces ==
  ASSUME NEW p \in PageIndexes, NEW o \in Offsets,
         NEW q \in PageIndexes, NEW r \in Offsets,
         p * PageSize + o = q * PageSize + r
  PROVE  p = q /\ o = r
<1>1. /\ PageSize \in Nat \ {0} /\ p \in Int /\ q \in Int
      /\ o \in 0 .. PageSize - 1 /\ r \in 0 .. PageSize - 1
  BY PageSizes DEF PageIndexes, Offsets
<1> QED BY <1>1, QuotientIsUnique

\* Addresses wrap at the end of the memory.
LEMMA WrapAddress ==
  ASSUME NEW a \in Nat
  PROVE  /\ PageOf(a) * PageSize + OffsetOf(a) = a % Space
         /\ a % Space \in 0 .. Space - 1
         /\ a < Space => a % Space = a
<1> DEFINE q == a \div PageSize
           p == PageOf(a)
           o == OffsetOf(a)
           u == q \div Pages
<1>1. /\ PageSize \in Nat \ {0} /\ Pages \in Nat \ {0} /\ Space \in Nat \ {0}
  BY PageSizes
<1>2. p \in PageIndexes /\ o \in Offsets /\ q \in Nat /\ a = q * PageSize + o
  BY AddressParts
<1>3. p * PageSize + o \in 0 .. Space - 1
  BY <1>2, CellOfPage
<1>4. u \in Int /\ q = u * Pages + p
  <2> HIDE DEF q
  <2> QED BY <1>1, <1>2, QuotientAndRest DEF PageOf, q
<1>5. p \in Nat /\ o \in Nat
  BY <1>2, PageSizes DEF PageIndexes, Offsets
<1> HIDE DEF q, p, o, u
<1>6. a = u * (Pages * PageSize) + (p * PageSize + o)
  BY <1>1, <1>2, <1>4, <1>5
<1>7. a % Space = p * PageSize + o
  <2> DEFINE r == p * PageSize + o
  <2>1. a = u * Space + r /\ r \in 0 .. Space - 1
    BY <1>3, <1>6 DEF Space
  <2> HIDE DEF r
  <2>2. (u * Space + r) % Space = r
    BY <1>1, <1>4, <2>1, DivMod
  <2> QED BY <2>1, <2>2 DEF r
<1>8. a < Space => a % Space = a
  <2> SUFFICES ASSUME a < Space PROVE a % Space = a
    OBVIOUS
  <2>1. a = 0 * Space + a /\ a \in 0 .. Space - 1
    BY <1>1
  <2>2. (0 * Space + a) % Space = a
    BY <1>1, <2>1, DivMod
  <2> QED BY <1>1, <2>1, <2>2
<1> QED BY <1>3, <1>7, <1>8 DEF p, o

\* Read8 sees the memory through Seen, whatever address it is given.
LEMMA ReadsAreCells ==
  ASSUME NEW a \in Nat
  PROVE  Read8(a) = Seen[a % Space]
<1> DEFINE c == a % Space
<1>1. /\ PageOf(a) * PageSize + OffsetOf(a) = c
      /\ c \in 0 .. Space - 1
      /\ c < Space => c % Space = c
  BY WrapAddress, PageSizes
<1> HIDE DEF c
<1>2. c \in Nat
  BY <1>1, PageSizes
<1>3. PageOf(c) * PageSize + OffsetOf(c) = c
  <2>1. c < Space
    BY <1>1, PageSizes
  <2>2. PageOf(c) * PageSize + OffsetOf(c) = c % Space /\ (c < Space => c % Space = c)
    BY <1>2, WrapAddress
  <2> QED BY <2>1, <2>2
<1>4. /\ PageOf(a) \in PageIndexes /\ OffsetOf(a) \in Offsets
      /\ PageOf(c) \in PageIndexes /\ OffsetOf(c) \in Offsets
  BY <1>2, AddressParts
<1>5. PageOf(a) = PageOf(c) /\ OffsetOf(a) = OffsetOf(c)
  BY <1>1, <1>3, <1>4, PagePlaces
<1> QED BY <1>1, <1>5 DEF Seen, Read8, c

-----------------------------------------------------------------------------
\* Overlays of a block on the flat memory.

Over(old, x, block) == Plain!Overlay(old, x, block)

LEMMA OverlayFunction ==
  ASSUME NEW old, NEW x, NEW block
  PROVE  /\ Over(old, x, block) = [a \in 0 .. Space - 1 |-> Over(old, x, block)[a]]
         /\ Flat!Overlay(old, x, block) = Over(old, x, block)
BY DEF Over, Plain!Overlay, Plain!Lands, Flat!Overlay, Flat!Lands

\* Element k of a block written at x lands in cell a.
Hits(x, k, a) == (x + k - 1) % Space = a

LEMMA OverlayIsHits ==
  ASSUME NEW old, NEW x, NEW block, NEW a \in 0 .. Space - 1
  PROVE  Over(old, x, block)[a] =
           IF \E k \in DOMAIN block : Hits(x, k, a)
           THEN block[CHOOSE k \in DOMAIN block :
                        /\ Hits(x, k, a)
                        /\ \A j \in DOMAIN block : Hits(x, j, a) => j <= k]
           ELSE old[a]
BY DEF Over, Plain!Overlay, Plain!Lands, Hits

\* A cell holds the byte of the last element that lands in it.
LEMMA OverlayLast ==
  ASSUME NEW old, NEW x, NEW block \in Seq(Byte), NEW a \in 0 .. Space - 1,
         NEW k \in DOMAIN block, Hits(x, k, a),
         \A j \in DOMAIN block : Hits(x, j, a) => j <= k
  PROVE  Over(old, x, block)[a] = block[k]
<1> DEFINE P(j) == /\ Hits(x, j, a)
                   /\ \A m \in DOMAIN block : Hits(x, m, a) => m <= j
           c == CHOOSE j \in DOMAIN block : P(j)
<1>1. P(k)
  OBVIOUS
<1>2. c \in DOMAIN block /\ P(c)
  BY <1>1
<1>3. c = k
  <2>1. c <= k /\ k <= c
    BY <1>1, <1>2
  <2>2. c \in Nat /\ k \in Nat
    BY <1>2
  <2> HIDE DEF c
  <2> QED BY <2>1, <2>2
<1>4. Over(old, x, block)[a] = block[c]
  BY OverlayIsHits
<1> QED BY <1>3, <1>4

LEMMA OverlayNone ==
  ASSUME NEW old, NEW x, NEW block, NEW a \in 0 .. Space - 1,
         \A j \in DOMAIN block : ~Hits(x, j, a)
  PROVE  Over(old, x, block)[a] = old[a]
BY OverlayIsHits

LEMMA LastElement ==
  ASSUME NEW x, NEW block \in Seq(Byte), NEW a,
         NEW k \in DOMAIN block, Hits(x, k, a)
  PROVE  \E m \in DOMAIN block :
           /\ Hits(x, m, a)
           /\ \A j \in DOMAIN block : Hits(x, j, a) => j <= m
<1> DEFINE T == {j \in DOMAIN block : Hits(x, j, a)}
           b == Len(block)
<1>1. b \in Nat /\ T \subseteq 0 .. b /\ T # {}
  OBVIOUS
<1>2. PICK m \in T : \A n \in T : n <= m
  <2> HIDE DEF T, b
  <2> QED BY <1>1, GreatestNumber
<1> QED BY <1>2

\* c and d are the two parts of b.
IsSplit(b, c, d) ==
  /\ Len(b) = Len(c) + Len(d)
  /\ \A k \in 1 .. Len(c) : c[k] = b[k]
  /\ \A k \in 1 .. Len(d) : d[k] = b[Len(c) + k]

\* m elements written at y land where they do after n elements written at x.
GoesOn(x, n, y, m) ==
  \A k \in 1 .. m, a \in 0 .. Space - 1 : Hits(y, k, a) <=> Hits(x, n + k, a)

\* Writing a block in two parts.
LEMMA OverlaySplit ==
  ASSUME NEW old, NEW x, NEW y,
         NEW b \in Seq(Byte), NEW c \in Seq(Byte), NEW d \in Seq(Byte),
         IsSplit(b, c, d), GoesOn(x, Len(c), y, Len(d))
  PROVE  Over(Over(old, x, c), y, d) = Over(old, x, b)
<1>0. \A a \in 0 .. Space - 1 :
        /\ \A k \in DOMAIN b :
             Hits(x, k, a) /\ (\A j \in DOMAIN b : Hits(x, j, a) => j <= k) =>
               Over(old, x, b)[a] = b[k]
        /\ (\A j \in DOMAIN b : ~Hits(x, j, a)) => Over(old, x, b)[a] = old[a]
  BY OverlayLast, OverlayNone
<1> DEFINE n == Len(c)
<1>1. /\ n \in Nat /\ Len(d) \in Nat /\ Len(b) = n + Len(d)
      /\ DOMAIN b = 1 .. n + Len(d) /\ DOMAIN c = 1 .. n /\ DOMAIN d = 1 .. Len(d)
      /\ \A k \in 1 .. n : c[k] = b[k]
      /\ \A k \in 1 .. Len(d) : d[k] = b[n + k]
      /\ \A k \in 1 .. Len(d), a \in 0 .. Space - 1 : Hits(y, k, a) <=> Hits(x, n + k, a)
  BY DEF IsSplit, GoesOn
<1>2. ASSUME NEW a \in 0 .. Space - 1
      PROVE  Over(Over(old, x, c), y, d)[a] = Over(old, x, b)[a]
  <2>1. CASE \E k \in DOMAIN d : Hits(y, k, a)
    <3>1. PICK k \in DOMAIN d : /\ Hits(y, k, a)
                                /\ \A j \in DOMAIN d : Hits(y, j, a) => j <= k
      BY <2>1, LastElement
    <3>2. Over(Over(old, x, c), y, d)[a] = d[k]
      BY <3>1, OverlayLast
    <3> DEFINE m == n + k
    <3>3. m \in DOMAIN b /\ Hits(x, m, a) /\ d[k] = b[m]
      BY <1>1, <3>1
    <3>4. ASSUME NEW j \in DOMAIN b, Hits(x, j, a)
          PROVE  j <= m
      <4>1. CASE j <= n
        BY <1>1, <4>1
      <4>2. CASE j > n
        <5> DEFINE h == j - n
        <5>1. h \in DOMAIN d /\ n + h = j
          BY <1>1, <4>2
        <5>2. Hits(y, h, a)
          BY <1>1, <3>4, <5>1
        <5>3. h <= k
          BY <3>1, <5>1, <5>2
        <5> QED BY <1>1, <5>1, <5>3
      <4> QED BY <1>1, <4>1, <4>2
    <3>5. Over(old, x, b)[a] = b[m]
      <4> HIDE DEF m
      <4> QED BY <1>0, <3>3, <3>4
    <3> QED BY <3>2, <3>3, <3>5
  <2>2. CASE \A k \in DOMAIN d : ~Hits(y, k, a)
    <3>1. Over(Over(old, x, c), y, d)[a] = Over(old, x, c)[a]
      BY <2>2, OverlayNone
    <3>2. ASSUME NEW j \in DOMAIN b, Hits(x, j, a)
          PROVE  j \in DOMAIN c
      <4>1. CASE j <= n
        BY <1>1, <4>1
      <4>2. CASE j > n
        <5> DEFINE h == j - n
        <5>1. h \in DOMAIN d /\ n + h = j
          BY <1>1, <4>2
        <5>2. Hits(y, h, a)
          BY <1>1, <3>2, <5>1
        <5> QED BY <2>2, <5>1, <5>2
      <4> QED BY <1>1, <4>1, <4>2
    <3>3. CASE \E k \in DOMAIN c : Hits(x, k, a)
      <4>1. PICK k \in DOMAIN c : /\ Hits(x, k, a)
                                  /\ \A j \in DOMAIN c : Hits(x, j, a) => j <= k
        BY <3>3, LastElement
      <4>2. Over(old, x, c)[a] = c[k]
        BY <4>1, OverlayLast
      <4>3. k \in DOMAIN b /\ c[k] = b[k]
        BY <1>1
      <4>4. Over(old, x, b)[a] = b[k]
        BY <1>0, <3>2, <4>1, <4>3
      <4> QED BY <3>1, <4>2, <4>3, <4>4
    <3>4. CASE \A k \in DOMAIN c : ~Hits(x, k, a)
      <4>1. Over(old, x, c)[a] = old[a]
        BY <3>4, OverlayNone
      <4>2. Over(old, x, b)[a] = old[a]
        BY <1>0, <3>2, <3>4
      <4> QED BY <3>1, <4>1, <4>2
    <3> QED BY <3>3, <3>4
  <2> QED BY <2>1, <2>2
<1>3. /\ Over(Over(old, x, c), y, d)
           = [a \in 0 .. Space - 1 |-> Over(Over(old, x, c), y, d)[a]]
      /\ Over(old, x, b) = [a \in 0 .. Space - 1 |-> Over(old, x, b)[a]]
  BY OverlayFunction
<1> QED BY <1>2, <1>3

LEMMA OverlayEmpty ==
  ASSUME NEW old, NEW x
  PROVE  Over(old, x, <<>>) = [a \in 0 .. Space - 1 |-> old[a]]
BY DEF Over, Plain!Overlay

-----------------------------------------------------------------------------
\* A step of the copy loop is invisible in the flat memory.

\* Where write copies next, as an address.
Place == page_index * PageSize + byte_offset

LEMMA CellsAreOverlays ==
  /\ Cells = Over(Seen, Place, data)
  /\ Cells' = Over(Seen', Place', data')
BY DEF Cells, Over, Place, Plain!Overlay, Plain!Lands

LEMMA PartHits ==
  ASSUME NEW p \in PageIndexes, NEW b \in Offsets, NEW j \in Nat,
         b + j - 1 \in Offsets, NEW a \in 0 .. Space - 1
  PROVE  Hits(p * PageSize + b, j, a) <=> PageOf(a) = p /\ OffsetOf(a) = b + j - 1
<1> DEFINE o == b + j - 1
           c == p * PageSize + o
<1>1. /\ p \in Int /\ b \in Int /\ o \in Offsets /\ PageSize \in Nat \ {0}
      /\ a \in Nat /\ a < Space /\ Space \in Nat \ {0}
  BY PageSizes DEF PageIndexes, Offsets
<1>2. c \in 0 .. Space - 1
  BY <1>1, CellOfPage
<1>3. (p * PageSize + b) + j - 1 = c
  <2>1. p * PageSize \in Int
    BY <1>1
  <2> QED BY <1>1, <2>1
<1>4. c % Space = c
  <2>1. c \in Nat /\ c < Space
    BY <1>1, <1>2
  <2> HIDE DEF c
  <2> QED BY <2>1, WrapAddress
<1>5. Hits(p * PageSize + b, j, a) <=> a = p * PageSize + o
  BY <1>3, <1>4 DEF Hits
<1>6. a = PageOf(a) * PageSize + OffsetOf(a)
  BY <1>1, WrapAddress
<1>7. PageOf(a) \in PageIndexes /\ OffsetOf(a) \in Offsets
  BY <1>1, AddressParts
<1> HIDE DEF o, c
<1>8. a = p * PageSize + o => PageOf(a) = p /\ OffsetOf(a) = o
  BY <1>1, <1>6, <1>7, PagePlaces
<1>9. PageOf(a) = p /\ OffsetOf(a) = o => a = p * PageSize + o
  BY <1>6
<1> QED BY <1>5, <1>8, <1>9 DEF o

LEMMA ChunkIsOverlay ==
  ASSUME MemoryInv, WriteChunk
  PROVE  Seen' = Over(Seen, Place, Part)
<1>1. /\ page_index \in PageIndexes /\ byte_offset \in Offsets
      /\ data # <<>> /\ MemoryTypeOK
  BY DEF MemoryInv, MemoryTypeOK, WriteChunk
<1>2. /\ Part \in Seq(Byte) /\ Len(Part) \in Nat /\ Len(Part) <= PageSize - byte_offset
      /\ DOMAIN Part = 1 .. Len(Part)
  BY <1>1, PartAndRest
<1>3. ASSUME NEW a \in 0 .. Space - 1
      PROVE  Seen'[a] = Over(Seen, Place, Part)[a]
  <2> DEFINE q == PageOf(a)
             o == OffsetOf(a)
  <2>1. a \in Nat /\ byte_offset \in Nat /\ PageSize \in Nat
    BY <1>1, PageSizes DEF Offsets
  <2>2. q \in PageIndexes /\ o \in Offsets /\ o \in Nat
    <3>1. q \in PageIndexes /\ o \in Offsets
      BY <2>1, AddressParts
    <3> HIDE DEF o
    <3> QED BY <3>1, PageSizes DEF Offsets
  <2>3. Seen[a] = Peek(q, o) /\ Seen'[a] = Peek(q, o)'
    BY DEF Seen, Read8, Peek
  <2>4. Peek(q, o)' = IF /\ q = page_index
                         /\ byte_offset <= o /\ o < byte_offset + Len(Part)
                      THEN Part[o - byte_offset + 1]
                      ELSE Peek(q, o)
    BY <2>2, WriteChunkEffect
  <2>5. ASSUME NEW j \in DOMAIN Part
        PROVE  Hits(Place, j, a) <=> q = page_index /\ o = byte_offset + j - 1
    <3>1. j \in Nat /\ byte_offset + j - 1 \in Offsets
      BY <1>2, <2>1 DEF Offsets
    <3> QED BY <1>1, <3>1, PartHits DEF Place
  <2> HIDE DEF q, o
  <2>6. CASE q = page_index /\ byte_offset <= o /\ o < byte_offset + Len(Part)
    <3> DEFINE k == o - byte_offset + 1
    <3>1. k \in DOMAIN Part /\ o = byte_offset + k - 1
      BY <1>2, <2>1, <2>2, <2>6
    <3>2. Hits(Place, k, a)
      BY <2>5, <2>6, <3>1
    <3>3. \A j \in DOMAIN Part : Hits(Place, j, a) => j <= k
      BY <1>2, <2>1, <2>2, <2>5, <3>1
    <3>4. Over(Seen, Place, Part)[a] = Part[k]
      <4> HIDE DEF k
      <4> QED BY <1>2, <3>1, <3>2, <3>3, OverlayLast
    <3> QED BY <2>3, <2>4, <2>6, <3>4
  <2>7. CASE ~(q = page_index /\ byte_offset <= o /\ o < byte_offset + Len(Part))
    <3>1. \A j \in DOMAIN Part : ~Hits(Place, j, a)
      BY <1>2, <2>1, <2>2, <2>5, <2>7
    <3>2. Over(Seen, Place, Part)[a] = Seen[a]
      BY <3>1, OverlayNone
    <3> QED BY <2>3, <2>4, <2>7, <3>2
  <2> QED BY <2>6, <2>7
<1>4. Seen' = [a \in 0 .. Space - 1 |-> Seen'[a]]
  BY DEF Seen
<1>5. Over(Seen, Place, Part) = [a \in 0 .. Space - 1 |-> Over(Seen, Place, Part)[a]]
  BY OverlayFunction
<1> QED BY <1>3, <1>4, <1>5

LEMMA NextPageGoesOn ==
  ASSUME NEW p \in PageIndexes, NEW b \in Offsets, NEW m
  PROVE  GoesOn(p * PageSize + b, PageSize - b, ((p + 1) % Pages) * PageSize, m)
<1> DEFINE x == p * PageSize + b
           e == (p + 1) * PageSize
           y == ((p + 1) % Pages) * PageSize
<1>1. /\ p \in Nat /\ b \in Nat /\ PageSize \in Nat \ {0} /\ Pages \in Nat \ {0}
      /\ Space \in Nat \ {0}
  BY PageSizes DEF PageIndexes, Offsets
<1>2. e \in Nat /\ x + (PageSize - b) = e
  BY <1>1
<1>3. e \div PageSize = p + 1 /\ e % PageSize = 0
  <2>1. e = (p + 1) * PageSize + 0 /\ 0 \in 0 .. PageSize - 1 /\ p + 1 \in Int
    BY <1>1
  <2>2. /\ ((p + 1) * PageSize + 0) \div PageSize = p + 1
        /\ ((p + 1) * PageSize + 0) % PageSize = 0
    BY <1>1, <2>1, DivMod
  <2> QED BY <2>1, <2>2
<1>4. y = e % Space
  <2>1. PageOf(e) * PageSize + OffsetOf(e) = e % Space
    BY <1>2, WrapAddress
  <2>2. PageOf(e) = (p + 1) % Pages /\ OffsetOf(e) = 0
    BY <1>3 DEF PageOf, OffsetOf
  <2>3. y \in Int
    BY <1>1
  <2> QED BY <2>1, <2>2, <2>3
<1>5. x \in Int
  BY <1>1
<1> HIDE DEF x, e, y
<1>6. ASSUME NEW k \in 1 .. m, NEW a \in 0 .. Space - 1
      PROVE  Hits(y, k, a) <=> Hits(x, (PageSize - b) + k, a)
  <2> DEFINE z == k - 1
  <2>1. k \in Int /\ z \in Int
    OBVIOUS
  <2>2. x + ((PageSize - b) + k) - 1 = e + z
    BY <1>1, <1>2, <1>5, <2>1
  <2>3. ((e % Space) + z) % Space = (e + z) % Space
    <3>1. e \in Int
      BY <1>2
    <3> HIDE DEF z
    <3> QED BY <1>1, <2>1, <3>1, ModAdd, Zenon
  <2>4. e % Space \in Int
    BY <1>1, <1>2
  <2>5. y + k - 1 = (e % Space) + z
    BY <1>4, <2>1, <2>4
  <2> QED BY <2>2, <2>3, <2>5 DEF Hits
<1> QED BY <1>6 DEF GoesOn, x, y

\* What copies a part in a page was in the flat memory from the call of write.
LEMMA ChunkLeavesCells ==
  ASSUME MemoryInv, WriteChunk
  PROVE  Cells' = Cells
<1>1. /\ page_index \in PageIndexes /\ byte_offset \in Offsets
      /\ data # <<>> /\ data \in Seq(Byte) /\ MemoryTypeOK
  BY DEF MemoryInv, MemoryTypeOK, WriteChunk
<1>2. data' = Rest /\ page_index' = NextPage /\ byte_offset' = 0
  BY DEF WriteChunk, Rest
<1>3. Cells' = Over(Over(Seen, Place, Part), NextPage * PageSize, Rest)
  <2>1. Place' = NextPage * PageSize
    <3>1. NextPage * PageSize \in Int
      BY <1>1, PageSizes DEF NextPage, PageIndexes
    <3> QED BY <1>2, <3>1 DEF Place
  <2> QED BY <1>2, <2>1, CellsAreOverlays, ChunkIsOverlay
<1>4. IsSplit(data, Part, Rest) /\ Part \in Seq(Byte) /\ Rest \in Seq(Byte)
  BY <1>1, PartAndRest DEF IsSplit
<1>5. GoesOn(Place, Len(Part), NextPage * PageSize, Len(Rest))
  <2>1. CASE Rest = <<>>
    BY <2>1 DEF GoesOn
  <2>2. CASE Rest # <<>>
    <3>1. Len(Part) = PageSize - byte_offset
      BY <1>1, <2>2, PartAndRest
    <3> QED BY <1>1, <3>1, NextPageGoesOn DEF Place, NextPage
  <2> QED BY <2>1, <2>2
<1>6. Over(Over(Seen, Place, Part), NextPage * PageSize, Rest) = Over(Seen, Place, data)
  BY <1>1, <1>4, <1>5, OverlaySplit
<1> QED BY <1>3, <1>6, CellsAreOverlays

-----------------------------------------------------------------------------
\* The steps of the program.

\* The writers keep a table of sections, of which i is a place or one past it.
LoadInv == MemoryInv /\ sections \in Tables /\ i \in Nat \ {0}

LEMMA SectionTypes ==
  ASSUME sections \in Tables, NEW s \in DOMAIN sections
  PROVE  /\ sections[s].base \in Nat /\ sections[s].contents \in Seq(Byte)
         /\ sections[s].loadable \in BOOLEAN /\ Len(sections[s].contents) \in Nat
<1> DEFINE R == [base : Nat, contents : Seq(Byte), loadable : BOOLEAN]
<1>1. sections \in Seq(R)
  BY TablesAssumption
<1>2. sections[s] \in R
  <2> HIDE DEF R
  <2> QED BY <1>1
<1> QED BY <1>2

\* A writer step reads the memory, and leaves it as it is.
LEMMA ReadLeavesMemory ==
  ASSUME Read /\ UNCHANGED memoryVars, LoadInv
  PROVE  LoadInv'
<1>1. UNCHANGED memoryVars /\ sections' = sections
  BY DEF Read, OpenFile, Finish, RawByte, RawEnd, SingleToken, StartRun, ExtendRun,
         EndRun, LogisimEnd, SkipSection, EnterSection, WriteRecord, LeaveSection,
         HexEnd, CloseFile, inputs
<1>2. i' = i \/ i' = i + 1 \/ i' = 1
  BY DEF Read, OpenFile, Finish, RawByte, RawEnd, SingleToken, StartRun, ExtendRun,
         EndRun, LogisimEnd, SkipSection, EnterSection, WriteRecord, LeaveSection,
         HexEnd, CloseFile, cursor
<1>3. MemoryInv'
  BY <1>1 DEF LoadInv, MemoryInv, MemoryTypeOK, PagesAreSeparate, memoryVars
<1> QED BY <1>1, <1>2, <1>3 DEF LoadInv

LEMMA LoadInitInv == Init => LoadInv
BY MemoryInitInv DEF Init, LoadInv

LEMMA LoadNextInv == LoadInv /\ [Next]_vars => LoadInv'
<1> SUFFICES ASSUME LoadInv, [Next]_vars PROVE LoadInv'
  OBVIOUS
<1> USE DEF LoadInv
<1>1. CASE LoadSection
  <2>1. i \in DOMAIN sections /\ i' = i + 1 /\ sections' = sections
    BY <1>1, TablesAssumption DEF LoadSection, inputs
  <2>2. MemoryInv'
    <3>1. CASE sections[i].loadable
      <4>1. Write(sections[i].base, sections[i].contents)
        BY <1>1, <3>1 DEF LoadSection
      <4> QED BY <2>1, <4>1, SectionTypes, WriteInv
    <3>2. CASE ~sections[i].loadable
      BY <1>1, <3>2 DEF LoadSection, MemoryInv, MemoryTypeOK, PagesAreSeparate, memoryVars
    <3> QED BY <3>1, <3>2
  <2> QED BY <2>1, <2>2
<1>2. CASE LoadChunk
  BY <1>2, WriteChunkEffect DEF LoadChunk, writerVars, inputs, cursor
<1>3. CASE EndOfLoad
  BY <1>3 DEF EndOfLoad, memoryVars, inputs, cursor, MemoryInv, MemoryTypeOK, PagesAreSeparate
<1>4. CASE Read /\ UNCHANGED memoryVars
  BY <1>4, ReadLeavesMemory
<1>5. CASE UNCHANGED vars
  BY <1>5 DEF vars, writerVars, memoryVars, inputs, cursor, MemoryInv, MemoryTypeOK, PagesAreSeparate
<1> QED BY <1>1, <1>2, <1>3, <1>4, <1>5 DEF Next

\* No page shares its block with another once one of them was written, and the
\* block of the pages never written stays zero (memory_space.cpp 88-106).
THEOREM PagesStaySeparate == Spec => []PagesAreSeparate
<1>1. LoadInv => PagesAreSeparate
  BY DEF LoadInv, MemoryInv
<1> QED BY <1>1, LoadInitInv, LoadNextInv, PTL DEF Spec

-----------------------------------------------------------------------------
\* The paged memory implements the flat one.

LEMMA CellsWhenIdle ==
  ASSUME data = <<>>
  PROVE  Cells = Seen
<1>1. Cells = [a \in 0 .. Space - 1 |-> Seen[a]]
  BY CellsAreOverlays, OverlayEmpty
<1>2. [a \in 0 .. Space - 1 |-> Seen[a]] = Seen
  BY DEF Seen
<1> QED BY <1>1, <1>2

LEMMA CellsAtFirst == MemoryInit => Flat!Init
<1> SUFFICES ASSUME MemoryInit PROVE Cells = [a \in 0 .. Space - 1 |-> 0]
  BY DEF Flat!Init
<1>1. ASSUME NEW a \in 0 .. Space - 1
      PROVE  Read8(a) = 0
  <2>1. a \in Nat
    BY PageSizes
  <2>2. PageOf(a) \in PageIndexes /\ OffsetOf(a) \in Offsets
    BY <2>1, AddressParts
  <2> QED BY <2>2 DEF Read8, Peek, MemoryInit, ZeroPage, page_zero
<1>2. Seen = [a \in 0 .. Space - 1 |-> 0]
  BY <1>1 DEF Seen
<1> QED BY <1>2, CellsWhenIdle DEF MemoryInit

\* A call of write puts the whole block in the flat memory.
LEMMA WriteIsFlatWrite ==
  ASSUME NEW a \in Nat, NEW block \in Seq(Byte), Write(a, block)
  PROVE  Flat!Write(a, block)
<1>1. data = <<>> /\ data' = block /\ Place' = a % Space
  BY WrapAddress DEF Write, Place
<1>2. Seen' = Seen
  BY DEF Write, Seen, Read8, Peek
<1>3. Cells' = Over(Seen, a % Space, block)
  BY <1>1, <1>2, CellsAreOverlays
<1>4. Over(Seen, a, <<>>) = Seen
  BY OverlayEmpty DEF Seen
<1>5. IsSplit(block, <<>>, block) /\ <<>> \in Seq(Byte)
  BY DEF IsSplit
<1>6. GoesOn(a, 0, a % Space, Len(block))
  <2> SUFFICES ASSUME NEW k \in 1 .. Len(block), NEW c \in 0 .. Space - 1
               PROVE  Hits(a % Space, k, c) <=> Hits(a, 0 + k, c)
    BY DEF GoesOn
  <2> DEFINE z == k - 1
  <2>1. z \in Int /\ k \in Int /\ a \in Int /\ Space \in Nat \ {0}
    BY PageSizes
  <2>2. ((a % Space) + z) % Space = (a + z) % Space
    <3> HIDE DEF z
    <3> QED BY <2>1, ModAdd, Zenon
  <2>3. a % Space \in Int
    BY <2>1
  <2>4. (a % Space) + k - 1 = (a % Space) + z /\ a + (0 + k) - 1 = a + z
    BY <2>1, <2>3
  <2> QED BY <2>2, <2>4 DEF Hits
<1>7. Over(Over(Seen, a, <<>>), a % Space, block) = Over(Seen, a, block)
  <2>1. Len(<<>>) = 0
    OBVIOUS
  <2>2. GoesOn(a, Len(<<>>), a % Space, Len(block))
    BY <1>6, <2>1
  <2> DEFINE e == <<>>
  <2>3. e \in Seq(Byte) /\ IsSplit(block, e, block) /\ GoesOn(a, Len(e), a % Space, Len(block))
    BY <1>5, <2>2
  <2> HIDE DEF e
  <2>4. Over(Over(Seen, a, e), a % Space, block) = Over(Seen, a, block)
    BY <2>3, OverlaySplit
  <2> QED BY <2>4 DEF e
<1>8. Flat!Overlay(Cells, a, block) = Over(Seen, a, block)
  BY <1>1, CellsWhenIdle, OverlayFunction
<1> QED BY <1>3, <1>4, <1>7, <1>8 DEF Flat!Write

LEMMA StepsOfCells ==
  LoadInv /\ [Next]_vars =>
    [\E s \in DOMAIN sections : Flat!Write(sections[s].base, sections[s].contents)]_Cells
<1> SUFFICES ASSUME LoadInv, [Next]_vars
             PROVE  \/ \E s \in DOMAIN sections :
                         Flat!Write(sections[s].base, sections[s].contents)
                    \/ Cells' = Cells
  OBVIOUS
<1>1. UNCHANGED memoryVars => Cells' = Cells
  BY DEF memoryVars, Cells, Seen, Read8, Peek, Plain!Overlay, Plain!Lands
<1>2. CASE LoadSection
  <2>1. i \in DOMAIN sections
    BY <1>2, TablesAssumption DEF LoadSection, LoadInv
  <2>2. CASE sections[i].loadable
    <3>1. Write(sections[i].base, sections[i].contents)
      BY <1>2, <2>2 DEF LoadSection
    <3>2. Flat!Write(sections[i].base, sections[i].contents)
      BY <2>1, <3>1, SectionTypes, WriteIsFlatWrite DEF LoadInv
    <3> QED BY <2>1, <3>2
  <2>3. CASE ~sections[i].loadable
    BY <1>1, <1>2, <2>3 DEF LoadSection
  <2> QED BY <2>2, <2>3
<1>3. CASE LoadChunk
  BY <1>3, ChunkLeavesCells DEF LoadChunk, LoadInv
<1>4. CASE EndOfLoad \/ (Read /\ UNCHANGED memoryVars) \/ UNCHANGED vars
  BY <1>1, <1>4 DEF EndOfLoad, vars
<1> QED BY <1>2, <1>3, <1>4 DEF Next

\* Whatever the sections, the page size and the number of pages, what callers
\* of Memory_space can read is a plain array that wraps, in which each section
\* lands as a whole (memory_space.cpp 88-106).
THEOREM MemoryIsFlat == Spec => ImplementsFlatMemory
<1>1. Init => Flat!Init
  BY CellsAtFirst DEF Init
<1> QED BY <1>1, LoadInitInv, LoadNextInv, StepsOfCells, PTL DEF Spec, ImplementsFlatMemory

-----------------------------------------------------------------------------
\* The bounds of the window.

LEMMA TableBounds ==
  ASSUME sections \in Tables
  PROVE  /\ DOMAIN sections = 1 .. Len(sections) /\ Len(sections) \in Nat \ {0}
         /\ \A s \in DOMAIN sections : EndOf(s) \in Nat /\ sections[s].base \in Nat
         /\ LowestBase \in {sections[s].base : s \in DOMAIN sections}
         /\ \A s \in DOMAIN sections : LowestBase <= sections[s].base
         /\ HighestEnd \in {EndOf(s) : s \in DOMAIN sections}
         /\ \A s \in DOMAIN sections : HighestEnd >= EndOf(s)
<1> DEFINE n == Len(sections)
           D == DOMAIN sections
           first == [s \in 1 .. n |-> sections[s].base]
           last == [s \in 1 .. n |-> EndOf(s)]
<1>1. n \in Nat \ {0} /\ D = 1 .. n
  BY TablesAssumption
<1>2. \A s \in D : /\ sections[s].base \in Nat /\ EndOf(s) \in Nat
  BY SectionTypes DEF EndOf
<1>3. PICK l \in 1 .. n : \A k \in 1 .. n : first[l] <= first[k]
  <2>1. \A k \in 1 .. n : first[k] \in Nat
    BY <1>1, <1>2
  <2> HIDE DEF first, n
  <2> QED BY <1>1, <2>1, LeastValue
<1>4. PICK h \in 1 .. n : \A k \in 1 .. n : last[h] >= last[k]
  <2>1. \A k \in 1 .. n : last[k] \in Nat
    BY <1>1, <1>2
  <2> HIDE DEF last, n
  <2> QED BY <1>1, <2>1, GreatestValue
<1>5. /\ LowestBase \in {sections[s].base : s \in D}
      /\ \A s \in D : LowestBase <= sections[s].base
  <2>1. \E b \in {sections[s].base : s \in D} : \A s \in D : b <= sections[s].base
    BY <1>1, <1>3
  <2> QED BY <2>1 DEF LowestBase
<1>6. /\ HighestEnd \in {EndOf(s) : s \in D}
      /\ \A s \in D : HighestEnd >= EndOf(s)
  <2>1. \E e \in {EndOf(s) : s \in D} : \A s \in D : e >= EndOf(s)
    BY <1>1, <1>4
  <2> QED BY <2>1 DEF HighestEnd
<1> QED BY <1>1, <1>2, <1>5, <1>6

\* What the loops compute with.
InputsInv == /\ LoadInv
             /\ option_address \in Windows \cup {NoWindow}
             /\ word_size \in {1, 2} /\ byte_order \in Nat

LEMMA BoundsAreNumbers ==
  ASSUME InputsInv
  PROVE  /\ lower_address \in Nat /\ higher_address \in Nat
         /\ FirstCell \in Nat
<1>1. LowestBase \in Nat /\ HighestEnd \in Nat
  BY TableBounds DEF InputsInv, LoadInv
<1>2. option_address # NoWindow => /\ option_address.lower \in Nat
                                   /\ option_address.higher \in Nat
  BY WindowAssumption DEF InputsInv
<1> QED BY <1>1, <1>2 DEF InputsInv, lower_address, higher_address, FirstCell

LEMMA ReadsAreBytes ==
  ASSUME MemoryInv, NEW a \in Nat
  PROVE  Read8(a) \in Byte
<1>1. PageOf(a) \in PageIndexes /\ OffsetOf(a) \in Offsets
  BY AddressParts
<1>2. heap[page_table[PageOf(a)].data] \in [Offsets -> Byte]
  BY <1>1 DEF MemoryInv, MemoryTypeOK
<1> QED BY <1>1, <1>2 DEF Read8, Peek

-----------------------------------------------------------------------------
\* Intel HEX records.

AddsUpToZero(r) ==
  LET sum[n \in 0 .. Len(r.octets)] ==
        IF n = 0 THEN Len(r.octets) + (r.load \div ByteLimit)
                      + (r.load % ByteLimit) + r.type + r.checksum
        ELSE sum[n - 1] + r.octets[n]
  IN  /\ r.extra = 0
      /\ sum[Len(r.octets)] % ByteLimit = 0
      /\ Len(r.octets) \in 1 .. RecordSize

\* The load addresses that fit the address field of a record.
Loads == 0 .. FormatLimit - 1

LEMMA FieldHolds ==
  /\ FormatLimit \in Nat \ {0}
  /\ \A load \in Loads : load % FormatLimit = load /\ load \div FormatLimit = 0
<1>1. FormatLimit \in Nat \ {0}
  <2>1. \A n \in Nat \ {0} : n * n \in Nat \ {0}
    OBVIOUS
  <2> QED BY <2>1, PageSizes DEF FormatLimit
<1> QED BY <1>1 DEF Loads

LEMMA ChecksumCompletes ==
  ASSUME NEW d \in Nat \ {0}, NEW n \in Int
  PROVE  /\ (d - (n % d)) % d \in Int
         /\ \E q \in Int : n + ((d - (n % d)) % d) = q * d
<1> DEFINE q == n \div d
           r == n % d
<1>1. n = q * d + r /\ q \in Int /\ r \in 0 .. d - 1
  BY QuotientAndRest
<1> HIDE DEF q, r
<1> SUFFICES /\ (d - r) % d \in Int
             /\ \E p \in Int : n + ((d - r) % d) = p * d
  BY DEF r
<1>2. CASE r = 0
  <2>1. (d - r) % d = 0
    <3>1. (1 * d + 0) % d = 0
      BY DivMod
    <3> QED BY <1>2, <3>1
  <2>2. n + ((d - r) % d) = q * d
    <3>1. n = q * d + 0 /\ q * d \in Int
      BY <1>1, <1>2
    <3> QED BY <2>1, <3>1
  <2> DEFINE c == (d - r) % d
  <2>3. c \in Int /\ n + c = q * d
    BY <2>1, <2>2
  <2> HIDE DEF c
  <2>4. c \in Int /\ \E p \in Int : n + c = p * d
    BY <1>1, <2>3
  <2> QED BY <2>4 DEF c
<1>3. CASE r # 0
  <2>1. (d - r) % d = d - r
    <3>1. d - r \in 0 .. d - 1 /\ d - r = 0 * d + (d - r)
      BY <1>1, <1>3
    <3>2. (0 * d + (d - r)) % d = d - r
      BY <3>1, DivMod
    <3> QED BY <3>1, <3>2
  <2>2. n + (d - r) = (q + 1) * d /\ q + 1 \in Int /\ d - r \in Int
    BY <1>1
  <2> QED BY <2>1, <2>2
<1> QED BY <1>2, <1>3

LEMMA RecordAddsUp ==
  ASSUME NEW load \in Loads, NEW octets \in Seq(Byte), Len(octets) \in 1 .. RecordSize
  PROVE  AddsUpToZero(DataRecord(load, octets))
<1> DEFINE r == DataRecord(load, octets)
           n == Len(octets)
           h == HeaderSum(load, n)
           f == CHOOSE f : f = [k \in 0 .. n |-> IF k = 0 THEN h ELSE f[k - 1] + octets[k]]
           m == n + (load \div ByteLimit) + (load % ByteLimit) + 0 + r.checksum
           g == CHOOSE g : g = [k \in 0 .. n |-> IF k = 0 THEN m ELSE g[k - 1] + octets[k]]
<1>1. /\ r.load = load /\ r.extra = 0 /\ r.type = 0 /\ r.octets = octets
      /\ r.checksum = (ByteLimit - (f[n] % ByteLimit)) % ByteLimit
  BY FieldHolds DEF DataRecord
<1>2. /\ n \in Nat /\ ByteLimit \in Nat \ {0} /\ load \in Int
      /\ \A k \in 1 .. n : octets[k] \in Int
  BY PageSizes DEF Byte, Loads
<1>3. /\ load = (load \div ByteLimit) * ByteLimit + (load % ByteLimit)
      /\ load \div ByteLimit \in Int /\ load % ByteLimit \in Int
  <2>1. load % ByteLimit \in 0 .. ByteLimit - 1 /\ load \div ByteLimit \in Int
    BY <1>2, QuotientAndRest
  <2>2. load = (load \div ByteLimit) * ByteLimit + (load % ByteLimit)
    BY <1>2, QuotientAndRest
  <2> QED BY <1>2, <2>1, <2>2
<1>4. h \in Int
  BY <1>2, <1>3 DEF HeaderSum
<1>5. IsSum(f, h, octets, n)
  <2>1. \E z : z = [k \in 0 .. n |-> IF k = 0 THEN h ELSE z[k - 1] + octets[k]]
    <3> HIDE DEF h, n
    <3>1. \E z : IsSum(z, h, octets, n)
      BY <1>2, <1>4, SumExists
    <3> QED BY <3>1 DEF IsSum
  <2> QED BY <2>1 DEF IsSum
<1>6. f[n] \in Int
  <2> HIDE DEF h, n, f
  <2>1. SumFacts(f, h, octets, n)
    BY <1>2, <1>4, <1>5, SumSteps
  <2> QED BY <1>2, <2>1 DEF SumFacts
<1>7. PICK q \in Int : r.checksum \in Int /\ f[n] + r.checksum = q * ByteLimit
  <2> HIDE DEF f, n, r
  <2> QED BY <1>1, <1>2, <1>6, ChecksumCompletes
<1>8. m \in Int
  <2> HIDE DEF n, r
  <2> QED BY <1>2, <1>3, <1>7
<1>9. IsSum(g, m, octets, n)
  <2>1. \E z : z = [k \in 0 .. n |-> IF k = 0 THEN m ELSE z[k - 1] + octets[k]]
    <3> HIDE DEF m, n
    <3>1. \E z : IsSum(z, m, octets, n)
      BY <1>2, <1>8, SumExists
    <3> QED BY <3>1 DEF IsSum
  <2> QED BY <2>1 DEF IsSum
<1>10. g[n] = f[n] + (m - h)
  <2> HIDE DEF f, g, h, m, n
  <2> QED BY <1>2, <1>4, <1>5, <1>8, <1>9, SumsStayApart
<1>11. g[n] = (q - (load \div ByteLimit)) * ByteLimit + 0
  <2> DEFINE t == load \div ByteLimit
             u == load % ByteLimit
             v == r.checksum
  <2>1. m - h = (u + v) - load
    <3>1. m = n + t + u + 0 + v /\ h = n + load + t
      BY DEF HeaderSum
    <3>2. t \in Int /\ u \in Int /\ v \in Int
      BY <1>3, <1>7
    <3> HIDE DEF m, h, t, u, v, n
    <3> QED BY <1>2, <3>1, <3>2
  <2>2. t \in Int /\ u \in Int /\ v \in Int /\ load = t * ByteLimit + u
    BY <1>3, <1>7
  <2>3. f[n] + v = q * ByteLimit
    BY <1>7
  <2> HIDE DEF f, g, m, h, t, u, v, n
  <2>4. g[n] = q * ByteLimit - t * ByteLimit
    <3>1. t * ByteLimit \in Int /\ q * ByteLimit \in Int
      BY <1>2, <2>2
    <3> QED BY <1>6, <1>10, <2>1, <2>2, <2>3, <3>1, SMTT(60)
  <2>5. g[n] = (q - t) * ByteLimit + 0
    BY <1>2, <2>2, <2>4
  <2> QED BY <2>5 DEF t
<1>12. g[n] % ByteLimit = 0
  <2>1. q - (load \div ByteLimit) \in Int
    BY <1>3
  <2>2. 0 \in 0 .. ByteLimit - 1
    BY <1>2
  <2> HIDE DEF g, n
  <2> QED BY <1>2, <1>11, <2>1, <2>2, DivMod
<1>13. AddsUpToZero(r) <=> (g[n] % ByteLimit = 0 /\ n \in 1 .. RecordSize)
  <2> HIDE DEF r
  <2> QED BY <1>1 DEF AddsUpToZero
<1> QED BY <1>12, <1>13

\* The records WriteRecord can make where the addresses fit.
Records == {DataRecord(p[1], p[2]) :
              p \in Loads \X {o \in Seq(Byte) : Len(o) \in 1 .. RecordSize}}

\* What is left of a section ends within the reach of a record.
WithinReach == address + size * word_size <= FormatLimit * word_size + byte_order

\* When the addresses fit, so do the records out and the rest of a section.
RecordsFit == AddressesFit => /\ out \in Seq(Records)
                              /\ pc = "records" => WithinReach

\* While an Intel HEX file is written the cursor is a number, and what is out
\* are records that fit.
HexInv == /\ InputsInv
          /\ format = "hexintel" =>
               /\ pc \in {"load", "open", "section", "records", "done"}
               /\ address \in Nat /\ size \in Nat
               /\ pc \in {"section", "records"} => byte_order < word_size
               /\ RecordsFit

LEMMA HexInitInv == Init => HexInv
<1> SUFFICES ASSUME Init PROVE HexInv
  OBVIOUS
<1>1. InputsInv
  BY LoadInitInv, WordSizeAssumption DEF Init, InputsInv
<1>2. pc = "load" /\ address \in Nat /\ size \in Nat /\ out \in Seq(Records)
  BY DEF Init
<1>3. RecordsFit
  BY <1>2 DEF RecordsFit
<1> QED BY <1>1, <1>2, <1>3 DEF HexInv

LEMMA StepsKeepInputs ==
  ASSUME [Next]_vars
  PROVE  UNCHANGED inputs
BY DEF Next, LoadSection, LoadChunk, EndOfLoad, Read, OpenFile, Finish, RawByte,
       RawEnd, SingleToken, StartRun, ExtendRun, EndRun, LogisimEnd, SkipSection,
       EnterSection, WriteRecord, LeaveSection, HexEnd, CloseFile, inputs, vars,
       writerVars

\* Whether the addresses fit is settled by the inputs.
LEMMA FitStays ==
  ASSUME UNCHANGED inputs
  PROVE  AddressesFit' = AddressesFit
<1>1. /\ lower_address' = lower_address /\ higher_address' = higher_address
      /\ Loadable' = Loadable /\ word_size' = word_size
      /\ \A s : EndOf(s)' = EndOf(s)
  BY DEF inputs, lower_address, higher_address, LowestBase, HighestEnd, EndOf, Loadable
<1> QED BY <1>1 DEF AddressesFit, FormatLimit

LEMMA InputsStay ==
  ASSUME InputsInv, [Next]_vars
  PROVE  InputsInv' /\ format' = format
<1>1. LoadInv'
  BY LoadNextInv DEF InputsInv
<1>2. UNCHANGED inputs /\ (byte_order' = byte_order \/ byte_order' = byte_order + 1)
  <2>1. CASE Read
    BY <2>1
    DEF Read, OpenFile, Finish, RawByte, RawEnd, SingleToken, StartRun, ExtendRun,
        EndRun, LogisimEnd, SkipSection, EnterSection, WriteRecord, LeaveSection,
        HexEnd, CloseFile
  <2>2. CASE LoadSection \/ LoadChunk \/ EndOfLoad \/ UNCHANGED vars
    BY <2>2 DEF LoadSection, LoadChunk, EndOfLoad, vars, writerVars
  <2> QED BY <2>1, <2>2 DEF Next
<1> QED BY <1>1, <1>2 DEF InputsInv, inputs

\* Reach is counted in addresses: the record begins before the limit.
LEMMA LoadInReach ==
  ASSUME NEW limit \in Nat, NEW word \in {1, 2}, NEW order \in Nat, order < word,
         NEW a \in Nat, NEW n \in Nat \ {0}, a + n * word <= limit * word + order
  PROVE  a \div word \in 0 .. limit - 1
<1>1. CASE word = 1
  BY <1>1
<1>2. CASE word = 2
  BY <1>2
<1> QED BY <1>1, <1>2

\* Going a record on leaves less of the same reach.
LEMMA ReachLeft ==
  ASSUME NEW limit \in Nat, NEW word \in {1, 2}, NEW order \in Nat, NEW range \in Nat \ {0},
         NEW a \in Nat, NEW n \in Nat, NEW m \in Nat, m <= n,
         a + n * word <= limit * word + order
  PROVE  /\ (a + m * word) % range \in Nat
         /\ ((a + m * word) % range) + (n - m) * word <= limit * word + order
<1>1. PICK b \in Nat : b = a + m * word
  OBVIOUS
<1>2. b % range \in Nat /\ b % range <= b
  OBVIOUS
<1>3. b + (n - m) * word = a + n * word
  BY <1>1
<1> QED BY <1>1, <1>2, <1>3

\* A record that WriteRecord writes is one of Records when the addresses fit.
LEMMA WriteRecordWrites ==
  ASSUME HexInv, format = "hexintel", WriteRecord
  PROVE  /\ address' \in Nat /\ size' \in Nat
         /\ AddressesFit => out' \in Seq(Records) /\ WithinReach'
<1> DEFINE n == RecordLength
           octets == [k \in 1 .. n |-> Read8(address + (k - 1) * word_size)]
           load == address \div word_size
<1>1. /\ address \in Nat /\ size \in Nat /\ size > 0
      /\ word_size \in {1, 2} /\ MemoryInv /\ byte_order \in Nat /\ byte_order < word_size
      /\ RecordsFit /\ pc = "records"
  BY DEF HexInv, InputsInv, LoadInv, WriteRecord
<1>2. /\ out' = Append(out, DataRecord(load, octets))
      /\ address' = (address + n * word_size) % AddressRange
      /\ size' = size - n
      /\ byte_order' = byte_order /\ word_size' = word_size
  BY DEF WriteRecord, inputs
<1>3. n \in 1 .. RecordSize /\ n <= size
  BY <1>1, RecordAssumption DEF RecordLength, Smaller
<1>4. octets \in Seq(Byte) /\ Len(octets) = n
  <2> HIDE DEF n
  <2>1. ASSUME NEW k \in 1 .. n
        PROVE  Read8(address + (k - 1) * word_size) \in Byte
    <3>1. address + (k - 1) * word_size \in Nat
      BY <1>1, <1>3
    <3> QED BY <1>1, <3>1, ReadsAreBytes
  <2> QED BY <1>3, <2>1
<1> HIDE DEF n, octets
<1>5. address' \in Nat
  <2>1. address + n * word_size \in Int
    BY <1>1, <1>3
  <2> QED BY <1>2, <2>1, WindowAssumption
<1>6. size' \in Nat
  BY <1>1, <1>2, <1>3
<1>7. ASSUME AddressesFit
      PROVE  out' \in Seq(Records) /\ WithinReach'
  <2>1. /\ address + size * word_size <= FormatLimit * word_size + byte_order
        /\ out \in Seq(Records)
    BY <1>1, <1>7 DEF RecordsFit, WithinReach
  <2>2. FormatLimit \in Nat
    BY FieldHolds
  <2>3. load \in Loads
    BY <1>1, <2>1, <2>2, LoadInReach DEF Loads
  <2> HIDE DEF load
  <2>4. DataRecord(load, octets) \in Records
    <3>1. <<load, octets>> \in Loads \X {o \in Seq(Byte) : Len(o) \in 1 .. RecordSize}
      BY <1>3, <1>4, <2>3
    <3> QED BY <3>1 DEF Records
  <2>5. out' \in Seq(Records)
    BY <1>2, <2>1, <2>4
  <2>6. WithinReach'
    <3>1. ((address + n * word_size) % AddressRange) + (size - n) * word_size
            <= FormatLimit * word_size + byte_order
      BY <1>1, <1>3, <2>1, <2>2, WindowAssumption, ReachLeft
    <3> QED BY <1>2, <3>1 DEF WithinReach, FormatLimit
  <2> QED BY <2>5, <2>6
<1> QED BY <1>5, <1>6, <1>7

\* A section is entered at its first byte in the window, and when the addresses
\* fit the rest of it is within reach.
LEMMA EnterSectionCursor ==
  ASSUME HexInv, format = "hexintel", EnterSection
  PROVE  /\ address' \in Nat /\ size' \in Nat
         /\ AddressesFit => WithinReach'
<1> DEFINE low == Larger(lower_address, sections[i].base)
           extent == (SectionEnd + AddressRange - low) % AddressRange
<1>1. /\ sections \in Tables /\ i \in DOMAIN sections
      /\ lower_address \in Nat /\ higher_address \in Nat /\ byte_order \in Nat
      /\ word_size \in {1, 2}
  BY BoundsAreNumbers, TablesAssumption
  DEF HexInv, InputsInv, LoadInv, EnterSection, AtSection
<1>2. /\ address' = low + byte_order /\ size' = extent \div word_size
      /\ byte_order' = byte_order /\ word_size' = word_size
  BY DEF EnterSection, inputs
<1>3. low \in Nat /\ SectionEnd \in Nat
  BY <1>1, TableBounds DEF Larger, SectionEnd, Smaller
<1>4. extent \in Nat
  <2> HIDE DEF low
  <2>1. SectionEnd + AddressRange - low \in Int
    BY <1>3, WindowAssumption
  <2> QED BY <2>1, WindowAssumption
<1>5. AddressesFit => low <= SectionEnd /\ SectionEnd <= FormatLimit * word_size
                      /\ SectionEnd < AddressRange
  <2> SUFFICES ASSUME AddressesFit
               PROVE  low <= SectionEnd /\ SectionEnd <= FormatLimit * word_size
                      /\ SectionEnd < AddressRange
    OBVIOUS
  <2>1. /\ sections[i].loadable /\ ~(higher_address < sections[i].base)
        /\ ~(lower_address >= EndOf(i))
    BY DEF EnterSection, OutsideWindow, PastWindow
  <2>2. lower_address <= higher_address /\ SectionEnd <= FormatLimit * word_size
    BY <1>1, <2>1 DEF AddressesFit, Loadable, SectionEnd
  <2>3. /\ EndOf(i) \in Nat /\ sections[i].base \in Nat /\ sections[i].base <= EndOf(i)
        /\ EndOf(i) < AddressRange
    <3>1. EndOf(i) \in Nat /\ sections[i].base \in Nat
      BY <1>1, TableBounds
    <3>2. EndOf(i) + 4 <= AddressRange
      BY <1>1, TablesAssumption DEF EndOf
    <3>3. Len(sections[i].contents) \in Nat
      BY <1>1, SectionTypes
    <3> QED BY <3>1, <3>2, <3>3, WindowAssumption DEF EndOf
  <2>4. low <= SectionEnd
    BY <1>1, <2>1, <2>2, <2>3 DEF Larger, SectionEnd, Smaller
  <2>5. SectionEnd < AddressRange
    BY <1>1, <2>3, WindowAssumption DEF SectionEnd, Smaller
  <2> QED BY <2>2, <2>4, <2>5
<1> HIDE DEF low
<1>6. AddressesFit => WithinReach'
  <2> SUFFICES ASSUME AddressesFit PROVE WithinReach'
    OBVIOUS
  <2>1. extent = SectionEnd - low
    BY <1>3, <1>5, WindowAssumption
  <2> HIDE DEF extent
  <2>2. /\ (extent \div word_size) * word_size <= extent
        /\ (extent \div word_size) * word_size \in Nat
    BY <1>1, <1>4
  <2>3. FormatLimit * word_size \in Nat
    BY <1>1, FieldHolds
  <2>4. low + byte_order + (extent \div word_size) * word_size
          <= FormatLimit * word_size + byte_order
    BY <1>1, <1>3, <1>5, <2>1, <2>2, <2>3
  <2> QED BY <1>2, <2>4 DEF WithinReach, FormatLimit
<1> HIDE DEF extent
<1> QED BY <1>1, <1>2, <1>3, <1>4, <1>6

LEMMA HexNextInv == HexInv /\ [Next]_vars => HexInv'
<1> SUFFICES ASSUME HexInv, [Next]_vars PROVE HexInv'
  OBVIOUS
<1>1. InputsInv' /\ format' = format /\ word_size' = word_size /\ AddressesFit' = AddressesFit
  BY InputsStay, StepsKeepInputs, FitStays DEF HexInv, inputs
<1> SUFFICES ASSUME format = "hexintel"
             PROVE  /\ pc' \in {"load", "open", "section", "records", "done"}
                    /\ address' \in Nat /\ size' \in Nat
                    /\ pc' \in {"section", "records"} => byte_order' < word_size
                    /\ AddressesFit => /\ out' \in Seq(Records)
                                       /\ pc' = "records" => WithinReach'
  BY <1>1 DEF HexInv, RecordsFit
<1>2. /\ pc \in {"load", "open", "section", "records", "done"}
      /\ address \in Nat /\ size \in Nat /\ InputsInv
      /\ pc \in {"section", "records"} => byte_order < word_size
      /\ AddressesFit => /\ out \in Seq(Records)
                         /\ pc = "records" => WithinReach
  <2>1. /\ pc \in {"load", "open", "section", "records", "done"}
        /\ address \in Nat /\ size \in Nat /\ InputsInv /\ RecordsFit
        /\ pc \in {"section", "records"} => byte_order < word_size
    BY DEF HexInv
  <2> QED BY <2>1, Zenon DEF RecordsFit
<1>3. CASE LoadSection \/ LoadChunk \/ EndOfLoad \/ UNCHANGED vars
  <2>1. /\ address' = address /\ size' = size /\ out' = out /\ byte_order' = byte_order
        /\ pc' = pc \/ pc' = "open"
    BY <1>3 DEF LoadSection, LoadChunk, EndOfLoad, vars, writerVars, cursor
  <2>2. WithinReach' = WithinReach
    BY <1>1, <2>1 DEF WithinReach, FormatLimit
  <2> QED BY <1>2, <2>1, <2>2
<1>4. CASE OpenFile
  <2>1. /\ FirstCell \in Nat /\ byte_order < word_size
    BY <1>2, <1>4, BoundsAreNumbers DEF OpenFile, FileCount, Wide
  <2>2. /\ out' = <<>> /\ address' = FirstCell /\ size' = size
        /\ byte_order' = byte_order /\ pc' = "section"
    BY <1>4 DEF OpenFile
  <2> QED BY <1>2, <2>1, <2>2
<1>5. CASE Finish \/ HexEnd
  BY <1>2, <1>5 DEF Finish, HexEnd, CloseFile, cursor
<1>6. CASE RawByte \/ RawEnd \/ SingleToken \/ StartRun \/ ExtendRun \/ EndRun \/ LogisimEnd
  BY <1>2, <1>6 DEF RawByte, RawEnd, SingleToken, StartRun, ExtendRun, EndRun, LogisimEnd
<1>7. CASE SkipSection \/ LeaveSection
  BY <1>2, <1>7 DEF SkipSection, AtSection, LeaveSection
<1>8. CASE EnterSection
  <2>1. pc = "section" /\ pc' = "records" /\ out' = out /\ byte_order' = byte_order
    BY <1>8 DEF EnterSection, AtSection
  <2> QED BY <1>2, <1>8, <2>1, EnterSectionCursor
<1>9. CASE WriteRecord
  <2>1. pc = "records" /\ pc' = pc /\ byte_order' = byte_order
    BY <1>9 DEF WriteRecord
  <2> QED BY <1>2, <1>9, <2>1, WriteRecordWrites
<1> QED BY <1>3, <1>4, <1>5, <1>6, <1>7, <1>8, <1>9 DEF Next, Read

LEMMA HexRecords == HexInv => RecordsAddUpToZero
<1> SUFFICES ASSUME HexInv, format = "hexintel", AddressesFit, NEW m \in DOMAIN out
             PROVE  AddsUpToZero(out[m])
  BY DEF RecordsAddUpToZero, AddsUpToZero
<1>1. out[m] \in Records
  <2>1. RecordsFit
    BY DEF HexInv
  <2> QED BY <2>1 DEF RecordsFit
<1>2. PICK load \in Loads, octets \in {o \in Seq(Byte) : Len(o) \in 1 .. RecordSize} :
        out[m] = DataRecord(load, octets)
  BY <1>1 DEF Records
<1> QED BY <1>2, RecordAddsUp

\* Every data record has at least a byte and no more than the format allows,
\* the four digits of its address and bytes that add up to zero, whatever
\* sections, window and interleaving there are, as long as the window is in
\* order and what it has of the sections ends by address 0x10000 (twice that
\* when interleaved): Sections::binary_hex_intel prints more digits past it.
THEOREM RecordsAreValid == Spec => []RecordsAddUpToZero
BY HexInitInv, HexNextInv, HexRecords, PTL DEF Spec

-----------------------------------------------------------------------------
\* What the memory holds once the sections are loaded.

\* The loadable bytes for the cell of address a among the first m sections.
PlacesUpTo(m, a) == {p \in PlacesOf(a) : p[1] <= m}

\* The last of the places says what v is.
Holds(places, v) ==
  \/ places = {} /\ v = 0
  \/ \E p \in places : /\ IsLastOf(places, p)
                       /\ v = sections[p[1]].contents[p[2]]

LoadedSections == IF pc = "load" THEN i - 1 ELSE Len(sections)

\* The flat memory holds the sections loaded so far, the last where they meet.
ImageInv ==
  /\ InputsInv
  /\ pc # "load" => data = <<>>
  /\ pc = "load" => i <= Len(sections) + 1
  /\ \A a \in 0 .. Space - 1 : Holds(PlacesUpTo(LoadedSections, a), Cells[a])

LEMMA Places ==
  ASSUME sections \in Tables, NEW a \in 0 .. Space - 1
  PROVE  \A p : p \in PlacesOf(a) <=>
           /\ p = <<p[1], p[2]>> /\ p[1] \in DOMAIN sections
           /\ sections[p[1]].loadable
           /\ p[2] \in DOMAIN sections[p[1]].contents
           /\ Hits(sections[p[1]].base, p[2], a)
<1>1. a % Space = a
  <2>1. a \in Nat /\ a < Space
    BY PageSizes
  <2> QED BY <2>1, WrapAddress
<1> QED BY <1>1 DEF PlacesOf, Loadable, Hits

\* Loading a section puts its bytes last.
LEMMA SectionLoaded ==
  ASSUME sections \in Tables, NEW s \in DOMAIN sections, NEW a \in 0 .. Space - 1,
         NEW old, Holds(PlacesUpTo(s - 1, a), old[a])
  PROVE  Holds(PlacesUpTo(s, a),
               IF sections[s].loadable
               THEN Over(old, sections[s].base, sections[s].contents)[a] ELSE old[a])
<1> DEFINE block == sections[s].contents
           x == sections[s].base
           before == PlacesUpTo(s - 1, a)
           after == PlacesUpTo(s, a)
<1>1. /\ block \in Seq(Byte) /\ DOMAIN sections = 1 .. Len(sections) /\ s \in Nat
      /\ DOMAIN block = 1 .. Len(block)
  BY SectionTypes, TableBounds
<1>2. \A p \in PlacesOf(a) : p[1] \in Nat
  BY <1>1, Places
<1>3. CASE sections[s].loadable /\ \E k \in DOMAIN block : Hits(x, k, a)
  <2>1. PICK k \in DOMAIN block :
          Hits(x, k, a) /\ \A j \in DOMAIN block : Hits(x, j, a) => j <= k
    <3> HIDE DEF block, x
    <3> QED BY <1>1, <1>3, LastElement
  <2>2. Over(old, x, block)[a] = block[k]
    <3> HIDE DEF block, x
    <3> QED BY <1>1, <2>1, OverlayLast
  <2> DEFINE p == <<s, k>>
  <2>3. p[1] = s /\ p[2] = k
    OBVIOUS
  <2>4. p \in after
    BY <1>1, <1>3, <2>1, <2>3, Places DEF PlacesUpTo
  <2>5. IsLastOf(after, p)
    <3> SUFFICES ASSUME NEW q \in after
                 PROVE  q[1] < s \/ (q[1] = s /\ q[2] <= k)
      BY <2>3 DEF IsLastOf
    <3>1. q \in PlacesOf(a) /\ q[1] <= s /\ q[1] \in Nat
      BY <1>2 DEF PlacesUpTo
    <3>2. q[1] = s => q[2] \in DOMAIN block /\ Hits(x, q[2], a)
      BY <3>1, Places
    <3> QED BY <1>1, <2>1, <3>1, <3>2
  <2>6. Over(old, x, block)[a] = sections[p[1]].contents[p[2]]
    BY <2>2, <2>3
  <2> HIDE DEF p, after, block, x
  <2>7. Holds(after, Over(old, x, block)[a])
    BY <2>4, <2>5, <2>6 DEF Holds
  <2> QED BY <1>3, <2>7 DEF after, block, x
<1>4. CASE ~(sections[s].loadable /\ \E k \in DOMAIN block : Hits(x, k, a))
  <2>1. after = before
    <3>1. ASSUME NEW q \in PlacesOf(a)
          PROVE  q[1] # s
      BY <1>4, Places
    <3>2. \A q \in PlacesOf(a) : q[1] <= s <=> q[1] <= s - 1
      BY <1>1, <1>2, <3>1
    <3> QED BY <3>2 DEF PlacesUpTo
  <2>2. sections[s].loadable => Over(old, x, block)[a] = old[a]
    <3> SUFFICES ASSUME sections[s].loadable PROVE Over(old, x, block)[a] = old[a]
      OBVIOUS
    <3> HIDE DEF block, x
    <3> QED BY <1>4, OverlayNone
  <2> QED BY <2>1, <2>2
<1> QED BY <1>3, <1>4

LEMMA ImageInitInv == Init => ImageInv
<1> SUFFICES ASSUME Init PROVE ImageInv
  OBVIOUS
<1>1. InputsInv
  BY LoadInitInv, WordSizeAssumption DEF Init, InputsInv
<1>2. Cells = [a \in 0 .. Space - 1 |-> 0]
  BY CellsAtFirst DEF Init, Flat!Init
<1>3. pc = "load" /\ i = 1 /\ i <= Len(sections) + 1
  BY TableBounds DEF Init
<1>4. ASSUME NEW a \in 0 .. Space - 1
      PROVE  Holds(PlacesUpTo(LoadedSections, a), Cells[a])
  <2>1. LoadedSections = 0
    BY <1>3 DEF LoadedSections
  <2>2. \A p \in PlacesOf(a) : p[1] \in Nat \ {0}
    BY Places, TableBounds DEF Init
  <2>3. PlacesUpTo(0, a) = {}
    BY <2>2 DEF PlacesUpTo
  <2> QED BY <1>2, <2>1, <2>3 DEF Holds
<1> QED BY <1>1, <1>3, <1>4 DEF ImageInv

LEMMA HoldsStays ==
  ASSUME sections' = sections, NEW m, NEW a, NEW v, Holds(PlacesUpTo(m, a), v)
  PROVE  (Holds(PlacesUpTo(m, a), v))'
BY DEF Holds, PlacesUpTo, PlacesOf, Loadable, IsLastOf

\* A step changes where the memory stands only by loading a section.
LEMMA ImageNextInv == ImageInv /\ [Next]_vars => ImageInv'
<1> SUFFICES ASSUME ImageInv, [Next]_vars PROVE ImageInv'
  OBVIOUS
<1>1. InputsInv' /\ format' = format
  BY InputsStay DEF ImageInv
<1>2. sections' = sections
  BY DEF Next, LoadSection, LoadChunk, EndOfLoad, Read, OpenFile, Finish, RawByte,
         RawEnd, SingleToken, StartRun, ExtendRun, EndRun, LogisimEnd, SkipSection,
         EnterSection, WriteRecord, LeaveSection, HexEnd, CloseFile, inputs, vars,
         writerVars
<1>3. /\ sections \in Tables /\ i \in Nat \ {0} /\ Len(sections) \in Nat
      /\ MemoryInv /\ DOMAIN sections = 1 .. Len(sections)
  BY TableBounds DEF ImageInv, InputsInv, LoadInv
<1>4. UNCHANGED memoryVars => Cells' = Cells
  BY DEF memoryVars, Cells, Seen, Read8, Peek, Plain!Overlay, Plain!Lands
<1>5. ASSUME Cells' = Cells, LoadedSections' = LoadedSections
      PROVE  \A a \in 0 .. Space - 1 : (Holds(PlacesUpTo(LoadedSections, a), Cells[a]))'
  <2> SUFFICES ASSUME NEW a \in 0 .. Space - 1
               PROVE  (Holds(PlacesUpTo(LoadedSections, a), Cells[a]))'
    OBVIOUS
  <2>1. PICK m : m = LoadedSections
    OBVIOUS
  <2>2. PICK v : v = Cells[a]
    OBVIOUS
  <2>3. (Holds(PlacesUpTo(m, a), v))'
    BY <1>2, <2>1, <2>2, HoldsStays DEF ImageInv
  <2> QED BY <1>5, <2>1, <2>2, <2>3
<1>6. CASE LoadSection
  <2> DEFINE s == i
  <2>1. /\ pc = "load" /\ pc' = "load" /\ s \in DOMAIN sections
        /\ i' = i + 1 /\ data = <<>>
    BY <1>3, <1>6 DEF LoadSection
  <2>2. i' <= Len(sections') + 1
    BY <1>2, <1>3, <2>1
  <2>3. LoadedSections = s - 1 /\ LoadedSections' = s
    BY <1>3, <2>1 DEF LoadedSections
  <2>4. Cells' = IF sections[s].loadable
                 THEN Over(Cells, sections[s].base, sections[s].contents) ELSE Cells
    <3>1. CASE sections[s].loadable
      <4>1. Write(sections[s].base, sections[s].contents)
        BY <1>6, <3>1 DEF LoadSection
      <4>2. Flat!Write(sections[s].base, sections[s].contents)
        BY <1>3, <2>1, <4>1, SectionTypes, WriteIsFlatWrite
      <4> QED BY <3>1, <4>2, OverlayFunction DEF Flat!Write
    <3>2. CASE ~sections[s].loadable
      BY <1>4, <1>6, <3>2 DEF LoadSection
    <3> QED BY <3>1, <3>2
  <2>5. ASSUME NEW a \in 0 .. Space - 1
        PROVE  (Holds(PlacesUpTo(LoadedSections, a), Cells[a]))'
    <3>1. Holds(PlacesUpTo(s - 1, a), Cells[a])
      BY <2>3 DEF ImageInv
    <3>2. PICK v : v = Cells'[a]
      OBVIOUS
    <3>3. Holds(PlacesUpTo(s, a), v)
      <4> HIDE DEF s
      <4>1. Holds(PlacesUpTo(s, a),
                  IF sections[s].loadable
                  THEN Over(Cells, sections[s].base, sections[s].contents)[a] ELSE Cells[a])
        BY <1>3, <2>1, <3>1, SectionLoaded
      <4> QED BY <2>4, <3>2, <4>1
    <3>4. PICK m : m = s
      OBVIOUS
    <3>5. (Holds(PlacesUpTo(m, a), v))'
      BY <1>2, <3>3, <3>4, HoldsStays
    <3> QED BY <2>3, <3>2, <3>4, <3>5
  <2> QED BY <1>1, <2>1, <2>2, <2>5 DEF ImageInv
<1>7. CASE LoadChunk
  <2>1. pc' = pc /\ i' = i
    BY <1>7 DEF LoadChunk, writerVars, cursor
  <2>2. Cells' = Cells /\ data # <<>>
    BY <1>3, <1>7, ChunkLeavesCells DEF LoadChunk, WriteChunk
  <2>3. LoadedSections' = LoadedSections
    BY <1>2, <2>1 DEF LoadedSections
  <2> QED BY <1>1, <1>2, <1>5, <2>1, <2>2, <2>3 DEF ImageInv
<1>8. CASE EndOfLoad
  <2>1. /\ pc = "load" /\ pc' = "open" /\ data' = <<>> /\ Cells' = Cells
        /\ i = Len(sections) + 1
    BY <1>3, <1>4, <1>8 DEF EndOfLoad, memoryVars, ImageInv
  <2>2. LoadedSections' = LoadedSections
    BY <1>2, <1>3, <2>1 DEF LoadedSections
  <2> QED BY <1>1, <1>5, <2>1, <2>2 DEF ImageInv
<1>9. CASE Read /\ UNCHANGED memoryVars
  <2>1. pc # "load" /\ pc' # "load"
    BY <1>9 DEF Read, OpenFile, Finish, RawByte, RawEnd, SingleToken, StartRun,
         ExtendRun, EndRun, LogisimEnd, SkipSection, AtSection, EnterSection,
         WriteRecord, LeaveSection, HexEnd, CloseFile
  <2>2. Cells' = Cells /\ data' = data
    BY <1>4, <1>9 DEF memoryVars
  <2>3. LoadedSections' = LoadedSections
    BY <1>2, <2>1 DEF LoadedSections
  <2> QED BY <1>1, <1>5, <2>1, <2>2, <2>3 DEF ImageInv
<1>10. CASE UNCHANGED vars
  <2>1. pc' = pc /\ i' = i /\ Cells' = Cells /\ data' = data
    BY <1>4, <1>10 DEF vars, writerVars, cursor, memoryVars
  <2>2. LoadedSections' = LoadedSections
    BY <1>2, <2>1 DEF LoadedSections
  <2> QED BY <1>1, <1>2, <1>5, <2>1, <2>2 DEF ImageInv
<1> QED BY <1>6, <1>7, <1>8, <1>9, <1>10 DEF Next

\* What is read once loading has ended is what the sections have there.
LEMMA ReadsAreSections ==
  ASSUME ImageInv, pc # "load", NEW a \in Nat
  PROVE  Read8(a) = ByteAt(a) /\ ByteAt(a) \in Byte
<1> DEFINE c == a % Space
           places == PlacesOf(c)
           v == Cells[c]
<1>1. c \in 0 .. Space - 1 /\ Read8(a) = Seen[c] /\ Cells = Seen
  BY WrapAddress, ReadsAreCells, CellsWhenIdle DEF ImageInv
<1>2. places = PlacesOf(a)
  <2>1. c % Space = a % Space
    <3>1. c \in Nat /\ c < Space
      BY <1>1, PageSizes
    <3> HIDE DEF c
    <3>2. c % Space = c
      BY <3>1, WrapAddress
    <3> QED BY <3>2 DEF c
  <2> QED BY <2>1 DEF PlacesOf
<1>3. PlacesUpTo(LoadedSections, c) = places
  <2>1. LoadedSections = Len(sections) /\ sections \in Tables
    BY DEF LoadedSections, ImageInv, InputsInv, LoadInv
  <2>2. \A p \in places : p[1] \in 1 .. Len(sections)
    <3> HIDE DEF c
    <3> QED BY <1>1, <2>1, Places, TableBounds
  <2>3. \A p \in places : p[1] <= Len(sections)
    <3>1. Len(sections) \in Nat
      BY <2>1, TableBounds
    <3> QED BY <2>2, <3>1
  <2> QED BY <2>1, <2>3 DEF PlacesUpTo
<1>4. Holds(places, v)
  <2> HIDE DEF places
  <2> QED BY <1>1, <1>3 DEF ImageInv
<1>5. \A p, q \in places : IsLastOf(places, p) /\ IsLastOf(places, q) =>
                             p[1] = q[1] /\ p[2] = q[2]
  <2>1. \A p \in places : p[1] \in Nat /\ p[2] \in Nat
    <3>1. \A s \in DOMAIN sections : s \in Nat /\ DOMAIN sections[s].contents \subseteq Nat
      BY SectionTypes, TableBounds DEF ImageInv, InputsInv, LoadInv
    <3>2. sections \in Tables
      BY DEF ImageInv, InputsInv, LoadInv
    <3> HIDE DEF c
    <3> QED BY <1>1, <3>1, <3>2, Places
  <2> HIDE DEF places
  <2> QED BY <2>1 DEF IsLastOf
<1>6. v = ByteAt(a)
  <2> HIDE DEF places, v
  <2>1. CASE places = {}
    BY <1>2, <1>4, <2>1 DEF Holds, ByteAt
  <2>2. CASE places # {}
    <3>1. PICK p \in places : IsLastOf(places, p) /\ v = sections[p[1]].contents[p[2]]
      BY <1>4, <2>2 DEF Holds
    <3> DEFINE last == LastOf(places)
    <3>2. last \in places /\ IsLastOf(places, last)
      BY <3>1 DEF LastOf
    <3>3. last[1] = p[1] /\ last[2] = p[2]
      <4> HIDE DEF last
      <4> QED BY <1>5, <3>1, <3>2
    <3>4. ByteAt(a) = sections[last[1]].contents[last[2]]
      BY <1>2, <2>2 DEF ByteAt
    <3> QED BY <3>1, <3>3, <3>4
  <2> QED BY <2>1, <2>2
<1>7. Read8(a) \in Byte
  BY ReadsAreBytes DEF ImageInv, InputsInv, LoadInv
<1> QED BY <1>1, <1>6, <1>7

\* A word of 16 bits is two bytes, in one page when its address is even.
LEMMA WordsAreBytes ==
  ASSUME NEW a \in Nat
  PROVE  Read16(a) = Read8(a) + ByteLimit * Read8(a + 1)
<1>1. CASE a % 2 # 0
  BY <1>1 DEF Read16
<1>2. CASE a % 2 = 0
  <2> DEFINE q == a \div PageSize
             o == a % PageSize
             h == PageSize \div 2
  <2>1. /\ PageSize = 2 * h /\ h \in Nat \ {0} /\ PageSize \in Nat \ {0}
    BY PageAssumption
  <2>2. q \in Nat /\ o \in 0 .. PageSize - 1 /\ a = q * PageSize + o
    <3>1. a \in Int /\ PageSize \in Nat \ {0}
      BY <2>1
    <3> QED BY <3>1, QuotientAndRest
  <2>3. o % 2 = 0 /\ o + 1 \in 0 .. PageSize - 1
    <3> DEFINE m == q * h
    <3>1. m \in Nat /\ q * PageSize = 2 * m
      <4> HIDE DEF q, h
      <4> QED BY <2>1, <2>2
    <3> HIDE DEF q, o, h, m
    <3>2. o % 2 = 0
      BY <1>2, <2>2, <3>1
    <3> QED BY <2>1, <2>2, <3>2
  <2>4. (a + 1) \div PageSize = q /\ (a + 1) % PageSize = o + 1
    <3> DEFINE r == o + 1
    <3>1. a + 1 = q * PageSize + r /\ q \in Int /\ r \in 0 .. PageSize - 1
      <4>1. q * PageSize \in Int
        BY <2>1, <2>2
      <4> HIDE DEF q, o
      <4> QED BY <2>2, <2>3, <4>1
    <3> HIDE DEF q, o, r
    <3>2. (q * PageSize + r) \div PageSize = q /\ (q * PageSize + r) % PageSize = r
      BY <2>1, <3>1, DivMod
    <3> QED BY <3>1, <3>2 DEF r
  <2>5. /\ PageOf(a + 1) = PageOf(a) /\ OffsetOf(a + 1) = OffsetOf(a) + 1
    BY <2>4 DEF PageOf, OffsetOf
  <2> QED BY <1>2, <2>5 DEF Read16, Read8
<1> QED BY <1>1, <1>2

LEMMA UnitsAreSections ==
  ASSUME ImageInv, pc # "load", NEW a \in Nat
  PROVE  Unit(a) = UnitAt(a) /\ UnitAt(a) \in Nat
<1>1. /\ Read8(a) = ByteAt(a) /\ ByteAt(a) \in Byte
      /\ Read8(a + 1) = ByteAt(a + 1) /\ ByteAt(a + 1) \in Byte
  <2>1. a + 1 \in Nat
    OBVIOUS
  <2> QED BY <2>1, ReadsAreSections
<1>2. Read16(a) = ByteAt(a) + ByteLimit * ByteAt(a + 1)
  BY <1>1, WordsAreBytes
<1>3. ByteAt(a) \in Nat /\ ByteAt(a) + ByteLimit * ByteAt(a + 1) \in Nat
  <2>1. ByteAt(a) \in Nat /\ ByteAt(a + 1) \in Nat /\ ByteLimit \in Nat
    BY <1>1, PageSizes DEF Byte
  <2> QED BY <2>1
<1> QED BY <1>1, <1>2, <1>3 DEF Unit, UnitAt

-----------------------------------------------------------------------------
\* Files that are finished.

\* What is said of file k when it is closed goes on being true, since it
\* depends on the inputs only.
LEMMA WindowStays ==
  ASSUME UNCHANGED inputs
  PROVE  \A k : WindowUnits(k)' = WindowUnits(k)
BY DEF inputs, WindowUnits, UnitsFrom, UnitCount, lower_address, higher_address,
       LowestBase, HighestEnd, EndOf, Stride, Wide, UnitAt, ByteAt, PlacesOf, Loadable, LastOf

LEMMA NextUnit ==
  ASSUME NEW a \in Nat, NEW m \in Nat
  PROVE  Append(UnitsFrom(a, m), UnitAt(a + m * Stride)) = UnitsFrom(a, m + 1)
<1> DEFINE s == UnitsFrom(a, m)
           u == UnitAt(a + m * Stride)
           U == {UnitAt(a + (n - 1) * Stride) : n \in 1 .. m + 1}
<1>1. Len(s) = m /\ DOMAIN s = 1 .. m /\ \A n \in 1 .. m : s[n] = UnitAt(a + (n - 1) * Stride)
  BY DEF UnitsFrom
<1>2. s \in Seq(U) /\ u \in U
  <2>1. \A n \in 1 .. m : UnitAt(a + (n - 1) * Stride) \in U
    OBVIOUS
  <2>2. u \in U
    <3>1. m + 1 \in 1 .. m + 1 /\ m + 1 - 1 = m
      OBVIOUS
    <3> QED BY <3>1
  <2> HIDE DEF U
  <2> QED BY <2>1, <2>2 DEF UnitsFrom
<1>3. Append(s, u) = [n \in 1 .. m + 1 |-> IF n = m + 1 THEN u ELSE s[n]]
  <2> HIDE DEF s, u, U
  <2>1. /\ Append(s, u) \in Seq(U) /\ Len(Append(s, u)) = m + 1
        /\ \A n \in 1 .. m + 1 : Append(s, u)[n] = IF n = m + 1 THEN u ELSE s[n]
    BY <1>1, <1>2
  <2>2. \A t \in Seq(U) : t = [n \in 1 .. Len(t) |-> t[n]]
    OBVIOUS
  <2>3. Append(s, u) = [n \in 1 .. m + 1 |-> Append(s, u)[n]]
    BY <2>1, <2>2, Zenon
  <2> QED BY <2>1, <2>3
<1>4. ASSUME NEW n \in 1 .. m + 1
      PROVE  (IF n = m + 1 THEN u ELSE s[n]) = UnitAt(a + (n - 1) * Stride)
  <2>1. CASE n = m + 1
    <3>1. n - 1 = m
      BY <2>1
    <3> QED BY <2>1, <3>1
  <2>2. CASE n # m + 1
    BY <1>1, <2>2
  <2> QED BY <2>1, <2>2
<1> QED BY <1>3, <1>4 DEF UnitsFrom

\* The first m units end at the window, or m - 1 units do.
LEMMA CountUnits ==
  ASSUME NEW f \in Nat, NEW h \in Nat, NEW d \in {1, 2}, NEW m \in Nat \ {0},
         h <= f + m * d, f + (m - 1) * d < h
  PROVE  f < h /\ (h - f + d - 1) \div d = m
<1>1. CASE d = 1
  BY <1>1
<1>2. CASE d = 2
  BY <1>2
<1> QED BY <1>1, <1>2

LEMMA UnitsStay ==
  ASSUME UNCHANGED inputs
  PROVE  /\ \A a, m : UnitsFrom(a, m)' = UnitsFrom(a, m)
         /\ Stride' = Stride /\ FileCount' = FileCount
         /\ lower_address' = lower_address /\ higher_address' = higher_address
BY DEF inputs, UnitsFrom, lower_address, higher_address, LowestBase, HighestEnd,
       EndOf, Stride, Wide, FileCount, UnitAt, ByteAt, PlacesOf, Loadable, LastOf

LEMMA UnitValuesStay ==
  ASSUME UNCHANGED inputs
  PROVE  \A a : UnitAt(a)' = UnitAt(a)
<1>1. sections' = sections /\ format' = format
  BY DEF inputs
<1>2. \A a : PlacesOf(a)' = PlacesOf(a)
  BY <1>1 DEF PlacesOf, Loadable
<1>3. ASSUME NEW a
      PROVE  ByteAt(a)' = ByteAt(a)
  <2>1. PlacesOf(a)' = PlacesOf(a)
    BY <1>2
  <2> QED BY <1>1, <2>1, Zenon DEF ByteAt
<1> QED BY <1>1, <1>3 DEF UnitAt, Wide

-----------------------------------------------------------------------------
\* Raw files.

\* out is the first units of the window of its file, and the cursor is behind
\* them.
RawSoFar ==
  /\ out = UnitsFrom(FirstCell, Len(out))
  /\ address = FirstCell + Len(out) * Stride
  /\ Len(out) > 0 => FirstCell + (Len(out) - 1) * Stride < higher_address

RawInv ==
  /\ ImageInv
  /\ format = "binary" =>
       /\ pc \in {"load", "open", "bytes", "done"}
       /\ out \in Seq(Nat) /\ files \in Seq(Seq(Nat))
       /\ Len(files) = byte_order
       /\ \A k \in 0 .. byte_order - 1 : files[k + 1] = WindowUnits(k)
       /\ pc = "bytes" => RawSoFar
       /\ pc = "done" => byte_order = FileCount

LEMMA RawInitInv == Init => RawInv
<1> SUFFICES ASSUME Init PROVE RawInv
  OBVIOUS
<1>1. pc = "load" /\ byte_order = 0 /\ out = <<>> /\ files = <<>>
  BY DEF Init
<1> QED BY <1>1, ImageInitInv DEF RawInv

LEMMA RawByteAdds ==
  ASSUME RawInv, format = "binary", RawByte
  PROVE  out' \in Seq(Nat) /\ RawSoFar'
<1> DEFINE m == Len(out)
           a == FirstCell
<1>1. /\ out \in Seq(Nat) /\ m \in Nat /\ RawSoFar /\ pc = "bytes"
      /\ word_size \in {1, 2} /\ Stride = word_size /\ ImageInv
  BY DEF RawInv, ImageInv, InputsInv, RawByte, Stride, Wide
<1>2. a \in Nat /\ higher_address \in Nat
  BY <1>1, BoundsAreNumbers DEF ImageInv
<1>3. /\ address = a + m * Stride /\ address < higher_address
      /\ out = UnitsFrom(a, m)
      /\ out' = Append(out, Read8(address)) /\ address' = address + Stride
      /\ byte_order' = byte_order
  BY <1>1 DEF RawByte, RawSoFar
<1>4. UNCHANGED inputs
  BY DEF RawByte
<1>5. address \in Nat
  <2> HIDE DEF a, m
  <2> QED BY <1>1, <1>2, <1>3
<1>6. Read8(address) = UnitAt(address) /\ UnitAt(address) \in Nat
  <2>1. Unit(address) = UnitAt(address) /\ UnitAt(address) \in Nat
    BY <1>1, <1>5, UnitsAreSections
  <2>2. Unit(address) = Read8(address)
    BY DEF Unit, Wide
  <2> QED BY <2>1, <2>2
<1>7. out' = UnitsFrom(a, m + 1)
  <2> HIDE DEF a, m
  <2>1. Append(UnitsFrom(a, m), UnitAt(a + m * Stride)) = UnitsFrom(a, m + 1)
    BY <1>1, <1>2, NextUnit
  <2> QED BY <1>3, <1>6, <2>1
<1>8. out' \in Seq(Nat) /\ Len(out') = m + 1
  BY <1>1, <1>3, <1>6
<1>9. /\ FirstCell' = a /\ Stride' = Stride /\ higher_address' = higher_address
      /\ \A j : UnitsFrom(a, j)' = UnitsFrom(a, j)
  BY <1>3, <1>4, UnitsStay DEF FirstCell
<1>10. out' = UnitsFrom(FirstCell, Len(out))'
  <2>1. PICK j : j = m + 1
    OBVIOUS
  <2>2. PICK b : b = a
    OBVIOUS
  <2>3. UnitsFrom(b, j)' = UnitsFrom(b, j)
    BY <1>9, <2>2, UnitsStay, <1>4
  <2>4. Len(out') = j /\ FirstCell' = b /\ out' = UnitsFrom(b, j)
    BY <1>7, <1>8, <1>9, <2>1, <2>2
  <2>5. UnitsFrom(FirstCell, Len(out))' = UnitsFrom(b, j)'
    BY <2>4
  <2> QED BY <2>3, <2>4, <2>5
<1>11. address' = a + (m + 1) * Stride
  <2> HIDE DEF a, m
  <2> QED BY <1>1, <1>2, <1>3
<1>12. a + ((m + 1) - 1) * Stride < higher_address
  <2> HIDE DEF a, m
  <2>1. (m + 1) - 1 = m
    BY <1>1
  <2> QED BY <1>3, <2>1
<1> QED BY <1>8, <1>9, <1>10, <1>11, <1>12 DEF RawSoFar

LEMMA RawEndCloses ==
  ASSUME RawInv, format = "binary", RawEnd
  PROVE  out = WindowUnits(byte_order) /\ files' = Append(files, out)
<1> DEFINE m == Len(out)
           a == FirstCell
<1>1. /\ out \in Seq(Nat) /\ m \in Nat /\ RawSoFar /\ pc = "bytes"
      /\ word_size \in {1, 2} /\ Stride = word_size /\ InputsInv
  BY DEF RawInv, ImageInv, InputsInv, RawEnd, Stride, Wide
<1>2. a \in Nat /\ higher_address \in Nat /\ a = lower_address + byte_order
  BY <1>1, BoundsAreNumbers DEF FirstCell
<1>3. UnitCount(byte_order) = m
  <2>1. /\ a + m * Stride >= higher_address
        /\ m > 0 => a + (m - 1) * Stride < higher_address
    BY <1>1 DEF RawEnd, RawSoFar
  <2> HIDE DEF a, m
  <2>2. CASE m = 0
    BY <1>1, <1>2, <2>1, <2>2 DEF UnitCount
  <2>3. CASE m # 0
    <3>1. m \in Nat \ {0} /\ a + (m - 1) * Stride < higher_address
      BY <1>1, <2>1, <2>3
    <3>2. /\ a < higher_address
          /\ (higher_address - a + Stride - 1) \div Stride = m
      BY <1>1, <1>2, <2>1, <3>1, CountUnits
    <3> QED BY <1>2, <3>2 DEF UnitCount
  <2> QED BY <2>2, <2>3
<1>4. out = WindowUnits(byte_order)
  BY <1>1, <1>2, <1>3 DEF RawSoFar, WindowUnits
<1>5. files' = Append(files, out \o <<>>)
  BY DEF RawEnd, CloseFile
<1>6. out \o <<>> = out
  BY <1>1
<1> QED BY <1>4, <1>5, <1>6

LEMMA RawNextInv == RawInv /\ [Next]_vars => RawInv'
<1> SUFFICES ASSUME RawInv, [Next]_vars PROVE RawInv'
  OBVIOUS
<1>1. ImageInv' /\ UNCHANGED inputs /\ format' = format
  BY ImageNextInv, StepsKeepInputs DEF RawInv, inputs
<1> SUFFICES ASSUME format = "binary"
             PROVE  /\ pc' \in {"load", "open", "bytes", "done"}
                    /\ out' \in Seq(Nat) /\ files' \in Seq(Seq(Nat))
                    /\ Len(files') = byte_order'
                    /\ \A k \in 0 .. byte_order' - 1 : files'[k + 1] = WindowUnits(k)'
                    /\ pc' = "bytes" => RawSoFar'
                    /\ pc' = "done" => byte_order' = FileCount'
  BY <1>1 DEF RawInv
<1>2. /\ pc \in {"load", "open", "bytes", "done"}
      /\ out \in Seq(Nat) /\ files \in Seq(Seq(Nat)) /\ Len(files) = byte_order
      /\ \A k \in 0 .. byte_order - 1 : files[k + 1] = WindowUnits(k)
      /\ pc = "bytes" => RawSoFar
      /\ pc = "done" => byte_order = FileCount
  BY DEF RawInv
<1>3. ASSUME files' = files, byte_order' = byte_order
      PROVE  \A k \in 0 .. byte_order' - 1 : files'[k + 1] = WindowUnits(k)'
  BY <1>1, <1>2, <1>3, WindowStays
<1>4. FileCount' = FileCount
  BY <1>1, UnitsStay
<1>5. CASE LoadSection \/ LoadChunk \/ EndOfLoad
  <2>1. /\ files' = files /\ byte_order' = byte_order /\ out' = out
        /\ (pc' = pc \/ pc' = "open")
    BY <1>5 DEF LoadSection, LoadChunk, EndOfLoad, writerVars
  <2>2. CASE LoadChunk
    <3>1. data # <<>> /\ pc' = pc
      BY <2>2 DEF LoadChunk, WriteChunk, writerVars
    <3>2. pc = "load"
      BY <3>1 DEF RawInv, ImageInv
    <3> QED BY <1>2, <1>3, <2>1, <3>1, <3>2
  <2>3. CASE LoadSection \/ EndOfLoad
    <3>1. pc' # "bytes" /\ pc' # "done" /\ pc' \in {"load", "open"}
      BY <2>3 DEF LoadSection, EndOfLoad
    <3> QED BY <1>2, <1>3, <2>1, <3>1
  <2> QED BY <1>5, <2>2, <2>3
<1>6. CASE UNCHANGED vars
  <2>1. /\ files' = files /\ byte_order' = byte_order /\ out' = out /\ pc' = pc
        /\ address' = address
    BY <1>6 DEF vars, writerVars, cursor
  <2>2. RawSoFar => RawSoFar'
    <3>1. PICK j : j = Len(out)
      OBVIOUS
    <3>2. PICK b : b = FirstCell
      OBVIOUS
    <3>3. UnitsFrom(b, j)' = UnitsFrom(b, j)
      BY <1>1, UnitsStay
    <3>4. FirstCell' = FirstCell /\ Stride' = Stride /\ higher_address' = higher_address
      BY <1>1, <2>1, UnitsStay DEF FirstCell
    <3>5. UnitsFrom(FirstCell, Len(out))' = UnitsFrom(b, j)'
      BY <2>1, <3>1, <3>2, <3>4
    <3> SUFFICES ASSUME RawSoFar
                 PROVE  /\ out' = UnitsFrom(FirstCell, Len(out))'
                        /\ address' = FirstCell' + Len(out') * Stride'
                        /\ Len(out') > 0 =>
                             FirstCell' + (Len(out') - 1) * Stride' < higher_address'
      BY DEF RawSoFar
    <3>6. /\ out = UnitsFrom(FirstCell, Len(out))
          /\ address = FirstCell + Len(out) * Stride
          /\ Len(out) > 0 => FirstCell + (Len(out) - 1) * Stride < higher_address
      BY DEF RawSoFar
    <3>7. out' = UnitsFrom(FirstCell, Len(out))'
      BY <2>1, <3>1, <3>2, <3>3, <3>5, <3>6
    <3> QED BY <2>1, <3>4, <3>6, <3>7
  <2> QED BY <1>2, <1>3, <1>4, <2>1, <2>2
<1>7. CASE OpenFile
  <2>1. /\ pc = "open" /\ pc' = "bytes" /\ out' = <<>> /\ address' = FirstCell
        /\ files' = files /\ byte_order' = byte_order
    BY <1>7 DEF OpenFile
  <2>2. FirstCell' = FirstCell /\ FirstCell \in Nat
    BY <1>1, <2>1, UnitsStay, BoundsAreNumbers DEF FirstCell, RawInv, ImageInv
  <2>3. UnitsFrom(FirstCell, Len(out))' = <<>>
    <3>1. Len(out') = 0
      BY <2>1
    <3> QED BY <3>1 DEF UnitsFrom
  <2>4. Stride' \in Nat
    BY <1>1 DEF ImageInv, InputsInv, Stride, Wide
  <2>5. RawSoFar'
    <3>1. Len(out') = 0 /\ Len(out') * Stride' = 0
      <4>1. Len(out') = 0
        BY <2>1
      <4>2. \A d \in Nat : 0 * d = 0
        OBVIOUS
      <4>3. 0 * Stride' = 0
        BY <2>4, <4>2, Zenon
      <4> QED BY <4>1, <4>3
    <3>2. /\ out' = UnitsFrom(FirstCell, Len(out))'
          /\ address' = FirstCell' + Len(out') * Stride' /\ ~(Len(out') > 0)
      BY <2>1, <2>2, <2>3, <3>1
    <3> QED BY <3>2 DEF RawSoFar
  <2> QED BY <1>3, <1>2, <2>1, <2>5
<1>8. CASE Finish
  <2>1. /\ pc' = "done" /\ byte_order = FileCount /\ out' = out
        /\ files' = files /\ byte_order' = byte_order
    BY <1>8 DEF Finish
  <2> QED BY <1>2, <1>3, <1>4, <2>1
<1>9. CASE RawByte
  <2>1. pc' = pc /\ pc = "bytes" /\ files' = files /\ byte_order' = byte_order
    BY <1>9 DEF RawByte
  <2>2. out' \in Seq(Nat) /\ RawSoFar'
    BY <1>9, RawByteAdds
  <2> QED BY <1>2, <1>3, <2>1, <2>2
<1>10. CASE RawEnd
  <2>1. out = WindowUnits(byte_order) /\ files' = Append(files, out)
    BY <1>10, RawEndCloses
  <2>2. pc' = "open" /\ out' = out /\ byte_order' = byte_order + 1
    BY <1>10 DEF RawEnd, CloseFile
  <2>3. /\ files' \in Seq(Seq(Nat)) /\ Len(files') = byte_order + 1
        /\ files'[byte_order + 1] = out
        /\ \A n \in 1 .. byte_order : files'[n] = files[n]
    BY <1>2, <2>1
  <2>4. byte_order \in Nat
    BY <1>2
  <2>5. ASSUME NEW k \in 0 .. byte_order' - 1
        PROVE  files'[k + 1] = WindowUnits(k)'
    <3>1. WindowUnits(k)' = WindowUnits(k)
      BY <1>1, WindowStays
    <3>2. k = byte_order \/ k \in 0 .. byte_order - 1
      BY <2>2, <2>4
    <3>3. k \in 0 .. byte_order - 1 => k + 1 \in 1 .. byte_order
      BY <2>4
    <3> QED BY <1>2, <2>1, <2>3, <3>1, <3>2, <3>3
  <2> QED BY <1>2, <2>2, <2>3, <2>5
<1>11. CASE SingleToken \/ StartRun \/ ExtendRun \/ EndRun \/ LogisimEnd
  BY <1>2, <1>11 DEF SingleToken, StartRun, ExtendRun, EndRun, LogisimEnd
<1>12. CASE SkipSection \/ EnterSection \/ WriteRecord \/ LeaveSection \/ HexEnd
  BY <1>2, <1>12 DEF SkipSection, AtSection, EnterSection, WriteRecord, LeaveSection, HexEnd
<1> QED BY <1>5, <1>6, <1>7, <1>8, <1>9, <1>10, <1>11, <1>12 DEF Next, Read

\* Each raw file is the bytes the loaded sections have at the addresses of its
\* parity in the window, in order, whatever the table and the window are
\* (Sections::binary_raw).
THEOREM RawFilesAreTheWindow == Spec => []RawIsTheWindow
<1>1. RawInv => RawIsTheWindow
  <2> SUFFICES ASSUME RawInv, Done, format = "binary", NEW k \in FileNumbers
               PROVE  files[k + 1] = WindowUnits(k)
    BY DEF RawIsTheWindow
  <2>1. byte_order = FileCount /\ \A n \in 0 .. byte_order - 1 : files[n + 1] = WindowUnits(n)
    BY DEF RawInv, Done
  <2> QED BY <2>1 DEF FileNumbers
<1> QED BY <1>1, RawInitInv, RawNextInv, PTL DEF Spec

-----------------------------------------------------------------------------
\* Logisim files.

Token == [count : Nat, value : Nat]

Repeated(x) == [n \in 1 .. x.count |-> x.value]

TokenParts(tokens) == [k \in 1 .. Len(tokens) |-> Repeated(tokens[k])]

LEMMA ExpandIsQueue ==
  ASSUME NEW tokens \in Seq(Token)
  PROVE  \E f : /\ IsQueue(f, TokenParts(tokens), Len(tokens))
                /\ f \in [0 .. Len(tokens) -> Seq(Nat)]
                /\ Expand(tokens) = f[Len(tokens)]
<1> DEFINE n == Len(tokens)
           parts == TokenParts(tokens)
           step(f, k) == IF k = 0 THEN <<>>
                         ELSE f[k - 1] \o [j \in 1 .. tokens[k].count |-> tokens[k].value]
           units == CHOOSE f : f = [k \in 0 .. n |-> step(f, k)]
<1>1. n \in Nat /\ \A k \in 1 .. n : tokens[k] \in Token
  OBVIOUS
<1>2. \A k \in 1 .. n : parts[k] \in Seq(Nat)
  <2> SUFFICES ASSUME NEW k \in 1 .. n
               PROVE  Repeated(tokens[k]) \in Seq(Nat)
    BY DEF TokenParts
  <2>1. tokens[k].count \in Nat /\ tokens[k].value \in Nat
    BY <1>1 DEF Token
  <2> QED BY <2>1 DEF Repeated
<1>3. \A f : IsQueue(f, parts, n) <=> f = [k \in 0 .. n |-> step(f, k)]
  <2> SUFFICES ASSUME NEW f
               PROVE  [k \in 0 .. n |-> IF k = 0 THEN <<>> ELSE f[k - 1] \o parts[k]]
                        = [k \in 0 .. n |-> step(f, k)]
    BY Zenon DEF IsQueue
  <2>1. ASSUME NEW k \in 0 .. n
        PROVE  (IF k = 0 THEN <<>> ELSE f[k - 1] \o parts[k]) = step(f, k)
    <3>1. CASE k = 0
      BY <3>1
    <3>2. CASE k # 0
      <4>1. k \in 1 .. n
        BY <1>1, <3>2
      <4>2. parts[k] = [j \in 1 .. tokens[k].count |-> tokens[k].value]
        BY <4>1 DEF TokenParts, Repeated
      <4> HIDE DEF parts
      <4> QED BY <3>2, <4>2, Zenon
    <3> QED BY <3>1, <3>2
  <2> HIDE DEF step, parts
  <2> QED BY <2>1, Zenon
<1>4. PICK g : IsQueue(g, parts, n) /\ g \in [0 .. n -> Seq(Nat)]
  <2> HIDE DEF n, parts
  <2> QED BY <1>1, <1>2, QueueExists
<1>5. IsQueue(units, parts, n)
  <2> HIDE DEF step
  <2>1. units = [k \in 0 .. n |-> step(units, k)]
    BY <1>3, <1>4, Zenon
  <2> QED BY <1>3, <2>1
<1>6. Expand(tokens) = units[n]
  BY DEF Expand
<1> HIDE DEF units, parts, n
<1>7. units \in [0 .. n -> Seq(Nat)]
  BY <1>1, <1>2, <1>5, QueueType
<1> QED BY <1>5, <1>6, <1>7 DEF parts, n

LEMMA ExpandNothing == Expand(<<>>) = <<>>
<1> DEFINE t == <<>>
<1>1. t \in Seq(Token) /\ Len(t) = 0
  OBVIOUS
<1> HIDE DEF t
<1>2. PICK f : IsQueue(f, TokenParts(t), Len(t)) /\ Expand(t) = f[Len(t)]
  BY <1>1, ExpandIsQueue
<1>3. f[0] = <<>>
  BY <1>1, <1>2, QueueSteps
<1> QED BY <1>1, <1>2, <1>3 DEF t

LEMMA ExpandAppend ==
  ASSUME NEW tokens \in Seq(Token), NEW x \in Token
  PROVE  /\ Expand(Append(tokens, x)) = Expand(tokens) \o Repeated(x)
         /\ Expand(tokens) \in Seq(Nat) /\ Repeated(x) \in Seq(Nat)
<1> DEFINE n == Len(tokens)
           longer == Append(tokens, x)
           s == TokenParts(tokens)
           t == TokenParts(longer)
<1>1. /\ n \in Nat /\ longer \in Seq(Token) /\ Len(longer) = n + 1
      /\ longer[n + 1] = x /\ \A k \in 1 .. n : longer[k] = tokens[k]
  OBVIOUS
<1>2. /\ \A k \in 1 .. n : s[k] = t[k]
      /\ t[n + 1] = Repeated(x)
  BY <1>1 DEF TokenParts
<1>3. PICK f : /\ IsQueue(f, s, n) /\ f \in [0 .. n -> Seq(Nat)]
               /\ Expand(tokens) = f[n]
  BY ExpandIsQueue
<1> HIDE DEF longer
<1>4. PICK g : IsQueue(g, t, n + 1) /\ Expand(longer) = g[n + 1]
  BY <1>1, ExpandIsQueue
<1> HIDE DEF n, s, t
<1>5. f[n] = g[n]
  <2>1. n + 1 \in Nat /\ n <= n + 1 /\ n \in 0 .. n
    BY <1>1
  <2>2. \A k \in 0 .. n : f[k] = g[k]
    <3>1. PICK m \in Nat : m = n + 1
      BY <2>1
    <3>2. n <= m /\ IsQueue(f, s, n) /\ IsQueue(g, t, m) /\ n \in Nat
      BY <1>1, <1>3, <1>4, <2>1, <3>1
    <3>3. Agree(s, t, 1, n)
      BY <1>2 DEF Agree
    <3>4. Agree(f, g, 0, n)
      BY <3>2, <3>3, QueuesAgree, Zenon
    <3> QED BY <3>4 DEF Agree
  <2> QED BY <2>1, <2>2
<1>6. g[n + 1] = g[n] \o t[n + 1]
  <2>1. Extends(g, t, n + 1)
    <3>1. n + 1 \in 1 .. n + 1
      BY <1>1
    <3> QED BY <1>4, <3>1, QueueSteps
  <2> DEFINE k == n + 1
  <2>2. k - 1 = n /\ Extends(g, t, k)
    BY <1>1, <2>1
  <2> HIDE DEF k
  <2>3. g[k] = g[n] \o t[k]
    BY <2>2, Zenon DEF Extends
  <2> QED BY <2>3 DEF k
<1>7. Expand(tokens) \in Seq(Nat)
  <2>1. n \in 0 .. n
    BY <1>1
  <2> QED BY <1>3, <2>1
<1>8. Repeated(x) \in Seq(Nat)
  <2>1. x.count \in Nat /\ x.value \in Nat
    BY DEF Token
  <2> QED BY <2>1 DEF Repeated
<1> QED BY <1>2, <1>3, <1>4, <1>5, <1>6, <1>7, <1>8 DEF longer

\* A token that repeats the unit at each of the next places adds them.
LEMMA TokenAddsUnits ==
  ASSUME NEW a \in Nat, NEW m \in Nat, NEW x \in Token,
         NEW tokens \in Seq(Token), Expand(tokens) = UnitsFrom(a, m),
         \A n \in 0 .. x.count - 1 : UnitAt(a + (m + n) * Stride) = x.value
  PROVE  /\ Expand(Append(tokens, x)) = UnitsFrom(a, m + x.count)
         /\ Len(Expand(Append(tokens, x))) = m + x.count
<1> DEFINE s == UnitsFrom(a, m)
           r == Repeated(x)
           c == x.count
<1>1. /\ s \in Seq(Nat) /\ r \in Seq(Nat) /\ c \in Nat
      /\ Expand(Append(tokens, x)) = s \o r
  BY ExpandAppend DEF Token
<1>2. /\ Len(s) = m /\ Len(r) = c
      /\ \A n \in 1 .. m : s[n] = UnitAt(a + (n - 1) * Stride)
      /\ \A n \in 1 .. c : r[n] = x.value
  BY <1>1 DEF UnitsFrom, Repeated
<1>3. ASSUME NEW n \in 1 .. m + c
      PROVE  (IF n <= m THEN s[n] ELSE r[n - m]) = UnitAt(a + (n - 1) * Stride)
  <2>1. CASE n <= m
    BY <1>2, <2>1
  <2>2. CASE n > m
    <3> DEFINE j == n - m - 1
    <3>1. j \in 0 .. c - 1 /\ n - m \in 1 .. c /\ m + j = n - 1
      BY <1>1, <2>2
    <3>2. UnitAt(a + (m + j) * Stride) = x.value
      BY <3>1
    <3> HIDE DEF j
    <3> QED BY <1>2, <2>2, <3>1, <3>2
  <2> QED BY <2>1, <2>2
<1> HIDE DEF s, r, c
<1>4. Len(s \o r) = m + c
  <2>1. Len(s \o r) = Len(s) + Len(r)
    BY <1>1
  <2> QED BY <1>2, <2>1
<1>5. s \o r = [n \in 1 .. m + c |-> IF n <= m THEN s[n] ELSE r[n - m]]
  <2>1. /\ s \o r \in Seq(Nat) /\ Len(s \o r) = m + c
        /\ \A n \in 1 .. m + c : (s \o r)[n] = IF n <= m THEN s[n] ELSE r[n - m]
    <3>1. /\ s \o r \in Seq(Nat)
          /\ \A n \in 1 .. Len(s) + Len(r) :
               (s \o r)[n] = IF n <= Len(s) THEN s[n] ELSE r[n - Len(s)]
      BY <1>1
    <3> QED BY <1>2, <1>4, <3>1
  <2>2. \A t \in Seq(Nat) : t = [n \in 1 .. Len(t) |-> t[n]]
    OBVIOUS
  <2>3. s \o r = [n \in 1 .. m + c |-> (s \o r)[n]]
    BY <2>1, <2>2, Zenon
  <2> QED BY <2>1, <2>3
<1>6. s \o r = UnitsFrom(a, m + c)
  BY <1>3, <1>5, Zenon DEF UnitsFrom
<1> QED BY <1>1, <1>6, <1>4 DEF c

LogisimFormat == format \in {"logisim8", "logisim16"}

\* The place of the n-th unit of a file, from 0, and its value.
PlaceOf(n) == FirstCell + n * Stride
UnitOf(n) == UnitAt(PlaceOf(n))

\* When the last of m units is past the window, it repeats the one before it,
\* which began a run.
RepeatsPast(m) ==
  PlaceOf(m - 1) >= higher_address =>
    /\ UnitOf(m - 1) = UnitOf(m - 2)
    /\ m > 2 => UnitOf(m - 3) # UnitOf(m - 2)

\* m units are written or counted: a unit is counted only when the one before
\* it, or the first of a run when there are two, is in the window.
Reached(m) == /\ m > 0 => FirstCell < higher_address
              /\ m > 1 => PlaceOf(m - 2) < higher_address /\ RepeatsPast(m)

\* Behind m units in tokens the next unit is another value, unless the window
\* is over and the last unit ended a run.
Settled(m) ==
  m > 0 => \/ UnitOf(m) # UnitOf(m - 1)
           \/ /\ PlaceOf(m) >= higher_address
              /\ m > 1 /\ UnitOf(m - 2) = UnitOf(m - 1)

\* The tokens out stand for the first m units of the window of their file.
Tokens(m) == /\ out \in Seq(Token)
             /\ Expand(out) = UnitsFrom(FirstCell, m)

\* The cursor is behind m units and, in a run, those that it counts.
TokensSoFar ==
  \E m \in Nat :
    /\ Tokens(m)
    /\ pc = "token" => address = FirstCell + m * Stride /\ Reached(m) /\ Settled(m)
    /\ pc = "run" =>
         /\ run \in Token /\ run.count >= 2
         /\ address = FirstCell + (m + run.count) * Stride
         /\ Reached(m + run.count)
         /\ \A n \in 0 .. run.count - 1 :
              UnitAt(FirstCell + (m + n) * Stride) = run.value

\* How many units LogisimCoversTheWindow says file k has.
UnitsWritten(k) == UnitCount(k) + IF EqualUnitFollows(k) THEN 1 ELSE 0

Covers(k, tokens) == Expand(tokens) = UnitsFrom(lower_address + k, UnitsWritten(k))

LogisimInv ==
  /\ ImageInv
  /\ LogisimFormat =>
       /\ pc \in {"load", "open", "token", "run", "done"}
       /\ files \in Seq(Seq(Token)) /\ out \in Seq(Token)
       /\ Len(files) = byte_order
       /\ \A k \in 0 .. byte_order - 1 : Covers(k, files[k + 1])
       /\ pc \in {"token", "run"} => TokensSoFar
       /\ pc = "done" => byte_order = FileCount

LEMMA LogisimInitInv == Init => LogisimInv
<1> SUFFICES ASSUME Init PROVE LogisimInv
  OBVIOUS
<1>1. pc = "load" /\ byte_order = 0 /\ out = <<>> /\ files = <<>>
  BY DEF Init
<1> QED BY <1>1, ImageInitInv DEF LogisimInv

\* What the steps of the writer compute with.
LEMMA LogisimState ==
  ASSUME LogisimInv, LogisimFormat, pc \in {"token", "run"}
  PROVE  /\ FirstCell \in Nat /\ higher_address \in Nat /\ Stride \in {1, 2}
         /\ TokensSoFar /\ ImageInv
<1>1. InputsInv
  BY DEF LogisimInv, ImageInv
<1> QED BY <1>1, BoundsAreNumbers DEF LogisimInv, InputsInv, Stride, Wide

\* What is said of the next state, in terms of this one.
LEMMA TokensNext ==
  ASSUME UNCHANGED inputs, byte_order' = byte_order,
         NEW m \in Nat, NEW tokens, NEW r, NEW place,
         tokens \in Seq(Token), Expand(tokens) = UnitsFrom(FirstCell, m),
         out' = tokens, run' = r, address' = place,
         pc' = "token" => place = FirstCell + m * Stride /\ Reached(m) /\ Settled(m),
         pc' = "run" =>
           /\ r \in Token /\ r.count >= 2
           /\ place = FirstCell + (m + r.count) * Stride
           /\ Reached(m + r.count)
           /\ \A n \in 0 .. r.count - 1 : UnitAt(FirstCell + (m + n) * Stride) = r.value
  PROVE  TokensSoFar'
<1>1. /\ FirstCell' = FirstCell /\ Stride' = Stride /\ higher_address' = higher_address
      /\ \A a, j : UnitsFrom(a, j)' = UnitsFrom(a, j)
  BY UnitsStay DEF FirstCell
<1>2. \A a : UnitAt(a)' = UnitAt(a)
  BY UnitValuesStay
<1>3. Tokens(m)'
  <2>1. PICK b : b = FirstCell
    OBVIOUS
  <2>2. UnitsFrom(FirstCell, m)' = UnitsFrom(b, m)'
    BY <1>1, <2>1
  <2>3. UnitsFrom(b, m)' = UnitsFrom(b, m)
    BY UnitsStay
  <2>4. Expand(out)' = Expand(tokens)
    BY DEF Expand
  <2> QED BY <2>1, <2>2, <2>3, <2>4 DEF Tokens
<1>4. \A j : Reached(j)' = Reached(j) /\ Settled(j)' = Settled(j)
  <2>1. \A j : PlaceOf(j)' = PlaceOf(j)
    BY <1>1 DEF PlaceOf
  <2>2. \A j : UnitOf(j)' = UnitOf(j)
    <3> SUFFICES ASSUME NEW j PROVE UnitOf(j)' = UnitOf(j)
      OBVIOUS
    <3>1. PICK b : b = PlaceOf(j)
      OBVIOUS
    <3>2. UnitOf(j)' = UnitAt(b)'
      BY <2>1, <3>1 DEF UnitOf
    <3> QED BY <1>2, <3>1, <3>2 DEF UnitOf
  <2> QED BY <1>1, <2>1, <2>2 DEF Reached, RepeatsPast, Settled
<1>5. pc' = "token" => address' = FirstCell' + m * Stride' /\ Reached(m)' /\ Settled(m)'
  <2>1. Reached(m)' = Reached(m) /\ Settled(m)' = Settled(m)
    BY <1>4
  <2> QED BY <1>1, <2>1
<1>6. pc' = "run" =>
        /\ run' \in Token /\ run'.count >= 2
        /\ address' = FirstCell' + (m + run'.count) * Stride'
        /\ Reached(m + run.count)'
        /\ \A n \in 0 .. run'.count - 1 :
             UnitAt(FirstCell + (m + n) * Stride)' = run'.value
  <2> SUFFICES ASSUME pc' = "run"
               PROVE  /\ Reached(m + run.count)'
                      /\ \A n \in 0 .. r.count - 1 :
                           UnitAt(FirstCell + (m + n) * Stride)' = r.value
    BY <1>1
  <2>1. PICK j : j = m + r.count
    OBVIOUS
  <2>2. Reached(m + run.count)' = Reached(j)'
    BY <2>1 DEF Reached, RepeatsPast, UnitOf, PlaceOf
  <2>3. Reached(j)' = Reached(j) /\ Reached(j)
    BY <1>4, <2>1
  <2>4. ASSUME NEW n \in 0 .. r.count - 1
        PROVE  UnitAt(FirstCell + (m + n) * Stride)' = r.value
    <3>1. PICK b : b = FirstCell + (m + n) * Stride
      OBVIOUS
    <3>2. UnitAt(b)' = UnitAt(b) /\ UnitAt(b) = r.value
      BY <1>2, <3>1
    <3>3. UnitAt(FirstCell + (m + n) * Stride)' = UnitAt(b)'
      BY <1>1, <3>1
    <3> QED BY <3>2, <3>3
  <2> QED BY <2>2, <2>3, <2>4
<1> QED BY <1>3, <1>5, <1>6 DEF TokensSoFar

LEMMA SingleTokenAdds ==
  ASSUME LogisimInv, LogisimFormat, SingleToken
  PROVE  TokensSoFar' /\ out' \in Seq(Token)
<1> DEFINE a == FirstCell
           d == Stride
           x == [count |-> 1, value |-> Unit(address)]
<1>1. /\ a \in Nat /\ higher_address \in Nat /\ d \in {1, 2} /\ TokensSoFar /\ ImageInv
      /\ pc = "token" /\ pc' = "token" /\ address < higher_address
      /\ out' = Append(out, x) /\ address' = address + d
      /\ Unit(address + d) # Unit(address)
      /\ UNCHANGED inputs /\ byte_order' = byte_order /\ run' = run
  BY LogisimState DEF SingleToken
<1>2. PICK m \in Nat : /\ out \in Seq(Token) /\ Expand(out) = UnitsFrom(a, m)
                       /\ address = a + m * d
  BY <1>1 DEF TokensSoFar, Tokens
<1>3. address \in Nat
  <2> HIDE DEF a, d
  <2> QED BY <1>1, <1>2
<1>4. Unit(address) = UnitAt(address) /\ UnitAt(address) \in Nat
  BY <1>1, <1>3, UnitsAreSections
<1>5. x \in Token /\ x.count = 1 /\ x.value = UnitAt(a + m * d)
  BY <1>2, <1>4 DEF Token
<1> HIDE DEF a, d, x
<1>6. /\ \A n \in 0 .. x.count - 1 : UnitAt(a + (m + n) * Stride) = x.value
  <2> SUFFICES ASSUME NEW n \in 0 .. x.count - 1
               PROVE  UnitAt(a + (m + n) * Stride) = x.value
    OBVIOUS
  <2>1. n = 0 /\ m + n = m
    BY <1>5
  <2> QED BY <1>5, <2>1 DEF d
<1>7. Expand(out') = UnitsFrom(a, m + 1)
  <2>1. Expand(Append(out, x)) = UnitsFrom(a, m + x.count)
    BY <1>1, <1>2, <1>5, <1>6, TokenAddsUnits
  <2> QED BY <1>1, <1>5, <2>1
<1>8. out' \in Seq(Token)
  BY <1>1, <1>2, <1>5
<1>9. m + 1 \in Nat /\ address + d = a + (m + 1) * d
  BY <1>1, <1>2
<1>10. Reached(m + 1)
  <2>1. a < higher_address
    BY <1>1, <1>2
  <2>2. PICK k \in Nat : k = m + 1
    BY <1>1, <1>2
  <2>3. a + (k - 1) * d < higher_address
    BY <1>1, <1>2, <2>2
  <2>4. a + (k - 2) * d < higher_address
    <3>1. (k - 2) * d <= (k - 1) * d /\ (k - 2) * d \in Int /\ (k - 1) * d \in Int
      BY <1>1, <2>2
    <3> QED BY <1>1, <2>3, <3>1
  <2>5. Reached(k)
    BY <1>1, <2>1, <2>3, <2>4 DEF Reached, RepeatsPast, PlaceOf, a, d
  <2> QED BY <2>2, <2>5
<1>12. Settled(m + 1)
  <2>1. Unit(address + d) = UnitAt(address + d)
    <3>1. address + d \in Nat
      BY <1>1, <1>3
    <3> QED BY <1>1, <3>1, UnitsAreSections
  <2>2. PICK k \in Nat : k = m + 1
    BY <1>1, <1>2
  <2>3. PlaceOf(k - 1) = address /\ PlaceOf(k) = address + d
    BY <1>2, <1>9, <2>2 DEF PlaceOf, a, d
  <2>4. Settled(k)
    BY <1>1, <1>4, <2>1, <2>3 DEF Settled, UnitOf
  <2> QED BY <2>2, <2>4
<1>11. TokensSoFar'
  <2> DEFINE place == address + d
             tokens == out'
  <2>1. /\ tokens \in Seq(Token) /\ Expand(tokens) = UnitsFrom(FirstCell, m + 1)
        /\ place = FirstCell + (m + 1) * Stride
    BY <1>7, <1>8, <1>9 DEF a, d
  <2>2. address' = place /\ out' = tokens /\ pc' # "run"
    BY <1>1
  <2> HIDE DEF place, tokens
  <2> QED BY <1>1, <1>9, <1>10, <1>12, <2>1, <2>2, TokensNext
<1> QED BY <1>8, <1>11

LEMMA StartRunCounts ==
  ASSUME LogisimInv, LogisimFormat, StartRun
  PROVE  TokensSoFar' /\ out' \in Seq(Token)
<1> DEFINE a == FirstCell
           d == Stride
           r == NewRun
<1>1. /\ a \in Nat /\ higher_address \in Nat /\ d \in {1, 2} /\ TokensSoFar /\ ImageInv
      /\ pc = "token" /\ pc' = "run" /\ address < higher_address
      /\ out' = out /\ address' = address + 2 * d
      /\ Unit(address + d) = Unit(address) /\ run' = r
      /\ UNCHANGED inputs /\ byte_order' = byte_order
  BY LogisimState DEF StartRun
<1>2. PICK m \in Nat : /\ out \in Seq(Token) /\ Expand(out) = UnitsFrom(a, m)
                       /\ address = a + m * d /\ Settled(m)
  BY <1>1 DEF TokensSoFar, Tokens
<1>3. address \in Nat /\ address + d \in Nat /\ address + d = a + (m + 1) * d
  <2> HIDE DEF a, d
  <2> QED BY <1>1, <1>2
<1>4. /\ Unit(address) = UnitAt(address) /\ UnitAt(address) \in Nat
      /\ Unit(address + d) = UnitAt(address + d)
  <2> HIDE DEF d
  <2> QED BY <1>1, <1>3, UnitsAreSections
<1>5. /\ r \in Token /\ r.count = 2
      /\ r.value = UnitAt(a + m * d) /\ r.value = UnitAt(a + (m + 1) * d)
  BY <1>1, <1>2, <1>3, <1>4 DEF Token, NewRun
<1> HIDE DEF a, d, r
<1>6. \A n \in 0 .. r.count - 1 : UnitAt(a + (m + n) * d) = r.value
  <2> SUFFICES ASSUME NEW n \in 0 .. r.count - 1
               PROVE  UnitAt(a + (m + n) * d) = r.value
    OBVIOUS
  <2>1. CASE n = 0
    <3>1. m + n = m
      BY <2>1
    <3> QED BY <1>5, <3>1
  <2>2. CASE n = 1
    BY <1>5, <2>2
  <2> QED BY <1>5, <2>1, <2>2
<1>7. address + 2 * d = a + (m + r.count) * d
  BY <1>1, <1>2, <1>5
<1>8. Reached(m + r.count)
  <2>1. a < higher_address
    BY <1>1, <1>2
  <2>2. PICK k \in Nat : k = m + 2
    BY <1>2
  <2>3. /\ k - 1 = m + 1 /\ k - 2 = m /\ k - 3 = m - 1 /\ (k > 2 <=> m > 0)
        /\ m + r.count = k
    BY <1>5, <2>2
  <2>4. PlaceOf(m) = address /\ PlaceOf(m) < higher_address
    BY <1>1, <1>2 DEF PlaceOf, a, d
  <2>5. UnitOf(m + 1) = UnitOf(m)
    BY <1>5 DEF UnitOf, PlaceOf, a, d
  <2>6. m > 0 => UnitOf(m) # UnitOf(m - 1)
    BY <1>1, <1>2, <2>4 DEF Settled
  <2>7. Reached(k)
    BY <2>1, <2>3, <2>4, <2>5, <2>6 DEF Reached, RepeatsPast, a
  <2> QED BY <2>3, <2>7
<1>9. TokensSoFar'
  <2> DEFINE place == address + 2 * d
  <2>1. /\ Expand(out) = UnitsFrom(FirstCell, m)
        /\ place = FirstCell + (m + r.count) * Stride
        /\ \A n \in 0 .. r.count - 1 : UnitAt(FirstCell + (m + n) * Stride) = r.value
    BY <1>2, <1>6, <1>7 DEF a, d
  <2>2. address' = place /\ pc' # "token" /\ r.count >= 2
    BY <1>1, <1>5
  <2> HIDE DEF place
  <2> QED BY <1>1, <1>2, <1>5, <1>8, <2>1, <2>2, TokensNext
<1> QED BY <1>1, <1>2, <1>9

LEMMA ExtendRunCounts ==
  ASSUME LogisimInv, LogisimFormat, ExtendRun
  PROVE  TokensSoFar' /\ out' \in Seq(Token)
<1> DEFINE a == FirstCell
           d == Stride
           c == run.count
           r == [run EXCEPT !.count = @ + 1]
<1>1. /\ a \in Nat /\ higher_address \in Nat /\ d \in {1, 2} /\ TokensSoFar /\ ImageInv
      /\ pc = "run" /\ pc' = "run" /\ address < higher_address
      /\ out' = out /\ address' = address + d
      /\ Unit(address) = run.value /\ run' = r
      /\ UNCHANGED inputs /\ byte_order' = byte_order
  BY LogisimState DEF ExtendRun, InRun
<1>2. PICK m \in Nat :
        /\ out \in Seq(Token) /\ Expand(out) = UnitsFrom(a, m)
        /\ run \in Token /\ c >= 2
        /\ address = a + (m + c) * d
        /\ \A n \in 0 .. c - 1 : UnitAt(a + (m + n) * d) = run.value
  BY <1>1 DEF TokensSoFar, Tokens
<1>3. c \in Nat /\ address \in Nat
  <2>1. c \in Nat
    BY <1>2 DEF Token
  <2> HIDE DEF a, c, d
  <2> QED BY <1>1, <1>2, <2>1
<1>4. UnitAt(address) = run.value
  BY <1>1, <1>3, UnitsAreSections
<1>5. r \in Token /\ r.count = c + 1 /\ r.value = run.value
  BY <1>2, <1>3 DEF Token
<1> HIDE DEF a, d, r, c
<1>6. \A n \in 0 .. r.count - 1 : UnitAt(a + (m + n) * d) = r.value
  <2> SUFFICES ASSUME NEW n \in 0 .. r.count - 1
               PROVE  UnitAt(a + (m + n) * d) = r.value
    OBVIOUS
  <2>1. CASE n = c
    BY <1>2, <1>4, <1>5, <2>1
  <2>2. CASE n # c
    <3>1. n \in 0 .. c - 1
      BY <1>3, <1>5, <2>2
    <3> QED BY <1>2, <1>5, <3>1
  <2> QED BY <2>1, <2>2
<1>7. address + d = a + (m + r.count) * d
  BY <1>1, <1>2, <1>3, <1>5
<1>8. Reached(m + r.count)
  <2>1. a < higher_address
    BY <1>1, <1>2, <1>3
  <2>2. PICK k \in Nat : k = m + c
    BY <1>3
  <2>3. address = a + k * d /\ m + r.count = k + 1
    BY <1>2, <1>3, <1>5, <2>2
  <2>4. PICK j \in Nat : j = k + 1
    OBVIOUS
  <2>5. a + (j - 1) * d < higher_address
    BY <1>1, <2>3, <2>4
  <2>6. a + (j - 2) * d < higher_address
    <3>1. (j - 2) * d <= (j - 1) * d /\ (j - 2) * d \in Int /\ (j - 1) * d \in Int
      BY <1>1, <2>4
    <3> QED BY <1>1, <2>5, <3>1
  <2>7. Reached(j)
    BY <1>1, <2>1, <2>5, <2>6 DEF Reached, RepeatsPast, PlaceOf, a, d
  <2> QED BY <2>3, <2>4, <2>7
<1>9. TokensSoFar'
  <2> DEFINE place == address + d
  <2>1. /\ Expand(out) = UnitsFrom(FirstCell, m)
        /\ place = FirstCell + (m + r.count) * Stride
        /\ \A n \in 0 .. r.count - 1 : UnitAt(FirstCell + (m + n) * Stride) = r.value
    BY <1>2, <1>6, <1>7 DEF a, d
  <2>2. address' = place /\ pc' # "token" /\ r.count >= 2
    BY <1>1, <1>2, <1>3, <1>5
  <2> HIDE DEF place
  <2> QED BY <1>1, <1>2, <1>5, <1>8, <2>1, <2>2, TokensNext
<1> QED BY <1>1, <1>2, <1>9

LEMMA EndRunAdds ==
  ASSUME LogisimInv, LogisimFormat, EndRun
  PROVE  TokensSoFar' /\ out' \in Seq(Token)
<1> DEFINE a == FirstCell
           d == Stride
           c == run.count
           r == run
<1>1. /\ a \in Nat /\ higher_address \in Nat /\ d \in {1, 2} /\ TokensSoFar
      /\ pc = "run" /\ pc' = "token"
      /\ out' = Append(out, r) /\ address' = address /\ run' = r
      /\ UNCHANGED inputs /\ byte_order' = byte_order
      /\ higher_address \in Nat /\ d \in {1, 2} /\ a \in Nat /\ ImageInv
      /\ address < higher_address => Unit(address) # run.value
  BY LogisimState DEF EndRun, InRun, cursor
<1>2. PICK m \in Nat :
        /\ out \in Seq(Token) /\ Expand(out) = UnitsFrom(a, m)
        /\ run \in Token /\ c >= 2
        /\ address = a + (m + c) * d /\ Reached(m + c)
        /\ \A n \in 0 .. c - 1 : UnitAt(a + (m + n) * Stride) = run.value
  BY <1>1 DEF TokensSoFar, Tokens
<1>3. c \in Nat /\ m + c \in Nat
  BY <1>2 DEF Token
<1> HIDE DEF a, d
<1>4. Expand(out') = UnitsFrom(a, m + c)
  BY <1>1, <1>2, TokenAddsUnits
<1>5. out' \in Seq(Token)
  BY <1>1, <1>2
<1>6. TokensSoFar'
  <2> DEFINE tokens == out'
             place == address
             n == m + c
  <2>1. /\ tokens \in Seq(Token) /\ Expand(tokens) = UnitsFrom(FirstCell, n)
        /\ place = FirstCell + n * Stride /\ n \in Nat /\ Reached(n)
    BY <1>2, <1>3, <1>4, <1>5 DEF a, d
  <2>2. address' = place /\ out' = tokens /\ pc' # "run" /\ run' = r
    BY <1>1
  <2>3. Settled(n)
    <3> HIDE DEF n
    <3>1. n \in Nat /\ n > 1 /\ n - 1 = m + (c - 1) /\ n - 2 = m + (c - 2)
      BY <1>2, <1>3 DEF n
    <3>2. UnitOf(n - 1) = run.value /\ UnitOf(n - 2) = run.value
      <4>1. c - 1 \in 0 .. c - 1 /\ c - 2 \in 0 .. c - 1
        BY <1>2, <1>3
      <4> QED BY <1>2, <3>1, <4>1 DEF UnitOf, PlaceOf, a
    <3>3. PlaceOf(n) = address
      BY <2>1 DEF PlaceOf, place
    <3>4. address \in Nat
      BY <1>1, <2>1, <3>1 DEF place, a, d
    <3>5. address < higher_address => UnitOf(n) # run.value
      BY <1>1, <3>3, <3>4, UnitsAreSections DEF UnitOf
    <3> QED BY <1>1, <3>1, <3>2, <3>3, <3>4, <3>5 DEF Settled
  <2> HIDE DEF tokens, place, n, r
  <2> QED BY <1>1, <2>1, <2>2, <2>3, TokensNext
<1> QED BY <1>5, <1>6

LEMMA LogisimEndCloses ==
  ASSUME LogisimInv, LogisimFormat, LogisimEnd
  PROVE  Covers(byte_order, out) /\ files' = Append(files, out)
<1> DEFINE a == FirstCell
           d == Stride
           h == higher_address
<1>1. /\ a \in Nat /\ h \in Nat /\ d \in {1, 2} /\ TokensSoFar /\ ImageInv
      /\ pc = "token" /\ address >= h /\ byte_order \in Nat
      /\ a = lower_address + byte_order
  BY LogisimState DEF LogisimEnd, ImageInv, InputsInv, FirstCell
<1>2. PICK m \in Nat : /\ out \in Seq(Token) /\ Expand(out) = UnitsFrom(a, m)
                       /\ address = a + m * d /\ Reached(m) /\ Settled(m)
  BY <1>1 DEF TokensSoFar, Tokens
<1>3. UnitCount(byte_order) = IF h <= a THEN 0 ELSE (h - a + d - 1) \div d
  BY <1>1 DEF UnitCount
<1>4. EqualUnitFollows(byte_order) <=>
        /\ UnitCount(byte_order) > 0
        /\ UnitAt(PlaceOf(UnitCount(byte_order) - 1) + d) = UnitOf(UnitCount(byte_order) - 1)
        /\ UnitCount(byte_order) > 1 =>
             UnitAt(PlaceOf(UnitCount(byte_order) - 1) - d) # UnitOf(UnitCount(byte_order) - 1)
  BY <1>1, Zenon DEF EqualUnitFollows, UnitOf, PlaceOf
<1>5. \A n \in Nat : /\ PlaceOf(n - 1) + d = PlaceOf(n)
                     /\ PlaceOf(n - 1) - d = PlaceOf(n - 2)
                     /\ PlaceOf(n) = a + n * d
  <2> HIDE DEF a, d
  <2> SUFFICES ASSUME NEW n \in Nat
               PROVE  /\ PlaceOf(n - 1) + d = PlaceOf(n)
                      /\ PlaceOf(n - 1) - d = PlaceOf(n - 2)
                      /\ PlaceOf(n) = a + n * d
    OBVIOUS
  <2>2. /\ PlaceOf(n) = a + n * d /\ PlaceOf(n - 1) = a + (n - 1) * d
        /\ PlaceOf(n - 2) = a + (n - 2) * d
    BY DEF PlaceOf, a, d
  <2>3. PICK x, y, z : /\ x = a + (n - 2) * d /\ y = a + (n - 1) * d /\ z = a + n * d
    OBVIOUS
  <2>4. PlaceOf(n) = z /\ PlaceOf(n - 1) = y /\ PlaceOf(n - 2) = x
    BY <2>2, <2>3, Zenon
  <2>5. y + d = z /\ y - d = x
    <3>1. CASE d = 1
      BY <1>1, <2>3, <3>1
    <3>2. CASE d = 2
      BY <1>1, <2>3, <3>2
    <3> QED BY <1>1, <3>1, <3>2
  <2> QED BY <2>3, <2>4, <2>5
<1>6. UnitsWritten(byte_order) = m
  <2> HIDE DEF a, d, h
  <2>1. h <= a + m * d
    BY <1>1, <1>2
  <2>2. CASE m = 0
    <3>1. UnitCount(byte_order) = 0
      BY <1>1, <1>3, <2>1, <2>2
    <3> QED BY <1>4, <2>2, <3>1 DEF UnitsWritten
  <2>3. CASE m # 0 /\ a + (m - 1) * d < h
    <3>1. m \in Nat \ {0}
      BY <2>3
    <3>2. UnitCount(byte_order) = m
      <4>1. a < h /\ (h - a + d - 1) \div d = m
        BY <1>1, <2>1, <2>3, <3>1, CountUnits
      <4> QED BY <1>1, <1>3, <4>1
    <3>3. UnitOf(m) # UnitOf(m - 1) \/ (m > 1 /\ UnitOf(m - 2) = UnitOf(m - 1))
      BY <1>2, <3>1 DEF Settled
    <3>4. UnitAt(PlaceOf(m - 1) + d) = UnitOf(m) /\ UnitAt(PlaceOf(m - 1) - d) = UnitOf(m - 2)
      BY <1>5 DEF UnitOf
    <3>5. ~EqualUnitFollows(byte_order)
      BY <1>4, <3>2, <3>3, <3>4
    <3> QED BY <3>1, <3>2, <3>5 DEF UnitsWritten
  <2>4. CASE m # 0 /\ ~(a + (m - 1) * d < h)
    <3>1. m > 1
      <4>1. CASE m = 1
        <5>1. a < h
          BY <1>2, <2>4 DEF Reached, a, h
        <5> QED BY <1>1, <2>4, <4>1, <5>1
      <4> QED BY <2>4, <4>1
    <3>2. PICK j \in Nat \ {0} : m = j + 1
      <4>1. m - 1 \in Nat \ {0} /\ m = (m - 1) + 1
        BY <3>1
      <4> QED BY <4>1
    <3>3. m - 1 = j /\ m - 2 = j - 1 /\ m - 3 = j - 2 /\ (m > 2 <=> j > 1)
      BY <3>2
    <3>4. a + j * d \in Int /\ h <= a + j * d
      BY <1>1, <2>4, <3>3
    <3>5. PlaceOf(m - 2) < h /\ RepeatsPast(m)
      BY <1>2, <3>1 DEF Reached, h
    <3>6. a + (j - 1) * d < h
      BY <3>3, <3>5 DEF PlaceOf, a, d
    <3>7. UnitCount(byte_order) = j
      <4>1. a < h /\ (h - a + d - 1) \div d = j
        BY <1>1, <3>4, <3>6, CountUnits
      <4> QED BY <1>1, <1>3, <4>1
    <3>8. PlaceOf(m - 1) >= h
      BY <1>1, <1>5, <3>3, <3>4
    <3>9. UnitOf(j) = UnitOf(j - 1) /\ (j > 1 => UnitOf(j - 2) # UnitOf(j - 1))
      BY <3>3, <3>5, <3>8 DEF RepeatsPast, h
    <3>10. UnitAt(PlaceOf(j - 1) + d) = UnitOf(j) /\ UnitAt(PlaceOf(j - 1) - d) = UnitOf(j - 2)
      BY <1>5 DEF UnitOf
    <3>11. EqualUnitFollows(byte_order)
      BY <1>4, <3>7, <3>9, <3>10
    <3> QED BY <3>2, <3>7, <3>11 DEF UnitsWritten
  <2> QED BY <2>2, <2>3, <2>4
<1>8. Covers(byte_order, out)
  BY <1>1, <1>2, <1>6 DEF Covers
<1>7. files' = Append(files, out \o <<>>) /\ out \o <<>> = out
  <2>1. files' = Append(files, out \o <<>>)
    BY DEF LogisimEnd, CloseFile
  <2>2. \A t \in Seq(Token) : t \o <<>> = t
    OBVIOUS
  <2> QED BY <1>2, <2>1, <2>2
<1> QED BY <1>7, <1>8

LEMMA CoversStays ==
  ASSUME UNCHANGED inputs
  PROVE  \A k, t : Covers(k, t)' = Covers(k, t)
<1>1. \A k : UnitsWritten(k)' = UnitsWritten(k)
  <2>1. /\ lower_address' = lower_address /\ higher_address' = higher_address
        /\ Stride' = Stride /\ \A x : UnitAt(x)' = UnitAt(x)
    BY UnitsStay, UnitValuesStay
  <2> QED BY <2>1 DEF UnitsWritten, UnitCount, EqualUnitFollows
<1>2. \A t : Expand(t)' = Expand(t)
  BY DEF Expand
<1>3. ASSUME NEW k, NEW t
      PROVE  Covers(k, t)' = Covers(k, t)
  <2>1. PICK a, m : a = lower_address + k /\ m = UnitsWritten(k)
    OBVIOUS
  <2>2. lower_address' + k = a /\ UnitsWritten(k)' = m
    BY <1>1, <2>1, UnitsStay
  <2>3. UnitsFrom(a, m)' = UnitsFrom(a, m)
    BY UnitsStay
  <2>4. UnitsFrom(lower_address + k, UnitsWritten(k))' = UnitsFrom(a, m)'
    BY <2>2 DEF UnitsFrom
  <2> QED BY <1>2, <2>1, <2>3, <2>4, Zenon DEF Covers
<1> QED BY <1>3

LEMMA LogisimNextInv == LogisimInv /\ [Next]_vars => LogisimInv'
<1> SUFFICES ASSUME LogisimInv, [Next]_vars PROVE LogisimInv'
  OBVIOUS
<1>1. ImageInv' /\ UNCHANGED inputs /\ format' = format
  BY ImageNextInv, StepsKeepInputs DEF LogisimInv, inputs
<1> SUFFICES ASSUME LogisimFormat
             PROVE  /\ pc' \in {"load", "open", "token", "run", "done"}
                    /\ files' \in Seq(Seq(Token)) /\ out' \in Seq(Token)
                    /\ Len(files') = byte_order'
                    /\ \A k \in 0 .. byte_order' - 1 : Covers(k, files[k + 1])'
                    /\ pc' \in {"token", "run"} => TokensSoFar'
                    /\ pc' = "done" => byte_order' = FileCount'
  BY <1>1 DEF LogisimInv, LogisimFormat
<1>2. /\ pc \in {"load", "open", "token", "run", "done"}
      /\ files \in Seq(Seq(Token)) /\ out \in Seq(Token) /\ Len(files) = byte_order
      /\ \A k \in 0 .. byte_order - 1 : Covers(k, files[k + 1])
      /\ pc \in {"token", "run"} => TokensSoFar
      /\ pc = "done" => byte_order = FileCount
  BY DEF LogisimInv
<1>3. ASSUME files' = files, byte_order' = byte_order
      PROVE  \A k \in 0 .. byte_order' - 1 : Covers(k, files[k + 1])'
  <2> SUFFICES ASSUME NEW k \in 0 .. byte_order - 1 PROVE Covers(k, files[k + 1])'
    BY <1>3
  <2>1. PICK t : t = files[k + 1]
    OBVIOUS
  <2>2. Covers(k, t)
    BY <1>2, <2>1
  <2>3. Covers(k, t)'
    BY <1>1, <2>2, CoversStays
  <2>4. Covers(k, files[k + 1])' = Covers(k, t)'
    BY <1>3, <2>1 DEF Covers
  <2> QED BY <2>3, <2>4
<1>4. FileCount' = FileCount
  BY <1>1, UnitsStay
<1>5. CASE LoadSection \/ LoadChunk \/ EndOfLoad
  <2>1. /\ files' = files /\ byte_order' = byte_order /\ out' = out
    BY <1>5 DEF LoadSection, LoadChunk, EndOfLoad, writerVars
  <2>2. CASE LoadChunk
    <3>1. data # <<>> /\ pc' = pc
      BY <2>2 DEF LoadChunk, WriteChunk, writerVars
    <3>2. pc = "load"
      BY <3>1 DEF LogisimInv, ImageInv
    <3> QED BY <1>2, <1>3, <2>1, <3>1, <3>2
  <2>3. CASE LoadSection \/ EndOfLoad
    <3>1. pc' \in {"load", "open"}
      BY <2>3 DEF LoadSection, EndOfLoad
    <3> QED BY <1>2, <1>3, <2>1, <3>1
  <2> QED BY <1>5, <2>2, <2>3
<1>6. CASE UNCHANGED vars
  <2>1. /\ files' = files /\ byte_order' = byte_order /\ out' = out /\ pc' = pc
        /\ address' = address /\ run' = run
    BY <1>6 DEF vars, writerVars, cursor
  <2>2. TokensSoFar => TokensSoFar'
    <3> SUFFICES ASSUME TokensSoFar PROVE TokensSoFar'
      OBVIOUS
    <3>1. PICK m \in Nat :
            /\ Tokens(m)
            /\ pc = "token" => address = FirstCell + m * Stride /\ Reached(m) /\ Settled(m)
            /\ pc = "run" =>
                 /\ run \in Token /\ run.count >= 2
                 /\ address = FirstCell + (m + run.count) * Stride
                 /\ Reached(m + run.count)
                 /\ \A n \in 0 .. run.count - 1 :
                      UnitAt(FirstCell + (m + n) * Stride) = run.value
      BY DEF TokensSoFar
    <3> DEFINE tokens == out
               r == run
               place == address
    <3>2. /\ tokens \in Seq(Token) /\ Expand(tokens) = UnitsFrom(FirstCell, m)
          /\ out' = tokens /\ run' = r /\ address' = place
      BY <2>1, <3>1 DEF Tokens
    <3>3. /\ pc' = "token" => place = FirstCell + m * Stride /\ Reached(m) /\ Settled(m)
          /\ pc' = "run" =>
               /\ r \in Token /\ r.count >= 2
               /\ place = FirstCell + (m + r.count) * Stride
               /\ Reached(m + r.count)
               /\ \A n \in 0 .. r.count - 1 : UnitAt(FirstCell + (m + n) * Stride) = r.value
      BY <2>1, <3>1
    <3> HIDE DEF tokens, r, place
    <3> QED BY <1>1, <2>1, <3>2, <3>3, TokensNext
  <2> QED BY <1>2, <1>3, <1>4, <2>1, <2>2
<1>7. CASE OpenFile
  <2>1. /\ pc = "open" /\ pc' = "token" /\ out' = <<>> /\ address' = FirstCell
        /\ files' = files /\ byte_order' = byte_order /\ run' = run
    BY <1>7 DEF OpenFile, LogisimFormat
  <2>2. /\ FirstCell \in Nat /\ Stride \in {1, 2}
    BY BoundsAreNumbers DEF LogisimInv, ImageInv, InputsInv, Stride, Wide
  <2> DEFINE tokens == <<>>
             z == 0
             place == FirstCell
             r == run
  <2>3. tokens \in Seq(Token) /\ Expand(tokens) = UnitsFrom(FirstCell, z) /\ z \in Nat
    <3>1. UnitsFrom(FirstCell, 0) = <<>>
      BY DEF UnitsFrom
    <3> QED BY <3>1, ExpandNothing
  <2>4. /\ out' = tokens /\ run' = r /\ address' = place
        /\ place = FirstCell + z * Stride /\ Reached(z) /\ Settled(z) /\ pc' # "run"
    BY <2>1, <2>2 DEF Reached, Settled
  <2> HIDE DEF tokens, z, place, r
  <2>5. TokensSoFar'
    BY <1>1, <2>1, <2>3, <2>4, TokensNext
  <2> QED BY <1>2, <1>3, <2>1, <2>5
<1>8. CASE Finish
  <2>1. /\ pc' = "done" /\ byte_order = FileCount /\ out' = out
        /\ files' = files /\ byte_order' = byte_order
    BY <1>8 DEF Finish
  <2> QED BY <1>2, <1>3, <1>4, <2>1
<1>9. CASE SingleToken \/ StartRun \/ ExtendRun \/ EndRun
  <2>1. pc' \in {"token", "run"} /\ files' = files /\ byte_order' = byte_order
    BY <1>9 DEF SingleToken, StartRun, ExtendRun, EndRun
  <2>2. out' \in Seq(Token) /\ TokensSoFar'
    BY <1>9, SingleTokenAdds, StartRunCounts, ExtendRunCounts, EndRunAdds
  <2> QED BY <1>2, <1>3, <2>1, <2>2
<1>10. CASE LogisimEnd
  <2>1. Covers(byte_order, out) /\ files' = Append(files, out)
    BY <1>10, LogisimEndCloses
  <2>2. pc' = "open" /\ out' = out /\ byte_order' = byte_order + 1
    BY <1>10 DEF LogisimEnd, CloseFile
  <2>3. /\ files' \in Seq(Seq(Token)) /\ Len(files') = byte_order + 1
        /\ files'[byte_order + 1] = out
        /\ \A n \in 1 .. byte_order : files'[n] = files[n]
    BY <1>2, <2>1
  <2>4. byte_order \in Nat
    BY <1>2
  <2>5. ASSUME NEW k \in 0 .. byte_order' - 1
        PROVE  Covers(k, files[k + 1])'
    <3>1. PICK t : t = files'[k + 1]
      OBVIOUS
    <3>2. k = byte_order \/ k \in 0 .. byte_order - 1
      BY <2>2, <2>4
    <3>3. k \in 0 .. byte_order - 1 => k + 1 \in 1 .. byte_order
      BY <2>4
    <3>4. Covers(k, t)
      BY <1>2, <2>1, <2>3, <3>1, <3>2, <3>3
    <3>5. Covers(k, t)'
      BY <1>1, <3>4, CoversStays
    <3>6. Covers(k, files[k + 1])' = Covers(k, t)'
      BY <3>1 DEF Covers
    <3> QED BY <3>5, <3>6
  <2> QED BY <1>2, <2>2, <2>3, <2>5
<1>11. CASE RawByte \/ RawEnd
  BY <1>2, <1>11 DEF RawByte, RawEnd
<1>12. CASE SkipSection \/ EnterSection \/ WriteRecord \/ LeaveSection \/ HexEnd
  BY <1>2, <1>12 DEF SkipSection, AtSection, EnterSection, WriteRecord, LeaveSection, HexEnd
<1> QED BY <1>5, <1>6, <1>7, <1>8, <1>9, <1>10, <1>11, <1>12 DEF Next, Read

\* The values and runs of a Logisim file stand for the units of the window in
\* order, and for one unit past it exactly when the last begins a run with that
\* one, whatever the table, the window and the bytes are
\* (Sections::binary_logisim and binary_logisim16).
THEOREM LogisimFilesCoverTheWindow == Spec => []LogisimCoversTheWindow
<1>1. LogisimInv => LogisimCoversTheWindow
  <2> SUFFICES ASSUME LogisimInv, Done, LogisimFormat, NEW k \in FileNumbers
               PROVE  Covers(k, files[k + 1])
    BY DEF LogisimCoversTheWindow, LogisimFormat, Covers, UnitsWritten
  <2>1. byte_order = FileCount /\ \A n \in 0 .. byte_order - 1 : Covers(n, files[n + 1])
    BY DEF LogisimInv, Done
  <2> QED BY <2>1 DEF FileNumbers
<1> QED BY <1>1, LogisimInitInv, LogisimNextInv, PTL DEF Spec

-----------------------------------------------------------------------------
\* Intel HEX files carry the window.

RecordCells(r, k) == {<<(r.load + n - 1) * word_size + k, r.octets[n]>> :
                        n \in DOMAIN r.octets}

FileCells(records, k) ==
  UNION {RecordCells(r, k) : r \in {records[m] : m \in DOMAIN records}}

InWindow(a, k) == lower_address <= a /\ a < higher_address /\ a % word_size = k

\* The addresses of file k in section s, in the first m sections.
Wanted(s, k) == {a \in Extent(s) : InWindow(a, k)}

WantedUpTo(m, k) == UNION {Wanted(s, k) : s \in {r \in Loadable : r <= m}}

CellsAt(A) == {<<a, ByteAt(a)>> : a \in A}

\* The inputs for which the files are the window: HexCarriesTheWindow.
HexExact == /\ AddressesFit
            /\ InAddressOrder \/ option_address = NoWindow
            /\ word_size = 1 \/ NothingOdd

\* Between sections, those before i are written.
BetweenSections ==
  /\ i <= Len(sections) + 1
  /\ FileCells(out, byte_order) = CellsAt(WantedUpTo(i - 1, byte_order))

\* In section i, what is below the cursor is written, and size units of the
\* file are left up to the end of what the section has in the window.
LowEnd == Larger(lower_address, sections[i].base)

InSection ==
  LET here == address - byte_order
  IN  /\ i \in Loadable
      /\ LowEnd <= here /\ here % word_size = 0 /\ here + size * word_size = SectionEnd
      /\ FileCells(out, byte_order)
           = CellsAt(WantedUpTo(i - 1, byte_order)
                     \cup {a \in Wanted(i, byte_order) : a < address})

HexFileInv ==
  /\ ImageInv /\ HexInv
  /\ format = "hexintel" /\ HexExact =>
       /\ Len(files) = byte_order /\ files \in Seq(Seq(Records \cup {EndRecord}))
       /\ \A k \in 0 .. byte_order - 1 : FileCells(files[k + 1], k) = WindowCells(k)
       /\ pc \in {"section", "records"} => byte_order < FileCount
       /\ pc = "section" => BetweenSections
       /\ pc = "records" => InSection
       /\ pc = "done" => byte_order = FileCount

LEMMA HexStays ==
  ASSUME UNCHANGED inputs
  PROVE  /\ \A m, k : WantedUpTo(m, k)' = WantedUpTo(m, k)
         /\ \A s, k : Wanted(s, k)' = Wanted(s, k)
         /\ \A k : WindowCells(k)' = WindowCells(k)
         /\ \A r, k : FileCells(r, k)' = FileCells(r, k)
         /\ \A A : CellsAt(A)' = CellsAt(A)
         /\ Loadable' = Loadable /\ (HexExact <=> HexExact')
<1>1. /\ sections' = sections /\ option_address' = option_address
      /\ format' = format /\ word_size' = word_size
  BY DEF inputs
<1>2. lower_address' = lower_address /\ higher_address' = higher_address
  BY UnitsStay
<1>3. Loadable' = Loadable /\ \A s : Extent(s)' = Extent(s)
  BY <1>1 DEF Loadable, Extent, EndOf
<1>4. \A s, k : Wanted(s, k)' = Wanted(s, k)
  BY <1>1, <1>2, <1>3 DEF Wanted, InWindow
<1>5. \A m, k : WantedUpTo(m, k)' = WantedUpTo(m, k)
  BY <1>3, <1>4 DEF WantedUpTo
<1>6. \A a : ByteAt(a)' = ByteAt(a)
  <2>1. \A a : PlacesOf(a)' = PlacesOf(a)
    BY <1>1, <1>3 DEF PlacesOf
  <2> SUFFICES ASSUME NEW a PROVE ByteAt(a)' = ByteAt(a)
    OBVIOUS
  <2>2. PlacesOf(a)' = PlacesOf(a)
    BY <2>1
  <2> QED BY <1>1, <2>2, Zenon DEF ByteAt
<1>7. \A A : CellsAt(A)' = CellsAt(A)
  BY <1>6 DEF CellsAt
<1>8. \A r, k : FileCells(r, k)' = FileCells(r, k)
  BY <1>1 DEF FileCells, RecordCells
<1>9. \A k : WindowCells(k)' = WindowCells(k)
  <2>1. Loaded' = Loaded
    BY <1>3 DEF Loaded
  <2> QED BY <1>1, <1>2, <1>6, <2>1 DEF WindowCells
<1>10. HexExact <=> HexExact'
  BY <1>1, <1>2, FitStays DEF HexExact, InAddressOrder, NothingOdd
<1> QED BY <1>3, <1>4, <1>5, <1>7, <1>8, <1>9, <1>10

LEMMA FileCellsAppend ==
  ASSUME NEW X, NEW records \in Seq(X), NEW r, NEW k
  PROVE  FileCells(Append(records, r), k) = FileCells(records, k) \cup RecordCells(r, k)
<1> DEFINE n == Len(records)
           longer == Append(records, r)
<1>1. /\ n \in Nat /\ DOMAIN records = 1 .. n /\ DOMAIN longer = 1 .. n + 1
      /\ longer[n + 1] = r /\ \A m \in 1 .. n : longer[m] = records[m]
  OBVIOUS
<1> HIDE DEF longer, n
<1>2. {longer[m] : m \in DOMAIN longer} = {records[m] : m \in DOMAIN records} \cup {r}
  <2>1. 1 .. n + 1 = (1 .. n) \cup {n + 1}
    BY <1>1
  <2> QED BY <1>1, <2>1
<1>3. FileCells(longer, k) = FileCells(records, k) \cup RecordCells(r, k)
  BY <1>2 DEF FileCells
<1> QED BY <1>3 DEF longer

LEMMA CellsJoin ==
  ASSUME NEW A, NEW B
  PROVE  CellsAt(A \cup B) = CellsAt(A) \cup CellsAt(B)
BY DEF CellsAt

\* One more section is wanted when it is loadable.
LEMMA WantedStep ==
  ASSUME sections \in Tables, NEW s \in DOMAIN sections, NEW k
  PROVE  /\ s \in Loadable => WantedUpTo(s, k) = WantedUpTo(s - 1, k) \cup Wanted(s, k)
         /\ s \notin Loadable => WantedUpTo(s, k) = WantedUpTo(s - 1, k)
<1>1. s \in Nat /\ \A r \in Loadable : r \in Nat
  BY TableBounds DEF Loadable
<1>2. \A r \in Loadable : r <= s <=> r <= s - 1 \/ r = s
  BY <1>1
<1> QED BY <1>1, <1>2 DEF WantedUpTo

LEMMA WantedIsWindow ==
  ASSUME sections \in Tables, NEW m \in Nat, NEW k,
         \A s \in Loadable : s > m => Wanted(s, k) = {}
  PROVE  WindowCells(k) = CellsAt(WantedUpTo(m, k))
<1>1. \A s \in Loadable : s \in Nat
  BY TableBounds DEF Loadable
<1>2. WantedUpTo(m, k) = UNION {Wanted(s, k) : s \in Loadable}
  <2>1. \A s \in Loadable : s <= m \/ Wanted(s, k) = {}
    BY <1>1
  <2> QED BY <2>1 DEF WantedUpTo
<1>3. UNION {Wanted(s, k) : s \in Loadable}
        = {b \in Loaded : lower_address <= b /\ b < higher_address /\ b % word_size = k}
  BY DEF Wanted, InWindow, Loaded
<1> QED BY <1>2, <1>3 DEF WindowCells, CellsAt

\* What the section loop computes with.
LEMMA HexState ==
  ASSUME HexFileInv
  PROVE  /\ sections \in Tables /\ i \in Nat \ {0}
         /\ DOMAIN sections = 1 .. Len(sections) /\ Len(sections) \in Nat
         /\ lower_address \in Nat /\ higher_address \in Nat
         /\ byte_order \in Nat /\ word_size \in {1, 2}
         /\ Loadable \subseteq DOMAIN sections
         /\ \A s \in DOMAIN sections :
              /\ sections[s].base \in Nat /\ EndOf(s) \in Nat
              /\ sections[s].base <= EndOf(s) /\ EndOf(s) + 4 <= AddressRange
              /\ Len(sections[s].contents) \in Nat
         /\ AddressRange \in Nat
         /\ option_address = NoWindow \/ higher_address + 4 <= AddressRange
<1>1. InputsInv
  BY DEF HexFileInv, ImageInv
<1>2. sections \in Tables /\ i \in Nat \ {0} /\ byte_order \in Nat /\ word_size \in {1, 2}
  BY <1>1 DEF InputsInv, LoadInv
<1>3. ASSUME NEW s \in DOMAIN sections
      PROVE  /\ sections[s].base \in Nat /\ EndOf(s) \in Nat
             /\ sections[s].base <= EndOf(s) /\ EndOf(s) + 4 <= AddressRange
             /\ Len(sections[s].contents) \in Nat
  <2>1. sections[s].base \in Nat /\ Len(sections[s].contents) \in Nat
    BY <1>2, SectionTypes
  <2>2. sections[s].base + Len(sections[s].contents) + 4 <= AddressRange
    BY <1>2, TablesAssumption
  <2> QED BY <2>1, <2>2 DEF EndOf
<1>4. DOMAIN sections = 1 .. Len(sections) /\ Len(sections) \in Nat
  BY <1>2, TableBounds
<1>5. AddressRange \in Nat
  BY WindowAssumption
<1>6. option_address = NoWindow \/ higher_address + 4 <= AddressRange
  BY <1>1, WindowAssumption DEF InputsInv, higher_address
<1>7. lower_address \in Nat /\ higher_address \in Nat
  BY <1>1, BoundsAreNumbers
<1> QED BY <1>2, <1>3, <1>4, <1>5, <1>6, <1>7 DEF Loadable

\* What is said of the next state, in terms of this one.
LEMMA BetweenNext ==
  ASSUME UNCHANGED inputs, byte_order' = byte_order,
         NEW m, i' = m + 1, i' - 1 = m, m + 1 <= Len(sections) + 1,
         NEW t, out' = t, FileCells(t, byte_order) = CellsAt(WantedUpTo(m, byte_order))
  PROVE  BetweenSections'
<1>1. sections' = sections
  BY DEF inputs
<1>2. PICK k : k = byte_order
  OBVIOUS
<1>3. FileCells(t, k)' = FileCells(t, k)
  BY HexStays
<1>4. WantedUpTo(m, k)' = WantedUpTo(m, k)
  BY HexStays
<1>5. CellsAt(WantedUpTo(m, k))' = CellsAt(WantedUpTo(m, k))
  <2>1. PICK A : A = WantedUpTo(m, k)
    OBVIOUS
  <2>2. CellsAt(A)' = CellsAt(A)
    BY HexStays
  <2>3. CellsAt(WantedUpTo(m, k))' = CellsAt(A)'
    BY <1>4, <2>1
  <2> QED BY <2>1, <2>2, <2>3
<1>6. FileCells(out, byte_order)' = FileCells(t, k)'
  BY <1>2
<1>7. CellsAt(WantedUpTo(i - 1, byte_order))' = CellsAt(WantedUpTo(m, k))'
  BY <1>2
<1> QED BY <1>1, <1>2, <1>3, <1>5, <1>6, <1>7 DEF BetweenSections

LEMMA InSectionNext ==
  ASSUME UNCHANGED inputs, byte_order' = byte_order, i' = i,
         NEW p, NEW z, NEW t, NEW A, address' = p, size' = z, out' = t,
         i \in Loadable, LowEnd <= p - byte_order, (p - byte_order) % word_size = 0,
         p - byte_order + z * word_size = SectionEnd,
         A = WantedUpTo(i - 1, byte_order) \cup {a \in Wanted(i, byte_order) : a < p},
         FileCells(t, byte_order) = CellsAt(A)
  PROVE  InSection'
<1>1. /\ sections' = sections /\ word_size' = word_size
      /\ lower_address' = lower_address /\ higher_address' = higher_address
  BY UnitsStay DEF inputs
<1>2. PICK k : k = byte_order
  OBVIOUS
<1>3. PICK s : s = i
  OBVIOUS
<1>4. LowEnd' = LowEnd /\ SectionEnd' = SectionEnd
  BY <1>1 DEF LowEnd, SectionEnd, EndOf
<1>5. i' \in Loadable'
  BY HexStays
<1>6. /\ FileCells(t, k)' = FileCells(t, k) /\ CellsAt(A)' = CellsAt(A)
      /\ WantedUpTo(s - 1, k)' = WantedUpTo(s - 1, k) /\ Wanted(s, k)' = Wanted(s, k)
  BY HexStays
<1>7. /\ FileCells(out, byte_order)' = FileCells(t, k)'
      /\ WantedUpTo(i - 1, byte_order)' = WantedUpTo(s - 1, k)'
      /\ Wanted(i, byte_order)' = Wanted(s, k)'
  BY <1>2, <1>3
<1>8. (WantedUpTo(i - 1, byte_order) \cup {a \in Wanted(i, byte_order) : a < address})' = A
  BY <1>2, <1>3, <1>6, <1>7
<1>9. FileCells(out, byte_order)'
        = CellsAt(WantedUpTo(i - 1, byte_order)
                  \cup {a \in Wanted(i, byte_order) : a < address})'
  <2>1. CellsAt(WantedUpTo(i - 1, byte_order)
                \cup {a \in Wanted(i, byte_order) : a < address})' = CellsAt(A)'
    BY <1>8
  <2> QED BY <1>2, <1>6, <1>7, <2>1
<1> QED BY <1>1, <1>4, <1>5, <1>9 DEF InSection

LEMMA SkipSectionKeeps ==
  ASSUME HexFileInv, format = "hexintel", HexExact, SkipSection
  PROVE  BetweenSections'
<1>1. /\ i \in DOMAIN sections /\ i' = i + 1 /\ out' = out /\ byte_order' = byte_order
      /\ UNCHANGED inputs /\ OutsideWindow /\ BetweenSections
  BY HexState DEF SkipSection, AtSection, HexFileInv
<1>2. WantedUpTo(i, byte_order) = WantedUpTo(i - 1, byte_order)
  <2>1. CASE i \in Loadable
    <3>1. lower_address >= EndOf(i)
      BY <1>1, <2>1 DEF OutsideWindow, Loadable
    <3>2. Wanted(i, byte_order) = {}
      BY <1>1, <3>1, HexState DEF Wanted, Extent, InWindow
    <3> QED BY <1>1, <2>1, <3>2, HexState, WantedStep
  <2>2. CASE i \notin Loadable
    BY <1>1, <2>2, HexState, WantedStep
  <2> QED BY <2>1, <2>2
<1>3. PICK m : m = i
  OBVIOUS
<1>4. PICK t : t = out
  OBVIOUS
<1>5. i' = m + 1 /\ i' - 1 = m /\ m + 1 <= Len(sections) + 1
  BY <1>1, <1>3, HexState
<1>6. FileCells(t, byte_order) = CellsAt(WantedUpTo(m, byte_order))
  BY <1>1, <1>2, <1>3, <1>4 DEF BetweenSections
<1> QED BY <1>1, <1>4, <1>5, <1>6, BetweenNext

LEMMA LeaveSectionKeeps ==
  ASSUME HexFileInv, format = "hexintel", HexExact, LeaveSection, byte_order < word_size
  PROVE  BetweenSections'
<1>1. /\ i \in DOMAIN sections /\ i' = i + 1 /\ out' = out /\ byte_order' = byte_order
      /\ UNCHANGED inputs /\ InSection /\ size = 0 /\ i \in Loadable
  BY HexState DEF LeaveSection, HexFileInv, InSection
<1>2. address \in Nat
  BY DEF HexFileInv, HexInv
<1>3. address - byte_order = SectionEnd
  BY <1>1, <1>2, HexState DEF InSection
<1>4. {a \in Wanted(i, byte_order) : a < address} = Wanted(i, byte_order)
  <2>1. ASSUME NEW a \in Wanted(i, byte_order)
        PROVE  a < address
    <3>1. a < higher_address /\ a < EndOf(i) /\ a \in Nat
      BY <1>1, HexState DEF Wanted, InWindow, Extent
    <3>2. a < SectionEnd
      BY <3>1 DEF SectionEnd, Smaller
    <3>3. address >= SectionEnd
      BY <1>2, <1>3, HexState
    <3>4. SectionEnd \in Int
      BY <1>2, <1>3, HexState
    <3> QED BY <1>2, <3>1, <3>2, <3>3, <3>4
  <2> QED BY <2>1
<1>5. PICK m : m = i
  OBVIOUS
<1>6. PICK t : t = out
  OBVIOUS
<1>7. i' = m + 1 /\ i' - 1 = m /\ m + 1 <= Len(sections) + 1
  BY <1>1, <1>5, HexState
<1>8. FileCells(t, byte_order) = CellsAt(WantedUpTo(m, byte_order))
  <2>1. WantedUpTo(i, byte_order) = WantedUpTo(i - 1, byte_order) \cup Wanted(i, byte_order)
    BY <1>1, HexState, WantedStep
  <2> QED BY <1>1, <1>4, <1>5, <1>6, <2>1 DEF InSection
<1> QED BY <1>1, <1>6, <1>7, <1>8, BetweenNext

LEMMA EnterSectionKeeps ==
  ASSUME HexFileInv, format = "hexintel", HexExact, EnterSection, byte_order < word_size
  PROVE  InSection'
<1> DEFINE e == SectionEnd - LowEnd
           k == byte_order
<1>1. /\ i \in DOMAIN sections /\ i' = i /\ out' = out /\ byte_order' = k
      /\ UNCHANGED inputs /\ BetweenSections
      /\ ~OutsideWindow /\ ~PastWindow
      /\ address' = LowEnd + k
      /\ size' = ((SectionEnd + AddressRange - LowEnd) % AddressRange) \div word_size
  BY HexState DEF EnterSection, AtSection, HexFileInv, LowEnd
<1>2. /\ sections[i].base \in Nat /\ EndOf(i) \in Nat /\ sections[i].base <= EndOf(i)
      /\ EndOf(i) + 4 <= AddressRange
      /\ lower_address \in Nat /\ higher_address \in Nat /\ word_size \in {1, 2}
      /\ k \in Nat /\ AddressRange \in Nat
  BY <1>1, HexState
<1>3. i \in Loadable /\ lower_address < EndOf(i) /\ sections[i].base <= higher_address
  BY <1>1, <1>2 DEF OutsideWindow, PastWindow, Loadable
<1>4. /\ LowEnd \in Nat /\ SectionEnd \in Nat /\ LowEnd <= SectionEnd
      /\ SectionEnd + 4 <= AddressRange
  BY <1>2, <1>3 DEF HexExact, AddressesFit, LowEnd, SectionEnd, Larger, Smaller
<1>5. (SectionEnd + AddressRange - LowEnd) % AddressRange = e
  <2>1. AddressRange \in Nat \ {0} /\ e \in 0 .. AddressRange - 1
    BY <1>2, <1>4
  <2>2. SectionEnd + AddressRange - LowEnd = 1 * AddressRange + e
    BY <1>2, <1>4
  <2> HIDE DEF e
  <2>3. (1 * AddressRange + e) % AddressRange = e
    BY <2>1, DivMod
  <2> QED BY <2>2, <2>3
<1>6. LowEnd % word_size = 0 /\ e % word_size = 0
  <2>1. CASE word_size = 1
    BY <1>4, <2>1
  <2>2. CASE word_size = 2
    <3>1. /\ lower_address % 2 = 0 /\ higher_address % 2 = 0
          /\ sections[i].base % 2 = 0 /\ Len(sections[i].contents) % 2 = 0
      <4>1. NothingOdd
        BY <2>2 DEF HexExact
      <4> QED BY <1>1, <4>1, Zenon DEF NothingOdd
    <3>2. EndOf(i) % 2 = 0
      <4>1. Len(sections[i].contents) \in Nat
        BY <1>1, HexState
      <4>2. \A x, y \in Nat : x % 2 = 0 /\ y % 2 = 0 => (x + y) % 2 = 0
        OBVIOUS
      <4> QED BY <1>2, <3>1, <4>1, <4>2, Zenon DEF EndOf
    <3>3. LowEnd % 2 = 0 /\ SectionEnd % 2 = 0
      BY <3>1, <3>2 DEF LowEnd, SectionEnd, Larger, Smaller
    <3> QED BY <1>4, <2>2, <3>3
  <2> QED BY <1>2, <2>1, <2>2
<1>7. (e \div word_size) * word_size = e
  <2>1. e \in Int
    BY <1>4
  <2> HIDE DEF e
  <2> QED BY <1>2, <1>6, <2>1
<1>8. {a \in Wanted(i, k) : a < LowEnd + k} = {}
  <2> SUFFICES ASSUME NEW a \in Wanted(i, k), a < LowEnd + k PROVE FALSE
    OBVIOUS
  <2>1. a \in Nat /\ LowEnd <= a /\ a % word_size = k
    BY <1>2 DEF Wanted, Extent, InWindow, LowEnd, Larger
  <2>2. CASE word_size = 1
    BY <1>2, <1>4, <2>1, <2>2
  <2>3. CASE word_size = 2
    <3>1. a = LowEnd /\ k = 1
      BY <1>2, <1>4, <2>1, <2>3
    <3> QED BY <1>6, <2>1, <2>3, <3>1
  <2> QED BY <1>2, <2>2, <2>3
<1>9. PICK p : p = LowEnd + k
  OBVIOUS
<1>10. PICK z : z = e \div word_size
  OBVIOUS
<1>11. PICK t : t = out
  OBVIOUS
<1>12. PICK A : A = WantedUpTo(i - 1, byte_order) \cup {a \in Wanted(i, byte_order) : a < p}
  OBVIOUS
<1>13. A = WantedUpTo(i - 1, byte_order)
  BY <1>8, <1>9, <1>12
<1>14. FileCells(t, byte_order) = CellsAt(A)
  BY <1>1, <1>11, <1>13 DEF BetweenSections
<1>15. address' = p /\ size' = z /\ out' = t
  BY <1>1, <1>5, <1>9, <1>10, <1>11
<1>16. /\ p - k = LowEnd /\ LowEnd <= p - k /\ (p - k) % word_size = 0
       /\ p - k + z * word_size = SectionEnd
  <2>1. p - k = LowEnd
    BY <1>2, <1>4, <1>9
  <2>2. LowEnd + e = SectionEnd
    BY <1>4
  <2> QED BY <1>4, <1>6, <1>7, <1>10, <2>1, <2>2
<1> HIDE DEF e
<1> QED BY <1>1, <1>3, <1>12, <1>14, <1>15, <1>16, InSectionNext

\* The addresses of n bytes a word apart, from h + k on, and what they are
\* loaded from.
PlacesApart(w, k, h, n) ==
  \A a \in Int : a % w = k /\ h + k <= a /\ a < h + k + n * w
                   <=> \E m \in 1 .. n : a = h + k + (m - 1) * w

LoadsApart(w, k, h, n) ==
  \A m \in 1 .. n : /\ h + k + (m - 1) * w < h + n * w
                    /\ ((h + k) \div w + m - 1) * w + k = h + k + (m - 1) * w

LEMMA RecordPlaces ==
  ASSUME NEW w \in {1, 2}, NEW k \in Nat, k < w, NEW h \in Nat, h % w = 0, NEW n \in Nat
  PROVE  PlacesApart(w, k, h, n) /\ LoadsApart(w, k, h, n)
<1>1. CASE w = 1
  <2>1. k = 0
    BY <1>1
  <2>2. ASSUME NEW a \in Int, h <= a, a < h + n
        PROVE  \E m \in 1 .. n : a = h + (m - 1)
    <3>1. a - h + 1 \in 1 .. n /\ a = h + ((a - h + 1) - 1)
      BY <2>2
    <3> QED BY <3>1
  <2>3. \A a \in Int : h <= a /\ a < h + n <=> \E m \in 1 .. n : a = h + (m - 1)
    BY <2>2
  <2> QED BY <1>1, <2>1, <2>3 DEF PlacesApart, LoadsApart
<1>2. CASE w = 2
  <2>1. PICK q \in Nat : h = 2 * q
    <3>1. h = 2 * (h \div 2) /\ h \div 2 \in Nat
      BY <1>2
    <3> QED BY <3>1
  <2>2. k \in {0, 1}
    BY <1>2
  <2>3. ASSUME NEW a \in Int, a % 2 = k, 2 * q + k <= a, a < 2 * q + k + n * 2
        PROVE  \E m \in 1 .. n : a = 2 * q + k + (m - 1) * 2
    <3> DEFINE j == a \div 2
    <3>1. j \in Int /\ a = 2 * j + k
      BY <2>3
    <3> HIDE DEF j
    <3>2. j - q + 1 \in 1 .. n /\ a = 2 * q + k + ((j - q + 1) - 1) * 2
      BY <2>1, <2>2, <2>3, <3>1
    <3> QED BY <3>2
  <2>4. ASSUME NEW m \in 1 .. n
        PROVE  LET a == 2 * q + k + (m - 1) * 2
               IN  /\ a % 2 = k /\ 2 * q + k <= a /\ a < 2 * q + k + n * 2
                   /\ a < 2 * q + n * 2
                   /\ ((2 * q + k) \div 2 + m - 1) * 2 + k = a
    BY <2>1, <2>2
  <2> QED BY <1>2, <2>1, <2>3, <2>4 DEF PlacesApart, LoadsApart
<1> QED BY <1>1, <1>2

\* The cells of a record are those of the addresses it stands for.
LEMMA RecordIsCells ==
  ASSUME HexFileInv, format = "hexintel", pc = "records", NEW n \in Nat,
         NEW h \in Nat, h % word_size = 0, byte_order < word_size,
         address = h + byte_order, address \div word_size \in Loads, NEW octets,
         octets = [m \in 1 .. n |-> Read8(address + (m - 1) * word_size)]
  PROVE  RecordCells(DataRecord(address \div word_size, octets), byte_order)
           = CellsAt({address + (m - 1) * word_size : m \in 1 .. n})
<1> DEFINE k == byte_order
           load == address \div word_size
           r == DataRecord(load, octets)
           Spot(m) == address + (m - 1) * word_size
<1>1. word_size \in {1, 2} /\ k \in Nat /\ k < word_size
  BY HexState
<1>2. r.load = load /\ r.octets = octets /\ DOMAIN octets = 1 .. n
  BY FieldHolds DEF DataRecord
<1>3. ASSUME NEW m \in 1 .. n
      PROVE  /\ (load + m - 1) * word_size + k = Spot(m)
             /\ octets[m] = ByteAt(Spot(m))
  <2>1. (load + m - 1) * word_size + k = Spot(m)
    <3>1. ((h + k) \div word_size + m - 1) * word_size + k = h + k + (m - 1) * word_size
      <4> HIDE DEF k
      <4>1. LoadsApart(word_size, k, h, n)
        BY <1>1, RecordPlaces
      <4> QED BY <4>1 DEF LoadsApart
    <3> QED BY <3>1
  <2>2. Spot(m) \in Nat
    BY <1>1
  <2>3. octets[m] = Read8(Spot(m))
    OBVIOUS
  <2> HIDE DEF Spot
  <2>4. Read8(Spot(m)) = ByteAt(Spot(m))
    BY <2>2, ReadsAreSections DEF HexFileInv
  <2> QED BY <2>1, <2>3, <2>4
<1> HIDE DEF r, load, Spot
<1>4. RecordCells(r, k) = {<<Spot(m), ByteAt(Spot(m))>> : m \in 1 .. n}
  <2>1. RecordCells(r, k) = {<<(load + m - 1) * word_size + k, octets[m]>> : m \in 1 .. n}
    <3>1. RecordCells(r, k) = {<<(load + m - 1) * word_size + k, octets[m]>> : m \in DOMAIN octets}
      BY <1>2 DEF RecordCells
    <3> QED BY <1>2, <3>1
  <2>2. \A m \in 1 .. n : /\ (load + m - 1) * word_size + k = Spot(m)
                          /\ octets[m] = ByteAt(Spot(m))
    BY <1>3
  <2> DEFINE L(m) == <<(load + m - 1) * word_size + k, octets[m]>>
             R(m) == <<Spot(m), ByteAt(Spot(m))>>
  <2>3. \A m \in 1 .. n : L(m) = R(m)
    BY <2>2
  <2>4. RecordCells(r, k) = {L(m) : m \in 1 .. n}
    BY <2>1
  <2> HIDE DEF L
  <2>5. {L(m) : m \in 1 .. n} = {R(m) : m \in 1 .. n}
    BY <2>3
  <2> QED BY <2>4, <2>5
<1>5. CellsAt({Spot(m) : m \in 1 .. n}) = {<<Spot(m), ByteAt(Spot(m))>> : m \in 1 .. n}
  BY DEF CellsAt
<1> QED BY <1>4, <1>5 DEF r, load, Spot

LEMMA WriteRecordKeeps ==
  ASSUME HexFileInv, format = "hexintel", HexExact, WriteRecord, byte_order < word_size
  PROVE  InSection'
<1> DEFINE k == byte_order
           h == address - k
           n == RecordLength
           octets == [m \in 1 .. n |-> Read8(address + (m - 1) * word_size)]
           r == DataRecord(address \div word_size, octets)
           next == address + n * word_size
           Here == {address + (m - 1) * word_size : m \in 1 .. n}
<1>1. /\ pc = "records" /\ i' = i /\ byte_order' = k /\ UNCHANGED inputs
      /\ out' = Append(out, r) /\ address' = next % AddressRange /\ size' = size - n
      /\ InSection /\ size > 0
  BY DEF WriteRecord, HexFileInv
<1>2. /\ address \in Nat /\ size \in Nat /\ out \in Seq(Records)
      /\ word_size \in {1, 2} /\ k \in Nat /\ k < word_size /\ AddressRange \in Nat
      /\ WithinReach
  <2>1. /\ address \in Nat /\ size \in Nat /\ RecordsFit /\ AddressesFit
        /\ word_size \in {1, 2} /\ k \in Nat /\ AddressRange \in Nat
    BY HexState DEF HexFileInv, HexInv, HexExact
  <2>2. out \in Seq(Records) /\ WithinReach
    BY <1>1, <2>1, Zenon DEF RecordsFit
  <2> QED BY <2>1, <2>2
<1>3. /\ i \in Loadable /\ i \in DOMAIN sections /\ LowEnd <= h /\ h % word_size = 0
      /\ h + size * word_size = SectionEnd
      /\ FileCells(out, k) = CellsAt(WantedUpTo(i - 1, k) \cup {a \in Wanted(i, k) : a < address})
  BY <1>1, HexState DEF InSection
<1>4. /\ sections[i].base \in Nat /\ EndOf(i) \in Nat /\ EndOf(i) + 4 <= AddressRange
      /\ lower_address \in Nat /\ higher_address \in Nat
  BY <1>3, HexState
<1>5. /\ LowEnd \in Nat /\ lower_address <= LowEnd /\ sections[i].base <= LowEnd
      /\ SectionEnd \in Nat /\ SectionEnd <= EndOf(i) /\ SectionEnd <= higher_address
  BY <1>4 DEF LowEnd, SectionEnd, Larger, Smaller
<1>6. n \in Nat /\ n <= size
  BY <1>2, RecordAssumption DEF RecordLength, Smaller
<1>7. h \in Nat /\ address = h + k
  BY <1>2, <1>3, <1>5
<1>8. h + n * word_size <= SectionEnd /\ next = h + k + n * word_size
  <2> HIDE DEF n, h
  <2>1. n * word_size <= size * word_size
    BY <1>2, <1>6
  <2> QED BY <1>2, <1>3, <1>5, <1>6, <1>7, <2>1
<1>9. next % AddressRange = next
  <2>1. next \in Nat /\ next < AddressRange
    <3> HIDE DEF n, h
    <3> QED BY <1>2, <1>4, <1>5, <1>6, <1>7, <1>8
  <2> HIDE DEF next
  <2> QED BY <1>2, <2>1
<1>10. RecordCells(r, k) = CellsAt(Here)
  <2> HIDE DEF h, n, octets
  <2>1. address + size * word_size <= FormatLimit * word_size + k
    BY <1>2 DEF WithinReach
  <2>2. FormatLimit \in Nat /\ size \in Nat \ {0}
    BY <1>1, <1>2, FieldHolds
  <2>3. address \div word_size \in 0 .. FormatLimit - 1
    BY <1>2, <2>1, <2>2, LoadInReach
  <2>4. address \div word_size \in Loads
    BY <2>3 DEF Loads
  <2> QED BY <1>1, <1>3, <1>6, <1>7, <2>4, RecordIsCells DEF octets
<1>11. PlacesApart(word_size, k, h, n) /\ LoadsApart(word_size, k, h, n)
  <2> HIDE DEF h, n, k
  <2> QED BY <1>2, <1>3, <1>6, <1>7, RecordPlaces
<1>12. {a \in Wanted(i, k) : a < next} = {a \in Wanted(i, k) : a < address} \cup Here
  <2>1. \A a : a \in Wanted(i, k) <=> /\ a \in Int /\ LowEnd <= a /\ a < SectionEnd
                                      /\ a % word_size = k
    BY <1>4 DEF Wanted, Extent, InWindow, LowEnd, SectionEnd, Larger, Smaller
  <2>2. \A a \in Int : a % word_size = k /\ address <= a /\ a < next <=> a \in Here
    <3> HIDE DEF h, n
    <3> QED BY <1>7, <1>8, <1>11 DEF PlacesApart
  <2>3. \A a \in Here : a \in Int /\ a < SectionEnd
    <3> SUFFICES ASSUME NEW m \in 1 .. n
                 PROVE  LET a == address + (m - 1) * word_size
                        IN  a \in Int /\ a < SectionEnd
      OBVIOUS
    <3> HIDE DEF h, n
    <3>1. h + k + (m - 1) * word_size < h + n * word_size
      BY <1>11 DEF LoadsApart
    <3>2. (m - 1) * word_size \in Int /\ n * word_size \in Int
      BY <1>2, <1>6
    <3> QED BY <1>2, <1>5, <1>7, <1>8, <3>1, <3>2
  <2>4. next \in Int /\ address <= next
    <3> HIDE DEF n
    <3> QED BY <1>2, <1>6
  <2> HIDE DEF Here, next, h
  <2>5. \A a \in Here : a \in Wanted(i, k) /\ a < next
    <3>1. \A a \in Here : a \in Int /\ a % word_size = k /\ address <= a /\ a < next
      BY <2>2, <2>3
    <3>2. \A a \in Here : LowEnd <= a
      BY <1>2, <1>3, <1>5, <1>7, <3>1
    <3> QED BY <2>1, <2>3, <3>1, <3>2
  <2>6. \A a \in Wanted(i, k) : a < next => a < address \/ a \in Here
    BY <1>2, <2>1, <2>2
  <2>7. \A a \in Wanted(i, k) : a < address => a < next
    BY <1>2, <2>1, <2>4
  <2> QED BY <2>5, <2>6, <2>7
<1>13. PICK A : A = WantedUpTo(i - 1, byte_order) \cup {a \in Wanted(i, byte_order) : a < next}
  OBVIOUS
<1>14. FileCells(Append(out, r), k) = CellsAt(A)
  <2> HIDE DEF r, Here, next
  <2>1. FileCells(Append(out, r), k) = FileCells(out, k) \cup RecordCells(r, k)
    BY <1>2, FileCellsAppend
  <2>2. A = (WantedUpTo(i - 1, k) \cup {a \in Wanted(i, k) : a < address}) \cup Here
    BY <1>12, <1>13
  <2> QED BY <1>3, <1>10, <2>1, <2>2, CellsJoin
<1>15. LowEnd <= next - k /\ (next - k) % word_size = 0
       /\ next - k + (size - n) * word_size = SectionEnd
  <2> HIDE DEF h, n
  <2>1. next - k = h + n * word_size /\ n * word_size \in Nat
    BY <1>2, <1>6, <1>7, <1>8
  <2>2. (h + n * word_size) % word_size = 0
    <3>1. CASE word_size = 1
      BY <1>6, <1>7, <3>1
    <3>2. CASE word_size = 2
      BY <1>3, <1>6, <1>7, <3>2
    <3> QED BY <1>2, <3>1, <3>2
  <2>3. (size - n) * word_size = size * word_size - n * word_size
        /\ size * word_size \in Nat
    BY <1>2, <1>6
  <2> HIDE DEF next
  <2> QED BY <1>3, <1>5, <1>7, <2>1, <2>2, <2>3
<1>16. PICK p : p = next
  OBVIOUS
<1>17. PICK z : z = size - n
  OBVIOUS
<1>18. PICK t : t = Append(out, r)
  OBVIOUS
<1>19. address' = p /\ size' = z /\ out' = t
  BY <1>1, <1>9, <1>16, <1>17, <1>18
<1>20. /\ LowEnd <= p - byte_order /\ (p - byte_order) % word_size = 0
       /\ p - byte_order + z * word_size = SectionEnd
       /\ FileCells(t, byte_order) = CellsAt(A)
       /\ A = WantedUpTo(i - 1, byte_order) \cup {a \in Wanted(i, byte_order) : a < p}
  BY <1>13, <1>14, <1>15, <1>16, <1>17, <1>18
<1> HIDE DEF r, next, n, Here
<1> QED BY <1>1, <1>3, <1>19, <1>20, InSectionNext

LEMMA OpenFileBegins ==
  ASSUME HexFileInv, format = "hexintel", OpenFile
  PROVE  BetweenSections'
<1>1. /\ UNCHANGED inputs /\ byte_order' = byte_order /\ i' = 1 /\ out' = <<>>
  BY DEF OpenFile
<1>2. WantedUpTo(0, byte_order) = {}
  <2>1. \A r \in Loadable : r \in Nat /\ ~(r <= 0)
    BY HexState
  <2> QED BY <2>1 DEF WantedUpTo
<1>3. FileCells(<<>>, byte_order) = {}
  BY DEF FileCells
<1>4. CellsAt({}) = {}
  BY DEF CellsAt
<1>5. PICK m : m = 0
  OBVIOUS
<1>6. PICK t : t = <<>>
  OBVIOUS
<1>7. i' = m + 1 /\ i' - 1 = m /\ m + 1 <= Len(sections) + 1 /\ out' = t
  BY <1>1, <1>5, <1>6, HexState
<1>8. FileCells(t, byte_order) = CellsAt(WantedUpTo(m, byte_order))
  BY <1>2, <1>3, <1>4, <1>5, <1>6
<1> QED BY <1>1, <1>7, <1>8, BetweenNext

\* The loop ends behind the last section, or before one past the window: with
\* the sections in address order none after it has a cell of the window.
LEMMA HexEndCloses ==
  ASSUME HexFileInv, format = "hexintel", HexExact, HexEnd
  PROVE  /\ files' = Append(files, Append(out, EndRecord))
         /\ Append(out, EndRecord) \in Seq(Records \cup {EndRecord})
         /\ FileCells(Append(out, EndRecord), byte_order) = WindowCells(byte_order)
<1> DEFINE k == byte_order
<1>1. /\ pc = "section" /\ LoopEnded /\ BetweenSections /\ out \in Seq(Records)
      /\ files' = Append(files, out \o <<EndRecord>>)
  <2>1. RecordsFit /\ AddressesFit
    BY DEF HexFileInv, HexInv, HexExact
  <2>2. out \in Seq(Records)
    BY <2>1, Zenon DEF RecordsFit
  <2> QED BY <2>2 DEF HexEnd, CloseFile, HexFileInv
<1>2. out \o <<EndRecord>> = Append(out, EndRecord)
  BY <1>1
<1>3. Append(out, EndRecord) \in Seq(Records \cup {EndRecord})
  <2>1. out \in Seq(Records \cup {EndRecord})
    BY <1>1
  <2> QED BY <2>1
<1>4. RecordCells(EndRecord, k) = {}
  <2>1. DOMAIN EndRecord.octets = {}
    BY DEF EndRecord
  <2> QED BY <2>1 DEF RecordCells
<1>5. ASSUME NEW s \in Loadable, s > i - 1
      PROVE  Wanted(s, k) = {}
  <2>1. /\ s \in Nat /\ s \in DOMAIN sections /\ i \in Nat /\ i <= s /\ s <= Len(sections)
        /\ i \in DOMAIN sections /\ sections[s].base \in Nat /\ sections[i].base \in Nat
        /\ higher_address \in Nat
    BY <1>5, HexState
  <2>2. higher_address < sections[i].base
    BY <1>1, <2>1, HexState DEF LoopEnded, PastWindow
  <2>3. option_address # NoWindow
    <3> SUFFICES ASSUME option_address = NoWindow PROVE FALSE
      OBVIOUS
    <3>1. higher_address = HighestEnd
      BY DEF higher_address
    <3>2. HighestEnd >= EndOf(i) /\ EndOf(i) \in Nat /\ sections[i].base <= EndOf(i)
      BY <2>1, HexState, TableBounds
    <3> QED BY <2>1, <2>2, <3>1, <3>2
  <2>4. sections[i].base <= sections[s].base
    BY <2>1, <2>3 DEF HexExact, InAddressOrder
  <2> QED BY <2>1, <2>2, <2>4 DEF Wanted, Extent, InWindow
<1>6. WindowCells(k) = CellsAt(WantedUpTo(i - 1, k))
  <2>1. i - 1 \in Nat /\ sections \in Tables
    BY HexState
  <2> HIDE DEF k
  <2> QED BY <1>5, <2>1, WantedIsWindow
<1>7. FileCells(Append(out, EndRecord), k) = FileCells(out, k) \cup {}
  BY <1>1, <1>4, FileCellsAppend, ZenonT(40)
<1> QED BY <1>1, <1>2, <1>3, <1>6, <1>7 DEF BetweenSections

LEMMA HexFileInitInv == Init => HexFileInv
<1> SUFFICES ASSUME Init PROVE HexFileInv
  OBVIOUS
<1>1. pc = "load" /\ byte_order = 0 /\ files = <<>>
  BY DEF Init
<1> QED BY <1>1, ImageInitInv, HexInitInv DEF HexFileInv

\* A file that is finished.
IsWindow(k, t) == FileCells(t, k) = WindowCells(k)

LEMMA IsWindowStays ==
  ASSUME UNCHANGED inputs
  PROVE  \A k, t : IsWindow(k, t)' <=> IsWindow(k, t)
<1>1. \A k, t : FileCells(t, k)' = FileCells(t, k) /\ WindowCells(k)' = WindowCells(k)
  BY HexStays
<1> QED BY <1>1 DEF IsWindow

LEMMA HexFileNextInv == HexFileInv /\ [Next]_vars => HexFileInv'
<1> SUFFICES ASSUME HexFileInv, [Next]_vars PROVE HexFileInv'
  OBVIOUS
<1>1. /\ ImageInv' /\ HexInv' /\ UNCHANGED inputs /\ format' = format
      /\ FileCount' = FileCount /\ (HexExact <=> HexExact')
  BY ImageNextInv, HexNextInv, StepsKeepInputs, UnitsStay, HexStays DEF HexFileInv, inputs
<1> SUFFICES ASSUME format = "hexintel", HexExact
             PROVE  /\ Len(files') = byte_order'
                    /\ files' \in Seq(Seq(Records \cup {EndRecord}))
                    /\ \A k \in 0 .. byte_order' - 1 : IsWindow(k, files[k + 1])'
                    /\ pc' \in {"section", "records"} => byte_order' < FileCount'
                    /\ pc' = "section" => BetweenSections'
                    /\ pc' = "records" => InSection'
                    /\ pc' = "done" => byte_order' = FileCount'
  BY <1>1 DEF HexFileInv, IsWindow
<1>2. /\ Len(files) = byte_order
      /\ files \in Seq(Seq(Records \cup {EndRecord}))
      /\ \A k \in 0 .. byte_order - 1 : IsWindow(k, files[k + 1])
      /\ pc \in {"section", "records"} => byte_order < FileCount
      /\ pc = "section" => BetweenSections
      /\ pc = "records" => InSection
      /\ pc = "done" => byte_order = FileCount
      /\ FileCount = word_size
      /\ pc \in {"load", "open", "section", "records", "done"}
  BY DEF HexFileInv, HexInv, IsWindow, FileCount, Wide
<1>3. ASSUME files' = files, byte_order' = byte_order
      PROVE  \A k \in 0 .. byte_order' - 1 : IsWindow(k, files[k + 1])'
  <2> SUFFICES ASSUME NEW k \in 0 .. byte_order - 1 PROVE IsWindow(k, files[k + 1])'
    BY <1>3
  <2>1. PICK t : t = files[k + 1]
    OBVIOUS
  <2>2. IsWindow(k, t)
    BY <1>2, <2>1
  <2>3. IsWindow(k, t)'
    BY <1>1, <2>2, IsWindowStays
  <2>4. IsWindow(k, files[k + 1])' = IsWindow(k, t)'
    BY <1>3, <2>1 DEF IsWindow
  <2> QED BY <2>3, <2>4
<1>4. CASE LoadSection \/ LoadChunk \/ EndOfLoad
  <2>1. files' = files /\ byte_order' = byte_order
    BY <1>4 DEF LoadSection, LoadChunk, EndOfLoad, writerVars
  <2>2. pc' \in {"load", "open"}
    <3>1. CASE LoadChunk
      <4>1. data # <<>> /\ pc' = pc
        BY <3>1 DEF LoadChunk, WriteChunk, writerVars
      <4>2. pc = "load"
        BY <4>1 DEF HexFileInv, ImageInv
      <4> QED BY <4>1, <4>2
    <3>2. CASE LoadSection \/ EndOfLoad
      BY <3>2 DEF LoadSection, EndOfLoad
    <3> QED BY <1>4, <3>1, <3>2
  <2> QED BY <1>2, <1>3, <2>1, <2>2
<1>5. CASE UNCHANGED vars
  <2>1. /\ files' = files /\ byte_order' = byte_order /\ out' = out /\ pc' = pc
        /\ i' = i /\ address' = address /\ size' = size
    BY <1>5 DEF vars, writerVars, cursor
  <2>2. BetweenSections => BetweenSections'
    <3> SUFFICES ASSUME BetweenSections PROVE BetweenSections'
      OBVIOUS
    <3>1. PICK m : m = i - 1
      OBVIOUS
    <3>2. PICK t : t = out
      OBVIOUS
    <3>3. i' = m + 1 /\ i' - 1 = m /\ m + 1 <= Len(sections) + 1
      BY <2>1, <3>1, HexState DEF BetweenSections
    <3>4. FileCells(t, byte_order) = CellsAt(WantedUpTo(m, byte_order))
      BY <3>1, <3>2 DEF BetweenSections
    <3> QED BY <1>1, <2>1, <3>2, <3>3, <3>4, BetweenNext
  <2>3. InSection => InSection'
    <3> SUFFICES ASSUME InSection PROVE InSection'
      OBVIOUS
    <3>1. PICK p : p = address
      OBVIOUS
    <3>2. PICK z : z = size
      OBVIOUS
    <3>3. PICK t : t = out
      OBVIOUS
    <3>4. PICK A : A = WantedUpTo(i - 1, byte_order)
                       \cup {a \in Wanted(i, byte_order) : a < p}
      OBVIOUS
    <3>5. FileCells(t, byte_order) = CellsAt(A)
      BY <3>1, <3>3, <3>4 DEF InSection
    <3>6. address' = p /\ size' = z /\ out' = t
      BY <2>1, <3>1, <3>2, <3>3
    <3>7. /\ i \in Loadable /\ LowEnd <= p - byte_order
          /\ (p - byte_order) % word_size = 0
          /\ p - byte_order + z * word_size = SectionEnd
      BY <3>1, <3>2 DEF InSection
    <3> QED BY <1>1, <2>1, <3>4, <3>5, <3>6, <3>7, InSectionNext
  <2> QED BY <1>1, <1>2, <1>3, <2>1, <2>2, <2>3
<1>6. CASE OpenFile
  <2>1. /\ pc' = "section" /\ files' = files /\ byte_order' = byte_order
        /\ byte_order < FileCount
    BY <1>6 DEF OpenFile
  <2>2. BetweenSections'
    BY <1>6, OpenFileBegins
  <2> QED BY <1>1, <1>2, <1>3, <2>1, <2>2
<1>7. CASE Finish
  <2>1. pc' = "done" /\ byte_order = FileCount /\ files' = files /\ byte_order' = byte_order
    BY <1>7 DEF Finish
  <2> QED BY <1>1, <1>2, <1>3, <2>1
<1>8. CASE SkipSection
  <2>1. pc' = pc /\ pc = "section" /\ files' = files /\ byte_order' = byte_order
    BY <1>8 DEF SkipSection, AtSection
  <2>2. BetweenSections'
    BY <1>8, SkipSectionKeeps
  <2> QED BY <1>1, <1>2, <1>3, <2>1, <2>2
<1>9. CASE EnterSection
  <2>1. pc' = "records" /\ pc = "section" /\ files' = files /\ byte_order' = byte_order
    BY <1>9 DEF EnterSection, AtSection
  <2>2. InSection'
    BY <1>2, <1>9, <2>1, EnterSectionKeeps
  <2> QED BY <1>1, <1>2, <1>3, <2>1, <2>2
<1>10. CASE WriteRecord
  <2>1. pc' = pc /\ pc = "records" /\ files' = files /\ byte_order' = byte_order
    BY <1>10 DEF WriteRecord
  <2>2. InSection'
    BY <1>2, <1>10, <2>1, WriteRecordKeeps
  <2> QED BY <1>1, <1>2, <1>3, <2>1, <2>2
<1>11. CASE LeaveSection
  <2>1. pc' = "section" /\ pc = "records" /\ files' = files /\ byte_order' = byte_order
    BY <1>11 DEF LeaveSection
  <2>2. BetweenSections'
    BY <1>2, <1>11, <2>1, LeaveSectionKeeps
  <2> QED BY <1>1, <1>2, <1>3, <2>1, <2>2
<1>12. CASE HexEnd
  <2> DEFINE closed == Append(out, EndRecord)
  <2>1. pc' = "open" /\ pc = "section" /\ byte_order' = byte_order + 1
    BY <1>12 DEF HexEnd, CloseFile
  <2>2. /\ files' = Append(files, closed) /\ closed \in Seq(Records \cup {EndRecord})
        /\ IsWindow(byte_order, closed)
    BY <1>12, HexEndCloses DEF IsWindow
  <2>3. byte_order \in Nat
    BY <1>2
  <2> HIDE DEF closed
  <2>4. /\ files' \in Seq(Seq(Records \cup {EndRecord})) /\ Len(files') = byte_order + 1
        /\ files'[byte_order + 1] = closed
        /\ \A n \in 1 .. byte_order : files'[n] = files[n]
    <3> DEFINE X == Seq(Records \cup {EndRecord})
    <3>1. files \in Seq(X) /\ closed \in X /\ Len(files) = byte_order
      BY <1>2, <2>2
    <3> HIDE DEF X
    <3>2. /\ files' \in Seq(X) /\ Len(files') = byte_order + 1
          /\ files'[byte_order + 1] = closed
          /\ \A n \in 1 .. byte_order : files'[n] = files[n]
      BY <2>2, <3>1
    <3> QED BY <3>2 DEF X
  <2>5. ASSUME NEW k \in 0 .. byte_order' - 1
        PROVE  IsWindow(k, files[k + 1])'
    <3>1. PICK t : t = files'[k + 1]
      OBVIOUS
    <3>2. k = byte_order \/ k \in 0 .. byte_order - 1
      BY <2>1, <2>3
    <3>3. k \in 0 .. byte_order - 1 => k + 1 \in 1 .. byte_order
      BY <2>3
    <3>4. IsWindow(k, t)
      BY <1>2, <2>2, <2>4, <3>1, <3>2, <3>3
    <3>5. IsWindow(k, t)'
      BY <1>1, <3>4, IsWindowStays
    <3>6. IsWindow(k, files[k + 1])' = IsWindow(k, t)'
      BY <3>1 DEF IsWindow
    <3> QED BY <3>5, <3>6
  <2> QED BY <1>2, <2>1, <2>4, <2>5
<1>13. CASE RawByte \/ RawEnd \/ SingleToken \/ StartRun \/ ExtendRun \/ EndRun \/ LogisimEnd
  BY <1>2, <1>13 DEF RawByte, RawEnd, SingleToken, StartRun, ExtendRun, EndRun, LogisimEnd
<1> QED BY <1>4, <1>5, <1>6, <1>7, <1>8, <1>9, <1>10, <1>11, <1>12, <1>13 DEF Next, Read

\* Each Intel HEX file has every cell of its parity that a loaded section has
\* in the window, with the byte of the sections and at its address, and no
\* other, for every table and window, where the sections are in address order
\* or no -a cuts them, the bounds of -a are in order and what is between them
\* has addresses that fit a record, and nothing is odd when two files are
\* interleaved (Sections::binary_hex_intel).
THEOREM HexFilesCarryTheWindow == Spec => []HexCarriesTheWindow
<1>1. HexFileInv => HexCarriesTheWindow
  <2> SUFFICES ASSUME HexFileInv, Done, format = "hexintel", HexExact, NEW k \in FileNumbers
               PROVE  HexCells(k) = WindowCells(k)
    BY DEF HexCarriesTheWindow, HexExact
  <2>1. /\ byte_order = FileCount
        /\ \A n \in 0 .. byte_order - 1 : FileCells(files[n + 1], n) = WindowCells(n)
    BY DEF HexFileInv, Done
  <2>2. HexCells(k) = FileCells(files[k + 1], k)
    BY DEF HexCells, FileCells, RecordCells
  <2> QED BY <2>1, <2>2 DEF FileNumbers
<1> QED BY <1>1, HexFileInitInv, HexFileNextInv, PTL DEF Spec
=============================================================================
