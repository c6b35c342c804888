----------------------------- MODULE MemorySpace -----------------------------
(***************************************************************************)
(* The paged memory that sections are loaded into and images are dumped     *)
(* from (src/src/memory_space.cpp, memory_space.h).  A page that was never  *)
(* written shares page_zero; the first write gives it a block of its own.   *)
(* write8, write16, write32 and read, which nothing calls, are left out.    *)
(***************************************************************************)
EXTENDS Naturals, Sequences

CONSTANTS PageSize, Pages,  \* 4096 and 16 in the program
          ByteLimit,        \* values of a byte: 256 in the program
          Addresses,        \* the addresses callers write at: base addresses
          Blocks            \* what they write: contents of sections

Byte == 0 .. ByteLimit - 1

\* The asserts of the constructor ask for powers of two; evenness is what the
\* aligned reads need of them.
ASSUME PageAssumption == /\ PageSize \in Nat \ {0} /\ PageSize % 2 = 0
                         /\ Pages \in Nat \ {0} /\ ByteLimit \in Nat \ {0}
ASSUME WriteAssumption == Addresses \subseteq Nat /\ Blocks \subseteq Seq(Byte)

VARIABLES
  page_table,               \* page index -> [present, data]; data points into heap
  heap,                     \* the blocks allocated; heap[1] is page_zero
  page_index, byte_offset,  \* cursor of write
  data                      \* what write has still to copy

memoryVars == <<page_table, heap, page_index, byte_offset, data>>

PageIndexes == 0 .. Pages - 1
Offsets == 0 .. PageSize - 1
page_zero == 1

Smaller(m, n) == IF m <= n THEN m ELSE n

\* (address >> page_bits) & page_table_mask, and address & page_mask
PageOf(address) == (address \div PageSize) % Pages
OffsetOf(address) == address % PageSize

ZeroPage == [o \in Offsets |-> 0]

-----------------------------------------------------------------------------
MemoryInit ==
  /\ page_table = [p \in PageIndexes |-> [present |-> FALSE, data |-> page_zero]]
  /\ heap = <<ZeroPage>>
  /\ page_index = 0 /\ byte_offset = 0 /\ data = <<>>

\* A call of write; the loop of the call before it has ended.
Write(address, block) ==
  /\ data = <<>>
  /\ page_index' = PageOf(address) /\ byte_offset' = OffsetOf(address)
  /\ data' = block
  /\ UNCHANGED <<page_table, heap>>

\* Mutant: the part is copied from the start of the page.
CopiedFromStart(page, part) ==
  [o \in Offsets |-> IF o < Len(part) THEN part[o + 1] ELSE page[o]]

\* memcpy of `part` in a page, from byte_offset.
Copied(page, part) ==
  [o \in Offsets |-> IF byte_offset <= o /\ o < byte_offset + Len(part)
                     THEN part[o - byte_offset + 1]
                     ELSE page[o]]

\* The heap once the page written owns a block.
Allocate == IF page_table[page_index].present THEN heap
            ELSE Append(heap, ZeroPage)

\* Mutant: a page is written through the pointer it had.
BlockAlreadyThere == page_table[page_index].data

BlockWritten == IF page_table[page_index].present THEN page_table[page_index].data
                ELSE Len(heap) + 1

NextPage == (page_index + 1) % Pages

\* One iteration of write: what fits in the page.
WriteChunk ==
  LET nbytes == Smaller(Len(data), PageSize - byte_offset)
  IN  /\ data # <<>>
      /\ page_table' = [page_table EXCEPT ![page_index] =
                          [present |-> TRUE, data |-> BlockWritten]]
      /\ heap' = [Allocate EXCEPT ![BlockWritten] =
                    Copied(@, SubSeq(data, 1, nbytes))]
      /\ data' = SubSeq(data, nbytes + 1, Len(data))
      /\ page_index' = NextPage
      /\ byte_offset' = 0

MemoryNext == \/ \E address \in Addresses, block \in Blocks : Write(address, block)
              \/ WriteChunk

MemorySpec == MemoryInit /\ [][MemoryNext]_memoryVars

-----------------------------------------------------------------------------
\* Reads, through the page table whether or not a page is present.
Peek(page, offset) == heap[page_table[page].data][offset]

Read8(address) == Peek(PageOf(address), OffsetOf(address))

\* An aligned word comes from one page, an odd one from two calls of read8.
Read16(address) ==
  IF address % 2 # 0 THEN Read8(address) + ByteLimit * Read8(address + 1)
  ELSE LET page == PageOf(address)
           offset == OffsetOf(address)
       IN  Peek(page, offset) + ByteLimit * Peek(page, offset + 1)

-----------------------------------------------------------------------------
MemoryTypeOK ==
  /\ heap \in Seq([Offsets -> Byte])
  /\ page_table \in [PageIndexes -> [present : BOOLEAN, data : DOMAIN heap]]
  /\ page_index \in PageIndexes /\ byte_offset \in Offsets
  /\ data \in Seq(Byte)

\* The page shared by what was never written stays zero, and no two pages, nor
\* a page and page_zero, share a block once one of them was written.
PagesAreSeparate ==
  /\ heap[page_zero] = ZeroPage
  /\ \A p, q \in PageIndexes :
       page_table[p].data = page_table[q].data /\ p # q =>
         page_table[p].data = page_zero
  /\ \A p \in PageIndexes :
       page_table[p].present <=> page_table[p].data # page_zero

Space == Pages * PageSize

\* Refinement mapping: the bytes reads return, with those write has still to
\* copy already in place.
Seen == [a \in 0 .. Space - 1 |-> Read8(a)]

Plain == INSTANCE FlatMemory WITH cells <- Seen

Cells == Plain!Overlay(Seen, page_index * PageSize + byte_offset, data)

Flat == INSTANCE FlatMemory WITH cells <- Cells

=============================================================================
