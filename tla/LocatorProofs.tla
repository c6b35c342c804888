---------------------------- MODULE LocatorProofs ----------------------------
(***************************************************************************)
(* Proofs about Locator, for tables and -s maps of any size and addresses  *)
(* of any width: the list is the memory map in address order, and location *)
(* succeeds only when no two sections meet.                                *)
(***************************************************************************)
EXTENDS Locator, TLAPS

\* The address of the next section is an address.
LEMMA AlignType ==
  ASSUME NEW end \in Nat
  PROVE  Align(end) \in Address
<1> DEFINE w == (end + 1) % AddressLimit
<1>1. w \in 0 .. AddressLimit - 1
  BY AddressAssumption
<1>2. (w \div 2) * 2 \in 0 .. w
  <2> HIDE DEF w
  <2> QED BY <1>1, AddressAssumption
<1> QED BY <1>1, <1>2, AddressAssumption DEF Align, Address

\* An element of a sequence has the type of its elements.
LEMMA SeqElement ==
  ASSUME NEW T, NEW q \in Seq(T), NEW i \in DOMAIN q
  PROVE  q[i] \in T
<1>1. i \in 1 .. Len(q)
  OBVIOUS
<1> QED BY <1>1

\* Ends of sections are numbers.
LEMMA EndType ==
  ASSUME TypeOK, NEW base \in [DOMAIN sections -> Address], NEW s \in DOMAIN sections
  PROVE  /\ base[s] \in Nat
         /\ sections[s].size \in Nat
         /\ sections[s].name \in Names
         /\ End(base, s) = base[s] + sections[s].size
         /\ End(base, s) \in Nat
<1>1. sections[s] \in [name : Names, size : Nat]
  BY SeqElement DEF TypeOK
<1>2. base[s] \in Nat
  BY DEF Address
<1> QED BY <1>1, <1>2 DEF End

LEMMA RequestedType ==
  ASSUME TypeOK, NEW s \in DOMAIN sections
  PROVE  Requested(s) \in Address
BY DEF TypeOK, Requested

\* What a list insertion returns.
LEMMA InsertBeforeType ==
  ASSUME NEW T, list \in Seq(T), NEW k \in 1 .. Len(list) + 1, NEW s \in T
  PROVE  /\ InsertBefore(k, s) \in Seq(T)
         /\ Len(InsertBefore(k, s)) = Len(list) + 1
         /\ DOMAIN InsertBefore(k, s) = 1 .. Len(list) + 1
         /\ \A j \in 1 .. Len(list) + 1 :
              InsertBefore(k, s)[j] = IF j < k THEN list[j]
                                      ELSE IF j = k THEN s ELSE list[j - 1]
<1> DEFINE n == Len(list) + 1
<1>1. n \in Nat /\ Len(list) \in Nat
  OBVIOUS
<1>2. ASSUME NEW j \in 1 .. n
      PROVE  (IF j < k THEN list[j] ELSE IF j = k THEN s ELSE list[j - 1]) \in T
  <2>1. CASE j < k
    <3>1. j \in 1 .. Len(list)
      BY <2>1, <1>1
    <3> QED BY <3>1, <2>1
  <2>2. CASE j = k
    BY <2>2
  <2>3. CASE j > k
    <3>1. j - 1 \in 1 .. Len(list)
      BY <2>3, <1>1
    <3> QED BY <3>1, <2>3
  <2> QED BY <2>1, <2>2, <2>3
<1>3. InsertBefore(k, s) \in [1 .. n -> T]
  BY <1>2 DEF InsertBefore
<1>4. \A j \in 1 .. n : InsertBefore(k, s)[j] = IF j < k THEN list[j]
                                      ELSE IF j = k THEN s ELSE list[j - 1]
  BY DEF InsertBefore
<1> HIDE DEF n
<1>5. InsertBefore(k, s) \in Seq(T) /\ Len(InsertBefore(k, s)) = n
  BY <1>1, <1>3
<1> QED BY <1>3, <1>4, <1>5 DEF n

-----------------------------------------------------------------------------
\* The loop ends with every section handled; this is what makes the pairs in
\* the list all the pairs of the table.
AllPlacedAtEnd == outcome = "located" => next = Len(sections) + 1

IInv == /\ TypeOK
        /\ AllPlacedAtEnd
        /\ ListInAddressOrder
        /\ ListIsComplete
        /\ OverlapIsReported

LEMMA InitInv == Init => IInv
<1> SUFFICES ASSUME Init PROVE IInv
  OBVIOUS
<1> USE DEF Init
<1>1. sections \in Seq([name : Names, size : Nat])
  BY LayoutsAssumption
<1>2. \A n \in DOMAIN section_addresses : section_addresses[n] \in Address
  BY MapsAssumption
<1>3. 0 \in Address
  BY AddressAssumption DEF Address
<1>4. list \in Seq(1 .. next - 1)
  OBVIOUS
<1>5. next \in 1 .. Len(sections) + 1
  BY <1>1
<1>6. TypeOK
  BY <1>1, <1>2, <1>3, <1>4, <1>5 DEF TypeOK
<1> QED BY <1>6 DEF IInv, AllPlacedAtEnd, ListInAddressOrder, ListIsComplete,
                    OverlapIsReported

\* The facts both branches of the loop body share.
LEMMA AssignAddress ==
  ASSUME IInv, next <= Len(sections)
  PROVE  LET base == [base_address EXCEPT ![next] = Requested(next)]
         IN  /\ next \in DOMAIN sections
             /\ base \in [DOMAIN sections -> Address]
             /\ \A s \in DOMAIN sections : s # next => base[s] = base_address[s]
             /\ \A i \in DOMAIN list : list[i] \in 1 .. next - 1
             /\ \A i \in DOMAIN list : list[i] \in DOMAIN sections /\ list[i] # next
<1>1. /\ next \in 1 .. Len(sections)
      /\ DOMAIN sections = 1 .. Len(sections)
      /\ Len(sections) \in Nat
  BY DEF IInv, TypeOK
<1>2. \A i \in DOMAIN list : list[i] \in 1 .. next - 1
  BY DEF IInv, TypeOK
<1>3. \A i \in DOMAIN list : list[i] \in DOMAIN sections /\ list[i] # next
  BY <1>1, <1>2
<1>4. Requested(next) \in Address
  BY <1>1, RequestedType DEF IInv
<1>5. base_address \in [DOMAIN sections -> Address]
  BY DEF IInv, TypeOK
<1> QED BY <1>1, <1>2, <1>3, <1>4, <1>5

LEMMA PlaceSectionInv ==
  ASSUME IInv, PlaceSection
  PROVE  IInv'
<1> DEFINE base == [base_address EXCEPT ![next] = Requested(next)]
<1>1. PICK k \in 1 .. Len(list) + 1 :
        /\ LoopStopsAt(base, next, k)
        /\ ~MeetsOverlap(base, next, k)
        /\ list' = InsertBefore(k, next)
  BY DEF PlaceSection
<1>2. /\ outcome = "locating" /\ outcome' = outcome
      /\ next <= Len(sections) /\ next' = next + 1
      /\ base_address' = base
      /\ current_address' = Align(End(base, next))
      /\ sections' = sections /\ section_addresses' = section_addresses
      /\ empty_warnings' \subseteq empty_warnings \cup {next}
  BY DEF PlaceSection, inputs
<1>3. /\ next \in DOMAIN sections
      /\ base \in [DOMAIN sections -> Address]
      /\ \A s \in DOMAIN sections : s # next => base[s] = base_address[s]
      /\ \A i \in DOMAIN list : list[i] \in 1 .. next - 1
      /\ \A i \in DOMAIN list : list[i] \in DOMAIN sections /\ list[i] # next
  BY <1>2, AssignAddress
<1> HIDE DEF base
<1>4. /\ next \in Nat /\ next >= 1
      /\ Len(sections) \in Nat
      /\ Len(list) \in Nat
      /\ DOMAIN list = 1 .. Len(list)
  BY DEF IInv, TypeOK
<1>5. list \in Seq(1 .. next)
  BY <1>3, <1>4 DEF IInv, TypeOK
<1>6. /\ list' \in Seq(1 .. next)
      /\ Len(list') = Len(list) + 1
      /\ DOMAIN list' = 1 .. Len(list) + 1
      /\ \A j \in 1 .. Len(list) + 1 :
           list'[j] = IF j < k THEN list[j]
                      ELSE IF j = k THEN next ELSE list[j - 1]
  <2> DEFINE T == 1 .. next
  <2>1. next \in T /\ list \in Seq(T)
    BY <1>4, <1>5
  <2> HIDE DEF T
  <2>2. InsertBefore(k, next) \in Seq(T)
    BY <2>1, InsertBeforeType
  <2>3. Len(InsertBefore(k, next)) = Len(list) + 1
    BY <2>1, InsertBeforeType
  <2>4. /\ DOMAIN InsertBefore(k, next) = 1 .. Len(list) + 1
        /\ \A j \in 1 .. Len(list) + 1 :
             InsertBefore(k, next)[j] = IF j < k THEN list[j]
                                        ELSE IF j = k THEN next ELSE list[j - 1]
    BY DEF InsertBefore
  <2> QED BY <2>2, <2>3, <2>4, <1>1 DEF T
<1>7. TypeOK'
  <2>1. Align(End(base, next)) \in Address
    BY <1>3, EndType, AlignType DEF IInv
  <2>2. 1 .. next' - 1 = 1 .. next
    BY <1>2, <1>4
  <2>3. empty_warnings' \subseteq 1 .. next' - 1
    BY <1>2, <1>4, <2>2 DEF IInv, TypeOK
  <2>4. list' \in Seq(1 .. next' - 1)
    BY <1>6, <2>2
  <2>5. next' \in 1 .. Len(sections') + 1
    BY <1>2, <1>4
  <2>6. base_address' \in [DOMAIN sections' -> Address]
    BY <1>2, <1>3
  <2>7. /\ sections' \in Seq([name : Names, size : Nat])
        /\ \A n \in DOMAIN section_addresses' : section_addresses'[n] \in Address
        /\ outcome' \in {"locating", "located", "overlap"}
    BY <1>2 DEF IInv, TypeOK
  <2> QED BY <1>2, <2>1, <2>3, <2>4, <2>5, <2>6, <2>7 DEF TypeOK
<1>8. AllPlacedAtEnd'
  BY <1>2 DEF AllPlacedAtEnd
<1>9. \* ends of listed sections do not move
      \A i \in DOMAIN list : /\ End(base, list[i]) = End(base_address, list[i])
                             /\ base[list[i]] = base_address[list[i]]
                             /\ base[list[i]] \in Nat
                             /\ End(base, list[i]) \in Nat
                             /\ base[list[i]] <= End(base, list[i])
  <2> SUFFICES ASSUME NEW i \in DOMAIN list
               PROVE  /\ End(base, list[i]) = End(base_address, list[i])
                      /\ base[list[i]] = base_address[list[i]]
                      /\ base[list[i]] \in Nat
                      /\ End(base, list[i]) \in Nat
                      /\ base[list[i]] <= End(base, list[i])
    OBVIOUS
  <2>1. base[list[i]] = base_address[list[i]]
    BY <1>3
  <2>2. list[i] \in DOMAIN sections
    BY <1>3
  <2>3. /\ base[list[i]] \in Nat /\ sections[list[i]].size \in Nat
        /\ End(base, list[i]) = base[list[i]] + sections[list[i]].size
    BY <2>2, <1>3, EndType DEF IInv
  <2> QED BY <2>1, <2>3 DEF End
<1>10. /\ base[next] \in Nat /\ End(base, next) \in Nat
       /\ base[next] <= End(base, next)
  BY <1>3, EndType DEF IInv
<1>11. \* the sections before k end before the new one starts
       \A j \in 1 .. k - 1 : End(base, list[j]) <= base[next]
  <2> SUFFICES ASSUME NEW j \in 1 .. k - 1
               PROVE  End(base, list[j]) <= base[next]
    OBVIOUS
  <2>1. j \in DOMAIN list
    BY <1>4
  <2>2. ~(End(base, next) <= base[list[j]])
    BY <1>1 DEF LoopStopsAt
  <2>3. ~(End(base, next) > base[list[j]] /\ End(base, list[j]) > base[next])
    BY <1>1 DEF MeetsOverlap, Overlap
  <2> QED BY <2>1, <2>2, <2>3, <1>9, <1>10
<1>12. \* the sections from k on start after the new one ends
       \A j \in k .. Len(list) : End(base, next) <= base[list[j]]
  <2> SUFFICES ASSUME NEW j \in k .. Len(list)
               PROVE  End(base, next) <= base[list[j]]
    OBVIOUS
  <2>1. k \in DOMAIN list /\ j \in DOMAIN list
    BY <1>4
  <2>2. End(base, next) <= base[list[k]]
    BY <1>1, <1>4 DEF LoopStopsAt
  <2>3. CASE j = k
    BY <2>2, <2>3
  <2>4. CASE k < j
    <3>1. End(base_address, list[k]) <= base_address[list[j]]
      BY <2>1, <2>4 DEF IInv, ListInAddressOrder
    <3> QED BY <2>1, <2>2, <3>1, <1>9, <1>10
  <2> QED BY <2>3, <2>4, <1>4
<1>13. ListInAddressOrder'
  <2>1. ASSUME NEW i \in 1 .. Len(list) + 1, NEW j \in 1 .. Len(list) + 1, i < j
        PROVE  End(base, list'[i]) <= base[list'[j]]
    <3>1. CASE j < k
      <4>1. i \in DOMAIN list /\ j \in DOMAIN list
        BY <2>1, <3>1, <1>4
      <4>2. list'[i] = list[i] /\ list'[j] = list[j]
        BY <2>1, <3>1, <1>6
      <4>3. End(base_address, list[i]) <= base_address[list[j]]
        BY <2>1, <4>1 DEF IInv, ListInAddressOrder
      <4> QED BY <4>1, <4>2, <4>3, <1>9
    <3>2. CASE j = k
      <4>1. list'[i] = list[i] /\ list'[j] = next
        BY <2>1, <3>2, <1>6
      <4>2. i \in 1 .. k - 1
        BY <2>1, <3>2
      <4> QED BY <4>1, <4>2, <1>11
    <3>3. CASE j > k /\ i < k
      <4>1. list'[i] = list[i] /\ list'[j] = list[j - 1]
        BY <2>1, <3>3, <1>6
      <4>2. i \in 1 .. k - 1 /\ j - 1 \in k .. Len(list) /\ i \in DOMAIN list /\ j - 1 \in DOMAIN list
        BY <2>1, <3>3, <1>4
      <4>3. End(base, list[i]) <= base[next] /\ End(base, next) <= base[list[j - 1]]
        BY <4>2, <1>11, <1>12
      <4> QED BY <4>1, <4>2, <4>3, <1>9, <1>10
    <3>4. CASE j > k /\ i = k
      <4>1. list'[i] = next /\ list'[j] = list[j - 1]
        BY <2>1, <3>4, <1>6
      <4>2. j - 1 \in k .. Len(list)
        BY <2>1, <3>4, <1>4
      <4> QED BY <4>1, <4>2, <1>12
    <3>5. CASE j > k /\ i > k
      <4>1. list'[i] = list[i - 1] /\ list'[j] = list[j - 1]
        BY <2>1, <3>5, <1>6
      <4>2. i - 1 \in DOMAIN list /\ j - 1 \in DOMAIN list /\ i - 1 < j - 1
        BY <2>1, <3>5, <1>4
      <4>3. End(base_address, list[i - 1]) <= base_address[list[j - 1]]
        BY <4>2 DEF IInv, ListInAddressOrder
      <4> QED BY <4>1, <4>2, <4>3, <1>9
    <3> QED BY <2>1, <3>1, <3>2, <3>3, <3>4, <3>5
  <2>2. \A i \in DOMAIN list' : End(base, list'[i]) = End(base_address, list[i])'
    BY <1>2 DEF End
  <2> QED BY <2>1, <1>2, <1>6 DEF ListInAddressOrder, End
<1>14. ListIsComplete'
  <2>1. ASSUME NEW s \in 1 .. next
        PROVE  \E i \in DOMAIN list' : list'[i] = s
    <3>1. CASE s = next
      <4>1. k \in DOMAIN list' /\ list'[k] = next
        BY <1>4, <1>6
      <4> QED BY <3>1, <4>1
    <3>2. CASE s # next
      <4>1. PICK i \in DOMAIN list : list[i] = s
        BY <2>1, <3>2, <1>4 DEF IInv, ListIsComplete
      <4>2. CASE i < k
        <5>1. i \in 1 .. Len(list) + 1 /\ list'[i] = s
          BY <4>1, <4>2, <1>4, <1>6
        <5> QED BY <5>1, <1>6
      <4>3. CASE i >= k
        <5>1. i + 1 \in 1 .. Len(list) + 1 /\ i + 1 > k /\ (i + 1) - 1 = i
          BY <4>1, <4>3, <1>4
        <5>2. list'[i + 1] = s
          BY <5>1, <4>1, <1>6
        <5> QED BY <5>1, <5>2, <1>6
      <4> QED BY <4>1, <4>2, <4>3, <1>4
    <3> QED BY <3>1, <3>2
  <2>2. ASSUME NEW i \in DOMAIN list', NEW j \in DOMAIN list', list'[i] = list'[j]
        PROVE  i = j
    <3> DEFINE at(m) == IF m < k THEN m ELSE m - 1
    <3>1. ASSUME NEW m \in DOMAIN list', m # k
          PROVE  at(m) \in DOMAIN list /\ list'[m] = list[at(m)] /\ list'[m] # next
      <4>1. at(m) \in DOMAIN list /\ list'[m] = list[at(m)]
        BY <3>1, <1>4, <1>6
      <4> HIDE DEF at
      <4> QED BY <4>1, <1>3
    <3>2. list'[k] = next
      BY <1>1, <1>4, <1>6
    <3>3. CASE i = k \/ j = k
      BY <2>2, <3>1, <3>2, <3>3
    <3>4. CASE i # k /\ j # k
      <4>1. at(i) \in DOMAIN list /\ at(j) \in DOMAIN list /\ list[at(i)] = list[at(j)]
        <5> HIDE DEF at
        <5> QED BY <2>2, <3>1, <3>4
      <4>2. at(i) = at(j)
        <5> HIDE DEF at
        <5> QED BY <4>1 DEF IInv, ListIsComplete
      <4> QED BY <4>2, <3>4, <1>6
    <3> QED BY <3>3, <3>4
  <2>3. 1 .. next' - 1 = 1 .. next
    BY <1>2, <1>4
  <2> QED BY <2>1, <2>2, <2>3 DEF ListIsComplete
<1>15. OverlapIsReported'
  BY <1>2 DEF OverlapIsReported
<1> QED BY <1>7, <1>8, <1>13, <1>14, <1>15 DEF IInv

LEMMA OverlapExitInv ==
  ASSUME IInv, OverlapExit
  PROVE  IInv'
<1> DEFINE base == [base_address EXCEPT ![next] = Requested(next)]
<1>1. PICK k \in 1 .. Len(list) + 1 :
        LoopStopsAt(base, next, k) /\ MeetsOverlap(base, next, k)
  BY DEF OverlapExit
<1>2. /\ next <= Len(sections) /\ next' = next
      /\ outcome' = "overlap"
      /\ base_address' = base
      /\ list' = list /\ current_address' = current_address
      /\ empty_warnings' = empty_warnings
      /\ sections' = sections /\ section_addresses' = section_addresses
  BY DEF OverlapExit, inputs
<1>3. /\ base \in [DOMAIN sections -> Address]
      /\ \A s \in DOMAIN sections : s # next => base[s] = base_address[s]
      /\ \A i \in DOMAIN list : list[i] \in 1 .. next - 1
      /\ \A i \in DOMAIN list : list[i] \in DOMAIN sections /\ list[i] # next
  BY <1>2, AssignAddress
<1> HIDE DEF base
<1>4. TypeOK'
  BY <1>2, <1>3 DEF IInv, TypeOK
<1>5. AllPlacedAtEnd' /\ ListIsComplete'
  BY <1>2 DEF IInv, AllPlacedAtEnd, ListIsComplete
<1>6. ListInAddressOrder'
  <2>1. \A i \in DOMAIN list : base[list[i]] = base_address[list[i]]
    BY <1>3
  <2> QED BY <2>1, <1>2 DEF IInv, ListInAddressOrder, End
<1>7. OverlapIsReported'
  <2>1. PICK j \in 1 .. k - 1 : Overlap(base, next, list[j])
    BY <1>1 DEF MeetsOverlap
  <2>2. list[j] \in 1 .. next - 1
    <3>1. j \in DOMAIN list
      BY <1>1 DEF IInv, TypeOK
    <3> QED BY <3>1, <1>3
  <2> QED BY <2>1, <2>2, <1>2 DEF OverlapIsReported, Overlap, End
<1> QED BY <1>4, <1>5, <1>6, <1>7 DEF IInv

LEMMA FinishInv ==
  ASSUME IInv, Finish
  PROVE  IInv'
<1>1. /\ outcome' = "located" /\ next > Len(sections)
      /\ UNCHANGED <<sections, section_addresses, base_address, list, next,
                     current_address, empty_warnings>>
  BY DEF Finish, inputs
<1>2. next = Len(sections) + 1 /\ DOMAIN sections = 1 .. next - 1
  <2>1. /\ DOMAIN sections = 1 .. Len(sections) /\ Len(sections) \in Nat
        /\ next \in 1 .. Len(sections) + 1
    BY DEF IInv, TypeOK
  <2> QED BY <2>1, <1>1
<1>3. ASSUME NEW s \in DOMAIN sections, NEW r \in DOMAIN sections, s # r
      PROVE  ~Overlap(base_address, s, r)
  <2>1. PICK i \in DOMAIN list : list[i] = s
    BY <1>2 DEF IInv, ListIsComplete
  <2>2. PICK j \in DOMAIN list : list[j] = r
    BY <1>2 DEF IInv, ListIsComplete
  <2>3. i \in Nat /\ j \in Nat /\ i # j
    BY <1>3, <2>1, <2>2, SMTT(60) DEF IInv, TypeOK
  <2>4. End(base_address, s) <= base_address[r] \/ End(base_address, r) <= base_address[s]
    <3>1. i < j \/ j < i
      BY <2>3
    <3> QED BY <3>1, <2>1, <2>2 DEF IInv, ListInAddressOrder
  <2>5. /\ base_address[r] \in Nat /\ base_address[s] \in Nat
        /\ End(base_address, s) \in Nat /\ End(base_address, r) \in Nat
    BY EndType DEF IInv, TypeOK
  <2> QED BY <2>4, <2>5 DEF Overlap
<1>4. OverlapIsReported'
  BY <1>1, <1>3 DEF OverlapIsReported, Overlap, End
<1>5. TypeOK' /\ AllPlacedAtEnd'
  BY <1>1, <1>2 DEF IInv, TypeOK, AllPlacedAtEnd
<1>6. ListInAddressOrder' /\ ListIsComplete'
  BY <1>1 DEF IInv, ListInAddressOrder, ListIsComplete, End
<1> QED BY <1>4, <1>5, <1>6 DEF IInv

LEMMA NextInv == IInv /\ [Next]_vars => IInv'
<1>1. ASSUME IInv, UNCHANGED vars
      PROVE  IInv'
  BY <1>1 DEF vars, IInv, TypeOK, AllPlacedAtEnd, ListInAddressOrder,
              ListIsComplete, OverlapIsReported, Overlap, End
<1> QED BY <1>1, PlaceSectionInv, OverlapExitInv, FinishInv DEF Next

\* The list built by address_is_free is the memory map: all the sections
\* handled, each once, each ending before the next one starts.
THEOREM ListIsTheMemoryMap ==
  Spec => [](TypeOK /\ ListInAddressOrder /\ ListIsComplete)
<1>1. IInv => TypeOK /\ ListInAddressOrder /\ ListIsComplete
  BY DEF IInv
<1> QED BY <1>1, InitInv, NextInv, PTL DEF Spec

\* The assembler goes on only when no two sections of the table share a byte
\* of the address space, and gives up only when two do.
THEOREM OverlapsAreReported == Spec => []OverlapIsReported
<1>1. IInv => OverlapIsReported
  BY DEF IInv
<1> QED BY <1>1, InitInv, NextInv, PTL DEF Spec
\* Every section handled is in the list once and only once, so that the writers,
\* which walk the list, miss no section and write none twice.
THEOREM ListHoldsEverySection == Spec => []ListIsComplete
<1>1. IInv => ListIsComplete
  BY DEF IInv
<1> QED BY <1>1, InitInv, NextInv, PTL DEF Spec

\* In a located table the first entry of the list starts lowest and the last
\* one ends highest, although the loop only compared neighbours.
LEMMA WindowFromList ==
  ASSUME IInv
  PROVE  WindowHoldsSections
<1> SUFFICES ASSUME outcome = "located",
                    \A r \in DOMAIN sections : End(base_address, r) < AddressLimit,
                    NEW s \in DOMAIN sections
             PROVE  /\ LowerAddress <= base_address[s]
                    /\ End(base_address, s) <= HigherAddress
  BY DEF WindowHoldsSections
<1> DEFINE first == list[1]
           last == list[Len(list)]
<1>1. DOMAIN sections = 1 .. next - 1
  BY DEF IInv, TypeOK, AllPlacedAtEnd
<1>2. PICK i \in DOMAIN list : list[i] = s
  BY <1>1 DEF IInv, ListIsComplete
<1>3. /\ DOMAIN list = 1 .. Len(list) /\ Len(list) \in Nat
      /\ 1 \in DOMAIN list /\ Len(list) \in DOMAIN list
      /\ i \in 1 .. Len(list) /\ list # <<>>
  BY <1>2 DEF IInv, TypeOK
<1>4. first \in DOMAIN sections /\ last \in DOMAIN sections
  BY <1>1, <1>3, SeqElement DEF IInv, TypeOK
<1>5. \A r \in DOMAIN sections : /\ base_address[r] \in Nat
                                 /\ End(base_address, r) \in Nat
                                 /\ base_address[r] <= End(base_address, r)
  <2> SUFFICES ASSUME NEW r \in DOMAIN sections
               PROVE  /\ base_address[r] \in Nat
                      /\ End(base_address, r) \in Nat
                      /\ base_address[r] <= End(base_address, r)
    OBVIOUS
  <2>1. /\ base_address[r] \in Nat /\ sections[r].size \in Nat
        /\ End(base_address, r) = base_address[r] + sections[r].size
    BY EndType DEF IInv, TypeOK
  <2> QED BY <2>1
<1>6. LowerAddress <= base_address[s]
  <2>1. i = 1 \/ End(base_address, first) <= base_address[s]
    BY <1>2, <1>3 DEF IInv, ListInAddressOrder
  <2> HIDE DEF first
  <2>2. base_address[first] <= base_address[s]
    BY <2>1, <1>2, <1>4, <1>5 DEF first
  <2> QED BY <2>2, <1>3 DEF LowerAddress, first
<1>7. End(base_address, s) <= HigherAddress
  <2>1. i = Len(list) \/ End(base_address, s) <= base_address[last]
    BY <1>2, <1>3 DEF IInv, ListInAddressOrder
  <2>2. End(base_address, s) <= End(base_address, last)
    <3> HIDE DEF last
    <3> QED BY <2>1, <1>2, <1>4, <1>5 DEF last
  <2>3. End(base_address, last) % AddressLimit = End(base_address, last)
    <3> DEFINE e == End(base_address, last)
    <3>1. e \in Nat /\ e < AddressLimit
      BY <1>4, <1>5
    <3> HIDE DEF e
    <3>2. e % AddressLimit = e
      BY <3>1, AddressAssumption
    <3> QED BY <3>2 DEF e
  <2> QED BY <2>2, <2>3, <1>3 DEF HigherAddress
<1> QED BY <1>6, <1>7

\* When no section runs over the end of the address space, the window the
\* writers take by default holds every byte of every section.
THEOREM WindowIsWideEnough == Spec => []WindowHoldsSections
<1>1. IInv => WindowHoldsSections
  BY WindowFromList
<1> QED BY <1>1, InitInv, NextInv, PTL DEF Spec
=============================================================================
