---------------------------- MODULE AddressProofs ----------------------------
(***************************************************************************)
(* Addresses are computed rightly for any base of the range, any number of *)
(* frames and disk pages, and any width of an unsigned int.                *)
(***************************************************************************)
EXTENDS Addresses, TLAPS

(* A remainder is smaller than the divisor.                                *)
LEMMA ModBound ==
  ASSUME NEW a \in Nat, NEW b \in Nat, b > 0
  PROVE  a % b \in Nat /\ a % b < b
OBVIOUS

(* Eight words, 64 bytes, are the grain of random_number.                  *)
LEMMA ChunkBound ==
  ASSUME NEW random \in Nat
  PROVE  /\ Chunk(random) \in Nat
         /\ Chunk(random) % 8 = 0
         /\ 8 * Chunk(random) + 64 <= VIRTUAL_ADDRESS_SIZE_IN_BYTES
<1> DEFINE C == VIRTUAL_ADDRESS_SIZE_IN_UNSIGNED_CHUNKS
           r == random % C
<1>1. /\ VIRTUAL_ADDRESS_SIZE_IN_PAGES \in Nat
      /\ VIRTUAL_ADDRESS_SIZE_IN_PAGES > 0
  BY AddressAssumption DEF VIRTUAL_ADDRESS_SIZE_IN_PAGES
<1>2. /\ C = 512 * VIRTUAL_ADDRESS_SIZE_IN_PAGES
      /\ VIRTUAL_ADDRESS_SIZE_IN_BYTES = 8 * C
      /\ C \in Nat /\ C > 0 /\ C % 8 = 0
  BY <1>1 DEF VIRTUAL_ADDRESS_SIZE_IN_UNSIGNED_CHUNKS,
              VIRTUAL_ADDRESS_SIZE_IN_BYTES, PAGE_SIZE, UlongPtr
<1> HIDE DEF C
<1>3. r \in Nat /\ r < C
  BY <1>2, ModBound
<1>4. Chunk(random) = 8 * (r \div 8)
  BY DEF Chunk, C
<1> HIDE DEF r
<1> QED  BY <1>2, <1>3, <1>4

(* What an access is, and where its page lies.                             *)
IsAccess(va) ==
  /\ va \in Nat
  /\ va >= vaBase
  /\ (va - vaBase) % 64 = 0
  /\ va + 64 <= vaBase + VIRTUAL_ADDRESS_SIZE_IN_BYTES

LEMMA AccessAddress ==
  ASSUME NEW random \in Nat
  PROVE  IsAccess(vaBase + Chunk(random) * UlongPtr)
<1> DEFINE n == Chunk(random)
<1>1. n \in Nat /\ n % 8 = 0 /\ 8 * n + 64 <= VIRTUAL_ADDRESS_SIZE_IN_BYTES
  BY ChunkBound
<1>2. VIRTUAL_ADDRESS_SIZE_IN_BYTES \in Nat
  BY AddressAssumption DEF VIRTUAL_ADDRESS_SIZE_IN_BYTES,
                           VIRTUAL_ADDRESS_SIZE_IN_PAGES, PAGE_SIZE
<1> HIDE DEF n
<1>3. (n * 8) % 64 = 0
  BY <1>1
<1>4. vaBase + n * 8 - vaBase = n * 8
  BY <1>1, AddressAssumption
<1> QED  BY <1>1, <1>2, <1>3, <1>4, AddressAssumption DEF IsAccess, UlongPtr, n

(* The range begins and ends with a page, so the words of an access are in *)
(* one of its pages, and the entry with that number leads back to it.      *)
LEMMA PageOfAccess ==
  ASSUME NEW va, IsAccess(va)
  PROVE  /\ (va % PAGE_SIZE) + UlongPtr <= PAGE_SIZE
         /\ va_to_pte(va) \in 0 .. VIRTUAL_ADDRESS_SIZE_IN_PAGES - 1
         /\ pte_to_va(va_to_pte(va)) = PageAt(va)
<1> DEFINE N == VIRTUAL_ADDRESS_SIZE_IN_PAGES
           q == vaBase \div 4096
           o == va - vaBase
<1>1. N \in Nat
  BY AddressAssumption DEF VIRTUAL_ADDRESS_SIZE_IN_PAGES
<1>2. q \in Nat /\ vaBase = 4096 * q
  BY AddressAssumption DEF PAGE_SIZE
<1>3. o \in Nat /\ o % 64 = 0 /\ o + 64 <= 4096 * N
  BY <1>1, AddressAssumption
     DEF IsAccess, VIRTUAL_ADDRESS_SIZE_IN_BYTES, PAGE_SIZE
<1>4. va = 4096 * q + o
  BY <1>2, AddressAssumption DEF IsAccess
<1> HIDE DEF N, q, o
<1>5. va % 4096 = o % 4096 /\ (o % 4096) + 8 <= 4096
  BY <1>2, <1>3, <1>4
<1>6. o \div 4096 \in 0 .. N - 1
  BY <1>1, <1>3
<1>7. va_to_pte(va) = o \div 4096
  BY DEF va_to_pte, PAGE_SIZE, o
<1>8. 4096 * (o \div 4096) + 4096 * q = va - (va % 4096)
  BY <1>2, <1>3, <1>4
<1>9. pte_to_va(va_to_pte(va)) = 4096 * (o \div 4096) + 4096 * q
  BY <1>2, <1>3, <1>7 DEF pte_to_va, PAGE_SIZE
<1> QED  BY <1>5, <1>6, <1>7, <1>8, <1>9 DEF PAGE_SIZE, UlongPtr, PageAt, N

AddressInv ==
  /\ arbitrary_va # NULL => IsAccess(arbitrary_va)
  /\ pte # NULL => /\ arbitrary_va # NULL
                   /\ pte = va_to_pte(arbitrary_va)
                   /\ mapped = PageAt(arbitrary_va)
  /\ pte = NULL => mapped = NULL

LEMMA AddressInvariant == Spec => []AddressInv
<1>1. Init => AddressInv
  BY DEF Init, AddressInv
<1>2. AddressInv /\ [Next]_vars => AddressInv'
  <2> SUFFICES ASSUME AddressInv, [Next]_vars PROVE AddressInv'
    OBVIOUS
  <2> USE DEF AddressInv
  <2>1. CASE UNCHANGED vars
    BY <2>1 DEF vars
  <2>2. CASE Access
    <3>1. PICK random \in Unsigned :
            arbitrary_va' = vaBase + Chunk(random) * UlongPtr
      BY <2>2 DEF Access
    <3>2. random \in Nat
      BY <3>1 DEF Unsigned
    <3>3. IsAccess(arbitrary_va')
      BY <3>1, <3>2, AccessAddress
    <3>4. UNCHANGED <<pte, mapped>> /\ pte = NULL
      BY <2>2 DEF Access
    <3> QED  BY <3>3, <3>4
  <2>3. CASE pageFaultHandler
    <3>1. IsAccess(arbitrary_va)
      BY <2>3 DEF pageFaultHandler
    <3>2. va_to_pte(arbitrary_va) \in Nat
      BY <3>1, PageOfAccess, AddressAssumption DEF VIRTUAL_ADDRESS_SIZE_IN_PAGES
    <3> QED  BY <2>3, <3>1, <3>2, AddressAssumption DEF pageFaultHandler
  <2>4. CASE trimPage
    <3>1. mapped = pte_to_va(pte)
      BY <2>4, PageOfAccess DEF trimPage
    <3> QED  BY <2>4, <3>1 DEF trimPage
  <2> QED  BY <2>1, <2>2, <2>3, <2>4 DEF Next
<1> QED  BY <1>1, <1>2, PTL DEF Spec

(* No access straddles a page or leaves the range (main.c:255-262).        *)
THEOREM AccessAlwaysStaysInPage == Spec => []AccessStaysInPage
<1>1. AddressInv => AccessStaysInPage
  BY PageOfAccess, AddressAssumption
     DEF AddressInv, AccessStaysInPage, IsAccess, UlongPtr,
         VIRTUAL_ADDRESS_SIZE_IN_BYTES, VIRTUAL_ADDRESS_SIZE_IN_PAGES, PAGE_SIZE
<1> QED  BY <1>1, AddressInvariant, PTL

(* The trimmer unmaps the page that the handler mapped (pte.c:6-16).       *)
THEOREM EntryAlwaysLeadsBack == Spec => []EntryLeadsBack
<1>1. AddressInv => EntryLeadsBack
  BY PageOfAccess DEF AddressInv, EntryLeadsBack
<1> QED  BY <1>1, AddressInvariant, PTL
==============================================================================
