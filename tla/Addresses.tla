------------------------------ MODULE Addresses ------------------------------
(***************************************************************************)
(* The arithmetic between an access at an arbitrary address, the page      *)
(* table entry of its page, and the page that is mapped and unmapped:      *)
(* accessVirtualMemory (main.c), va_to_pte and pte_to_va (pte.c), with the *)
(* sizes of initializer.h.  Elsewhere a page and its entry are one value.  *)
(***************************************************************************)
EXTENDS Naturals

CONSTANTS
  NUMBER_OF_PHYSICAL_PAGES,
  NUMBER_OF_DISK_PAGES,
  vaBase,       (* start of the range: page aligned, as reserved           *)
  UnsignedBits, (* width of an unsigned int: 32                            *)
  NULL

PAGE_SIZE == 4096
UlongPtr == 8  (* sizeof(ULONG_PTR)                                        *)

ASSUME AddressAssumption ==
  /\ NUMBER_OF_PHYSICAL_PAGES \in Nat \ {0}
  /\ NUMBER_OF_DISK_PAGES \in Nat
  /\ NUMBER_OF_DISK_PAGES >= 2
  /\ vaBase \in Nat
  /\ vaBase % PAGE_SIZE = 0
  /\ NULL \notin Nat

VIRTUAL_ADDRESS_SIZE_IN_PAGES ==
  NUMBER_OF_PHYSICAL_PAGES + NUMBER_OF_DISK_PAGES - 2
VIRTUAL_ADDRESS_SIZE_IN_BYTES == VIRTUAL_ADDRESS_SIZE_IN_PAGES * PAGE_SIZE
VIRTUAL_ADDRESS_SIZE_IN_UNSIGNED_CHUNKS ==
  VIRTUAL_ADDRESS_SIZE_IN_BYTES \div UlongPtr

(* The product of three calls of rand may be any unsigned number.          *)
Unsigned == 0 .. 2 ^ UnsignedBits - 1

(* random_number counts words, and is rounded down to a multiple of eight. *)
(* Seeded fault: taken modulo the number of bytes.                         *)
ChunkOfBytes(random) == 8 * ((random % VIRTUAL_ADDRESS_SIZE_IN_BYTES) \div 8)
Chunk(random) ==
  8 * ((random % VIRTUAL_ADDRESS_SIZE_IN_UNSIGNED_CHUNKS) \div 8)

(* Pointers to entries are given by their index.                           *)
va_to_pte(va) == (va - vaBase) \div PAGE_SIZE

pte_to_vaFromZero(pte) == pte * PAGE_SIZE  (* seeded fault: no base *)
pte_to_va(pte) == pte * PAGE_SIZE + vaBase

(* MapUserPhysicalPages maps the page that contains the address.           *)
PageAt(va) == va - (va % PAGE_SIZE)

VARIABLES
  arbitrary_va,  (* the access in progress                                 *)
  pte,           (* entry of the page that was faulted in                  *)
  mapped         (* address of the page that is mapped                     *)

vars == <<arbitrary_va, pte, mapped>>

Init == arbitrary_va = NULL /\ pte = NULL /\ mapped = NULL

Access ==
  /\ arbitrary_va = NULL
  /\ \E random \in Unsigned : arbitrary_va' = vaBase + Chunk(random) * UlongPtr
  /\ UNCHANGED <<pte, mapped>>

(* The handler is given the address of the access, finds the entry and     *)
(* maps the page.                                                          *)
pageFaultHandler ==
  /\ arbitrary_va # NULL
  /\ pte = NULL
  /\ pte' = va_to_pte(arbitrary_va)
  /\ mapped' = PageAt(arbitrary_va)
  /\ arbitrary_va' = arbitrary_va

(* The trimmer finds the page from the entry alone and unmaps it.          *)
trimPage ==
  /\ pte # NULL
  /\ mapped' = IF mapped = pte_to_va(pte) THEN NULL ELSE mapped
  /\ arbitrary_va' = NULL
  /\ pte' = NULL

Next == Access \/ pageFaultHandler \/ trimPage

Spec == Init /\ [][Next]_vars
------------------------------------------------------------------------------
(* "Ensure the write to the arbitrary virtual address doesn't straddle a   *)
(* PAGE_SIZE boundary" (main.c:255-257), nor leaves the range: the words   *)
(* counted by random_number (251, 262) are the words of the range.         *)
AccessStaysInPage ==
  arbitrary_va # NULL =>
    /\ arbitrary_va >= vaBase
    /\ arbitrary_va + UlongPtr <= vaBase + VIRTUAL_ADDRESS_SIZE_IN_BYTES
    /\ (arbitrary_va % PAGE_SIZE) + UlongPtr <= PAGE_SIZE

(* The entry that is found for an access is inside the page table, and     *)
(* leads the trimmer (trimmer.c:50, 79) back to the very page that the     *)
(* handler mapped (pagefaulthandler.c:34), whichever address in the page   *)
(* faulted: no page stays mapped because another one was unmapped for it.  *)
EntryLeadsBack ==
  /\ pte # NULL => pte \in 0 .. VIRTUAL_ADDRESS_SIZE_IN_PAGES - 1
  /\ IF pte # NULL THEN mapped = pte_to_va(pte) ELSE mapped = NULL
==============================================================================
