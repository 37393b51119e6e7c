----------------------------- MODULE Addresses -----------------------------
(***************************************************************************)
(* Virtual and physical addresses (addr.h, addr_mng.c): the conversions    *)
(* between a 64-bit number, the five fields of a virt_addr_t, and a        *)
(* physical page with an offset.  A shift and a mask are a quotient and a  *)
(* remainder; "|" of fields that do not overlap is a sum.                  *)
(***************************************************************************)
EXTENDS Integers

CONSTANTS PageSize,    \* 4096
          PdEntries    \* 512, the entries of a page directory

Index == 0 .. (PdEntries - 1)
PageOffset == 0 .. (PageSize - 1)
VirtAddr == [pgd : Index, pud : Index, pmd : Index, pte : Index, page_offset : PageOffset]

\* init_virt_addr refuses a field that is too wide.
Fits(pgd, pud, pmd, pte, page_offset) ==
  {pgd, pud, pmd, pte} \subseteq Index /\ page_offset \in PageOffset

InitVirtAddr(pgd, pud, pmd, pte, page_offset) ==
  [pgd |-> pgd, pud |-> pud, pmd |-> pmd, pte |-> pte, page_offset |-> page_offset]

\* init_virt_addr64: the bits above the PGD entry are dropped.
InitVirtAddr64(n) ==
  [page_offset |-> n % PageSize,
   pte |-> (n \div PageSize) % PdEntries,
   pmd |-> (n \div (PageSize * PdEntries)) % PdEntries,
   pud |-> (n \div (PageSize * PdEntries * PdEntries)) % PdEntries,
   pgd |-> (n \div (PageSize * PdEntries * PdEntries * PdEntries)) % PdEntries]

VirtualPageNumber(v) ==
  v.pte + PdEntries * v.pmd + PdEntries * PdEntries * v.pud
        + PdEntries * PdEntries * PdEntries * v.pgd

ToUint64(v) == PageSize * VirtualPageNumber(v) + v.page_offset

\* init_phy_addr refuses a page that does not begin at a multiple of the page size.
IsPageBegin(page_begin) == page_begin % PageSize = 0
InitPhyAddr(page_begin, page_offset) ==
  [phy_page_num |-> page_begin \div PageSize, page_offset |-> page_offset]

ASSUME PageAssumption == PageSize \in Nat \ {0} /\ PdEntries \in Nat \ {0}

VirtSize == PageSize * (PdEntries * (PdEntries * (PdEntries * PdEntries)))

(***************************************************************************)
(* virt_addr_t_to_uint64_t is "the reciprocal of init_virt_addr64"         *)
(* (addr_mng.h): a number comes back with the reserved bits cleared, the   *)
(* fields are in range, and the page number is the address without its     *)
(* offset.                                                                 *)
(***************************************************************************)
RoundTrips(n) ==
  LET v == InitVirtAddr64(n)
  IN /\ Fits(v.pgd, v.pud, v.pmd, v.pte, v.page_offset)
     /\ v = InitVirtAddr(v.pgd, v.pud, v.pmd, v.pte, v.page_offset)
     /\ ToUint64(v) = n % VirtSize
     /\ VirtualPageNumber(v) = (n % VirtSize) \div PageSize

=============================================================================
