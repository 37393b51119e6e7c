---------------------------- MODULE AddressProofs ----------------------------
(***************************************************************************)
(* Theorems about Addresses, for every page size, every size of a page     *)
(* directory and every number: an address is a number in a mixed base.     *)
(***************************************************************************)
EXTENDS Addresses, TLAPS

LEMMA Mod == ASSUME NEW a \in Nat, NEW n \in Nat \ {0} PROVE a % n \in 0 .. (n - 1)
  BY SMT

LEMMA Div == ASSUME NEW a \in Nat, NEW n \in Nat \ {0} PROVE a \div n \in Nat
  BY SMT

LEMMA Euclid ==
  ASSUME NEW a \in Nat, NEW n \in Nat \ {0}
  PROVE  a = (a \div n) * n + (a % n)
  BY SMT

LEMMA Product == ASSUME NEW m \in Nat \ {0}, NEW n \in Nat \ {0} PROVE m * n \in Nat \ {0}
  BY SMT

\* The quotient and the remainder are the only ones there are.
LEMMA Unique ==
  ASSUME NEW k \in Nat, NEW n \in Nat \ {0}, NEW r \in 0 .. (n - 1)
  PROVE  (k * n + r) % n = r /\ (k * n + r) \div n = k
  BY SMT

\* The digit in base b comes first, the number above it is in base c.
LEMMA Digit ==
  ASSUME NEW a \in Nat, NEW b \in Nat \ {0}, NEW c \in Nat \ {0}
  PROVE  /\ a % (b * c) = (a % b) + b * ((a \div b) % c)
         /\ a \div (b * c) = (a \div b) \div c
<1> DEFINE q == a \div b
           o == a % b
           k == q \div c
           d == q % c
           r == b * d + o
           m == b * c
<1>1. q \in Nat /\ o \in 0 .. (b - 1) /\ a = q * b + o
  BY Mod, Div, Euclid
<1> HIDE DEF q, o
<1>2. k \in Nat /\ d \in 0 .. (c - 1) /\ q = k * c + d
  BY <1>1, Mod, Div, Euclid
<1> HIDE DEF k, d
<1>3. m \in Nat \ {0}
  BY Product
<1>4. r \in 0 .. (m - 1)
  <2>1. b * d \in Nat /\ b * d <= b * (c - 1)
    BY <1>2, SMT
  <2>2. b * (c - 1) = m - b
    BY SMT
  <2> QED
    BY <1>1, <1>3, <2>1, <2>2
<1>5. a = k * m + r
  BY <1>1, <1>2, SMT
<1> HIDE DEF m, r
<1>6. a % m = r /\ a \div m = k
  BY <1>2, <1>3, <1>4, <1>5, Unique
<1> QED
  BY <1>6 DEF m, r, q, o, k, d

-----------------------------------------------------------------------------
\* The fields of an address are the digits of its page number.
LEMMA Fields ==
  ASSUME NEW n \in Nat
  PROVE  LET q1 == n \div PageSize
             q2 == q1 \div PdEntries
             q3 == q2 \div PdEntries
             q4 == q3 \div PdEntries
         IN /\ {q1, q2, q3, q4} \subseteq Nat
            /\ InitVirtAddr64(n) =
                 [page_offset |-> n % PageSize, pte |-> q1 % PdEntries, pmd |-> q2 % PdEntries,
                  pud |-> q3 % PdEntries, pgd |-> q4 % PdEntries]
<1> DEFINE q1 == n \div PageSize
           q2 == q1 \div PdEntries
           q3 == q2 \div PdEntries
           q4 == q3 \div PdEntries
           b1 == PageSize * PdEntries
           b2 == PageSize * PdEntries * PdEntries
           b3 == PageSize * PdEntries * PdEntries * PdEntries
<1>0. PageSize \in Nat \ {0} /\ PdEntries \in Nat \ {0}
  BY PageAssumption
<1>1. b1 \in Nat \ {0} /\ b1 = PageSize * PdEntries
  BY <1>0, Product
<1>2. b2 \in Nat \ {0} /\ b2 = b1 * PdEntries
  BY <1>0, <1>1, Product
<1>3. b3 = b2 * PdEntries
  OBVIOUS
<1>4. q1 \in Nat /\ q2 \in Nat /\ q3 \in Nat /\ q4 \in Nat
  <2>1. q1 \in Nat
    BY <1>0, Div
  <2>2. q2 \in Nat
    BY <1>0, <2>1, Div
  <2>3. q3 \in Nat
    BY <1>0, <2>2, Div
  <2> QED
    BY <1>0, <2>1, <2>2, <2>3, Div
<1>5. InitVirtAddr64(n) =
        [page_offset |-> n % PageSize, pte |-> q1 % PdEntries,
         pmd |-> (n \div b1) % PdEntries, pud |-> (n \div b2) % PdEntries,
         pgd |-> (n \div b3) % PdEntries]
  BY DEF InitVirtAddr64
<1> HIDE DEF b1, b2, b3
<1>6. n \div b1 = q2
  BY <1>0, <1>1, Digit
<1> HIDE DEF q2
<1>7. n \div b2 = q3
  BY <1>0, <1>1, <1>2, <1>6, Digit
<1> HIDE DEF q3
<1>8. n \div b3 = q4
  BY <1>0, <1>2, <1>3, <1>7, Digit
<1> HIDE DEF q1, q4
<1>9. /\ {q1, q2, q3, q4} \subseteq Nat
      /\ InitVirtAddr64(n) =
           [page_offset |-> n % PageSize, pte |-> q1 % PdEntries, pmd |-> q2 % PdEntries,
            pud |-> q3 % PdEntries, pgd |-> q4 % PdEntries]
  BY <1>4, <1>5, <1>6, <1>7, <1>8
<1> QED
  BY <1>9 DEF q1, q2, q3, q4

LEMMA InitVirtAddr64Type ==
  ASSUME NEW n \in Nat
  PROVE  InitVirtAddr64(n) \in VirtAddr
<1> DEFINE q1 == n \div PageSize
           q2 == q1 \div PdEntries
           q3 == q2 \div PdEntries
           q4 == q3 \div PdEntries
<1>1. q1 \in Nat /\ q2 \in Nat /\ q3 \in Nat /\ q4 \in Nat
  BY Fields
<1>2. InitVirtAddr64(n) =
        [page_offset |-> n % PageSize, pte |-> q1 % PdEntries, pmd |-> q2 % PdEntries,
         pud |-> q3 % PdEntries, pgd |-> q4 % PdEntries]
  BY Fields
<1> HIDE DEF q1, q2, q3, q4
<1>3. n % PageSize \in PageOffset
  BY PageAssumption, Mod DEF PageOffset
<1>4. \A q \in Nat : q % PdEntries \in Index
  BY PageAssumption, Mod DEF Index
<1> QED
  BY <1>1, <1>2, <1>3, <1>4 DEF VirtAddr

(***************************************************************************)
(* virt_addr_t_to_uint64_t undoes init_virt_addr64 on every number, up to  *)
(* the bits above the PGD entry, and virt_addr_t_to_virtual_page_number is *)
(* what is left of it without the offset, whatever the page size and the   *)
(* number of entries of a directory (addr_mng.c).                          *)
(***************************************************************************)
THEOREM AddressesComeBack == \A n \in Nat : RoundTrips(n)
<1> SUFFICES ASSUME NEW n \in Nat PROVE RoundTrips(n)
  OBVIOUS
<1> DEFINE P == PageSize
           E == PdEntries
           v == InitVirtAddr64(n)
           q1 == n \div PageSize
           q2 == q1 \div PdEntries
           q3 == q2 \div PdEntries
           q4 == q3 \div PdEntries
           E2 == E * E
           E3 == E * E2
           E4 == E * E3
<1>0. P \in Nat \ {0} /\ E \in Nat \ {0}
  BY PageAssumption
<1>1. q1 \in Nat /\ q2 \in Nat /\ q3 \in Nat /\ q4 \in Nat
  BY Fields
<1>2. v = [page_offset |-> n % P, pte |-> q1 % E, pmd |-> q2 % E, pud |-> q3 % E,
           pgd |-> q4 % E]
  BY Fields
<1>3. E2 \in Nat \ {0} /\ E3 \in Nat \ {0} /\ E4 \in Nat \ {0}
  <2>1. E2 \in Nat \ {0}
    BY <1>0, Product
  <2>2. E3 \in Nat \ {0}
    BY <1>0, <2>1, Product
  <2> QED
    BY <1>0, <2>1, <2>2, Product
<1>4. v \in VirtAddr
  BY InitVirtAddr64Type
<1>5. VirtSize = P * E4
  BY DEF VirtSize
<1> DEFINE page == q1 % E4
<1>6. n % VirtSize = (n % P) + P * page
  BY <1>0, <1>3, <1>5, Digit
<1>7. page = (q1 % E) + E * (q2 % E3)
  BY <1>0, <1>1, <1>3, Digit
<1>8. q2 % E3 = (q2 % E) + E * (q3 % E2)
  BY <1>0, <1>1, <1>3, Digit
<1>9. q3 % E2 = (q3 % E) + E * (q4 % E)
  BY <1>0, <1>1, Digit
<1>10. v.page_offset = n % P /\ v.pte = q1 % E /\ v.pmd = q2 % E /\ v.pud = q3 % E
       /\ v.pgd = q4 % E
  BY <1>2
<1>11. v.page_offset \in 0 .. (P - 1) /\ v.pte \in Nat /\ v.pmd \in Nat /\ v.pud \in Nat
       /\ v.pgd \in Nat /\ page \in Nat
  <2> HIDE DEF v, q1, E4
  <2>1. page \in 0 .. (E4 - 1)
    BY <1>1, <1>3, Mod
  <2>2. page \in Nat
    BY <1>3, <2>1
  <2> HIDE DEF page
  <2> QED
    BY <1>0, <1>4, <2>2 DEF VirtAddr, Index, PageOffset
<1> HIDE DEF v, q1, q2, q3, q4, E2, E3, E4, page
<1>12. page = v.pte + E * (v.pmd + E * (v.pud + E * v.pgd))
  BY <1>7, <1>8, <1>9, <1>10
<1>13. VirtualPageNumber(v) = page
  <2>1. VirtualPageNumber(v) = v.pte + E * v.pmd + E * E * v.pud + E * E * E * v.pgd
    BY DEF VirtualPageNumber
  <2>2. \A a, b, c, d \in Nat :
          a + E * b + E * E * c + E * E * E * d = a + E * (b + E * (c + E * d))
    BY <1>0, SMT
  <2> QED
    BY <1>11, <1>12, <2>1, <2>2
<1>14. ToUint64(v) = n % VirtSize
  <2>1. ToUint64(v) = P * page + v.page_offset
    BY <1>13 DEF ToUint64
  <2> QED
    BY <1>0, <1>6, <1>10, <1>11, <2>1
<1>15. page = (n % VirtSize) \div P
  <2>1. n % VirtSize = page * P + v.page_offset
    BY <1>0, <1>6, <1>10, <1>11
  <2> QED
    BY <1>0, <1>11, <2>1, Unique
<1>16. Fits(v.pgd, v.pud, v.pmd, v.pte, v.page_offset)
  BY <1>4 DEF Fits, VirtAddr
<1>17. v = InitVirtAddr(v.pgd, v.pud, v.pmd, v.pte, v.page_offset)
  BY <1>2, <1>10 DEF InitVirtAddr
<1> QED
  BY <1>13, <1>14, <1>15, <1>16, <1>17 DEF RoundTrips, v

=============================================================================
