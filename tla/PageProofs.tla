----------------------------- MODULE PageProofs -----------------------------
(***************************************************************************)
(* Lemmas about page starts, for every page size.                          *)
(***************************************************************************)
EXTENDS Pages, TLAPS

(* A page start is a multiple of the page size, at most a page below.      *)
LEMMA PageStartBounds ==
    ASSUME NEW x \in Nat
    PROVE  /\ PageStart(x) \in Nat
           /\ PageOffset(x) \in Nat
           /\ PageStart(x) + PageOffset(x) = x
           /\ PageStart(x) <= x
           /\ x < PageStart(x) + PageSize
  BY PagesAssumption DEF PageStart, PageOffset

LEMMA Multiple ==
    ASSUME NEW x \in Nat
    PROVE  \E q \in Nat : PageStart(x) = q * PageSize
  BY PagesAssumption DEF PageStart

LEMMA BetweenMultiples ==
    ASSUME NEW m \in Nat, NEW n \in Nat, m < n
    PROVE  m * PageSize + PageSize <= n * PageSize
<1>1. PageSize \in Nat  BY PagesAssumption
<1>2. (m + 1) * PageSize <= n * PageSize  BY <1>1
<1> QED BY <1>1, <1>2

LEMMA PageStartUnique ==
    ASSUME NEW x \in Nat, NEW y \in Nat,
           PageStart(x) <= y, y < PageStart(x) + PageSize
    PROVE  PageStart(y) = PageStart(x)
<1>1. PICK q \in Nat : PageStart(x) = q * PageSize  BY Multiple
<1>2. PICK r \in Nat : PageStart(y) = r * PageSize  BY Multiple
<1>3. PageSize \in Nat \ {0}  BY PagesAssumption
<1>4. /\ PageStart(y) <= y /\ y < PageStart(y) + PageSize
      /\ PageStart(x) \in Nat /\ PageStart(y) \in Nat  BY PageStartBounds
<1>5. CASE q < r
  BY <1>1, <1>2, <1>3, <1>4, <1>5, BetweenMultiples
<1>6. CASE r < q
  BY <1>1, <1>2, <1>3, <1>4, <1>6, BetweenMultiples
<1>7. CASE q = r  BY <1>1, <1>2, <1>7
<1> QED BY <1>5, <1>6, <1>7

LEMMA PageStartMonotone ==
    ASSUME NEW x \in Nat, NEW y \in Nat, x <= y
    PROVE  PageStart(x) <= PageStart(y)
<1>1. CASE y < PageStart(x) + PageSize
  <2>1. PageStart(x) <= x /\ PageStart(x) \in Nat  BY PageStartBounds
  <2>2. PageStart(x) <= y  BY <2>1
  <2>3. PageStart(y) = PageStart(x)  BY <1>1, <2>2, PageStartUnique
  <2> QED BY <2>1, <2>3
<1>2. CASE y >= PageStart(x) + PageSize
  <2>1. PICK q \in Nat : PageStart(x) = q * PageSize  BY Multiple
  <2>2. PICK r \in Nat : PageStart(y) = r * PageSize  BY Multiple
  <2>3. PageSize \in Nat \ {0}  BY PagesAssumption
  <2>4. /\ y < PageStart(y) + PageSize
        /\ PageStart(x) \in Nat /\ PageStart(y) \in Nat  BY PageStartBounds
  <2>5. CASE r < q
    BY <1>2, <2>1, <2>2, <2>3, <2>4, <2>5, BetweenMultiples
  <2>6. CASE q <= r
    BY <2>1, <2>2, <2>3, <2>4, <2>6, BetweenMultiples
  <2> QED BY <2>5, <2>6
<1> QED BY <1>1, <1>2, PageStartBounds, PagesAssumption

LEMMA PageFacts ==
    ASSUME NEW a \in Addr
    PROVE  /\ a \in Nat
           /\ PageStart(a) \in Page
           /\ PageStart(a) \in Addr
           /\ PageStart(PageStart(a)) = PageStart(a)
<1>1. a \in Nat /\ a <= MaxAddr  BY PagesAssumption DEF Addr
<1>2. /\ PageStart(a) \in Nat /\ PageStart(a) <= a
      /\ PageStart(a) < PageStart(a) + PageSize  BY <1>1, PageStartBounds, PagesAssumption
<1>3. PageStart(a) \in Addr  BY <1>1, <1>2, PagesAssumption DEF Addr
<1>4. PageStart(PageStart(a)) = PageStart(a)
  <2>1. PageStart(a) <= PageStart(a) /\ a < PageStart(a) + PageSize
    BY <1>1, <1>2, PageStartBounds
  <2> QED BY <1>1, <1>2, PageStartUnique
<1> QED BY <1>1, <1>3, <1>4 DEF Page

(* A multiple of the page size bounds the pages it bounds the bytes of. *)
LEMMA MultipleBoundsPages ==
    ASSUME NEW q \in Nat, NEW a \in Nat
    PROVE  /\ q * PageSize \in Nat
           /\ a < q * PageSize <=> PageStart(a) < q * PageSize
           /\ q * PageSize <= a <=> q * PageSize <= PageStart(a)
<1>1. PICK r \in Nat : PageStart(a) = r * PageSize  BY Multiple
<1>2. PageSize \in Nat \ {0}  BY PagesAssumption
<1>3. PageStart(a) <= a /\ a < PageStart(a) + PageSize /\ PageStart(a) \in Nat
  BY PageStartBounds
<1>4. q * PageSize \in Nat  BY <1>2
<1>5. CASE r < q
  <2>1. r * PageSize + PageSize <= q * PageSize  BY <1>5, BetweenMultiples
  <2> QED BY <1>1, <1>2, <1>3, <1>4, <2>1
<1>6. CASE q <= r
  <2>1. q * PageSize <= r * PageSize
    BY <1>2, <1>6, BetweenMultiples
  <2> QED BY <1>1, <1>3, <1>4, <2>1
<1> QED BY <1>5, <1>6
=============================================================================
