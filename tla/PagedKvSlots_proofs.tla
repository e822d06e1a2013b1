------------------------- MODULE PagedKvSlots_proofs -------------------------
(***************************************************************************)
(* Proofs about the paged KV pool for every number of rows, pages and      *)
(* tokens.                                                                 *)
(***************************************************************************)
EXTENDS PagedKvSlots, FiniteSetTheorems, SequenceTheorems, TLAPS

(* DivCeil rounds up: it is the least number of pages that hold n tokens.  *)
LEMMA DivCeilBounds ==
    ASSUME NEW n \in Nat
    PROVE  /\ DivCeil(n) \in Nat
           /\ n <= DivCeil(n) * ATTENTION_PAGE_SIZE
           /\ \A k \in Nat : n <= k * ATTENTION_PAGE_SIZE => DivCeil(n) <= k
<1> DEFINE B == ATTENTION_PAGE_SIZE
           a == n + B - 1
<1>1. B \in Nat \ {0} /\ a \in Nat
  BY PoolAssumption
<1>2. /\ a \div B \in Nat
      /\ B * (a \div B) <= a
      /\ a < B * (a \div B) + B
  BY <1>1
<1>3. DivCeil(n) = a \div B
  BY DEF DivCeil
<1> HIDE DEF a, B
<1>4. QED
  BY <1>1, <1>2, <1>3 DEF a, B

(* More tokens never need fewer pages, and no admitted context outgrows a  *)
(* table row.                                                              *)
LEMMA DivCeilMonotone ==
    ASSUME NEW m \in Nat, NEW n \in Nat, m <= n
    PROVE  DivCeil(m) <= DivCeil(n)
<1>1. /\ DivCeil(n) \in Nat
      /\ n <= DivCeil(n) * ATTENTION_PAGE_SIZE
  BY DivCeilBounds
<1>2. m <= DivCeil(n) * ATTENTION_PAGE_SIZE
  BY <1>1, PoolAssumption
<1>3. QED
  BY <1>1, <1>2, DivCeilBounds

LEMMA DivCeilLimits ==
    /\ DivCeil(0) = 0
    /\ \A n \in 0..MaxContextTokens : DivCeil(n) \in 0..TableStride
<1>1. DivCeil(0) \in Nat /\ DivCeil(0) <= 0
  BY DivCeilBounds, PoolAssumption
<1>2. ASSUME NEW n \in 0..MaxContextTokens
      PROVE  DivCeil(n) \in 0..TableStride
  <2>1. n \in Nat /\ n <= TableStride * ATTENTION_PAGE_SIZE /\ TableStride \in Nat
    BY PoolAssumption
  <2>2. QED
    BY <2>1, DivCeilBounds
<1>3. QED
  BY <1>1, <1>2

(* A function that is one-to-one on an interval has as many values there   *)
(* as the interval has members.                                            *)
LEMMA IntervalImage ==
    ASSUME NEW a \in Nat, NEW b \in Nat, a <= b,
           NEW R, NEW f \in [a..(b - 1) -> R],
           \A r \in R : \E e \in a..(b - 1) : f[e] = r,
           \A d, e \in a..(b - 1) : f[d] = f[e] => d = e
    PROVE  IsFiniteSet(R) /\ Cardinality(R) = b - a
<1>1. f \in Surjection(a..(b - 1), R) /\ f \in Injection(a..(b - 1), R)
  BY DEF Surjection, Injection, IsInjective
<1>2. /\ IsFiniteSet(a..(b - 1))
      /\ Cardinality(a..(b - 1)) = b - a
  BY FS_Interval
<1>3. QED
  BY <1>1, <1>2, FS_Surjection

(* A nonempty set of numbers has a least member.                           *)
LEMMA LeastOfSet ==
    ASSUME NEW C \in SUBSET Nat, C # {}
    PROVE  \E h \in C : \A p \in C : h <= p
<1> DEFINE Less == OpToRel(<, Nat)
<1>1. IsWellFoundedOn(Less, Nat)
  BY NatLessThanWellFounded
<1>2. \A x, y \in Nat : <<y, x>> \in Less <=> y < x
  BY DEF OpToRel
<1> HIDE DEF Less
<1>3. PICK x \in C : \A y \in C : ~(<<y, x>> \in Less)
  BY <1>1, WFMin
<1>4. \A y \in C : ~(y < x) /\ y \in Nat /\ x \in Nat
  BY <1>2, <1>3
<1>5. QED
  BY <1>4

LEMMA UnownedFinite ==
    /\ IsFiniteSet(Unowned)
    /\ Cardinality(Unowned) \in 0..PhysicalPages
<1>1. PhysicalPages \in Nat
  BY PoolAssumption
<1>2. IsFiniteSet(Pages) /\ Cardinality(Pages) = PhysicalPages
  BY <1>1, FS_Interval DEF Pages
<1>3. Unowned \in SUBSET Pages
  BY DEF Unowned
<1>4. QED
  BY <1>1, <1>2, <1>3, FS_Subset, FS_CardinalityType

(* Under the invariant the hint hides no unowned page from the scan.       *)
LEMMA NothingHidden ==
    ASSUME TypeOK, OwnershipInv
    PROVE  Reachable = Unowned
BY PoolAssumption DEF TypeOK, OwnershipInv, CountsAgree, Reachable, Unowned, Pages

-----------------------------------------------------------------------------
(* The inductive invariant: the pool's types, its ownership facts and the  *)
(* absence of its two internal errors.                                     *)
IInv == TypeOK /\ OwnershipInv /\ NoInternalError

LEMMA InitEstablishesIInv == Init => IInv
<1> SUFFICES ASSUME Init PROVE IInv
  OBVIOUS
<1>1. Unowned = 0..(PhysicalPages - 1)
  BY DEF Init, Unowned, Pages
<1>2. Cardinality(Unowned) = PhysicalPages
  BY <1>1, FS_Interval, PoolAssumption
<1>3. TypeOK
  BY PoolAssumption DEF Init, TypeOK, SlotStates
<1>4. RowsOwnTheirPages /\ NoPageLeaks
  <2>1. \A s \in Slots : /\ page_counts[s] = 0
                         /\ \A e \in Entries : page_tables[s][e] = UNUSED_PAGE
    BY DEF Init
  <2>2. RowsOwnTheirPages
    BY <2>1 DEF RowsOwnTheirPages, Entries
  <2>3. NoPageLeaks
    BY DEF Init, NoPageLeaks
  <2>4. QED
    BY <2>2, <2>3
<1>5. CountsAgree
  <2>1. free_pages = Cardinality(Unowned)
    BY <1>2 DEF Init
  <2>2. \A q \in Pages : ~(q < next_free_hint)
    BY PoolAssumption DEF Init, Pages
  <2>3. \A s \in Slots : page_counts[s] = DivCeil(token_counts[s]) /\ token_counts[s] = 0
    BY DivCeilLimits DEF Init
  <2>4. QED
    BY <2>1, <2>2, <2>3 DEF CountsAgree
<1>6. QED
  BY <1>3, <1>4, <1>5 DEF Init, IInv, OwnershipInv, NoInternalError, InternalErrors

(* A call that leaves every table, tag and counter alone keeps the         *)
(* invariant, whatever it does to the lifecycle of a row that owns nothing *)
(* or stays non-vacant.                                                    *)
LEMMA LifecycleKeepsIInv ==
    ASSUME IInv,
           UNCHANGED <<page_tables, page_owners, token_counts, page_counts,
                       free_pages, next_free_hint>>,
           states' \in [Slots -> SlotStates],
           \A s \in Slots : states'[s] = "Vacant" => states[s] = "Vacant",
           answer' \in {"ok"} \cup Refusals
    PROVE  IInv'
<1>1. TypeOK'
  BY DEF IInv, TypeOK
<1>2. RowsOwnTheirPages' /\ NoPageLeaks'
  BY DEF IInv, OwnershipInv, RowsOwnTheirPages, NoPageLeaks, Owns
<1>3. CountsAgree'
  BY DEF IInv, OwnershipInv, CountsAgree, Unowned
<1>4. NoInternalError'
  BY DEF NoInternalError, InternalErrors, Refusals
<1>5. QED
  BY <1>1, <1>2, <1>3, <1>4 DEF IInv, OwnershipInv
-----------------------------------------------------------------------------
(* A granted reservation: the scan's pages were unowned, they are distinct *)
(* and they are exactly the ones the counters charge for.                  *)
LEMMA AssignKeepsIInv ==
    ASSUME IInv, NEW s \in Slots, NEW n \in Nat,
           states[s] = "Active", ReserveInRange(s, n),
           Additional(s, n) <= free_pages,
           NEW pick \in [page_counts[s]..(DivCeil(n) - 1) -> Reachable],
           FirstFit(pick), Assign(s, n, pick)
    PROVE  IInv'
<1> DEFINE old == page_counts[s]
           new == DivCeil(n)
           D == old..(new - 1)
<1> USE DEF IInv, OwnershipInv
<1>1. /\ old \in Nat /\ new \in Nat /\ old <= new /\ new <= TableStride
      /\ n \in 0..MaxContextTokens
  <2>1. /\ token_counts[s] \in Nat /\ old = DivCeil(token_counts[s])
        /\ token_counts[s] <= n /\ n \in 0..MaxContextTokens
    BY PoolAssumption DEF TypeOK, CountsAgree, ReserveInRange
  <2>2. new \in 0..TableStride /\ old <= new
    BY <2>1, DivCeilLimits, DivCeilMonotone
  <2>3. QED
    BY <2>1, <2>2, PoolAssumption DEF TypeOK
<1>2. Reachable = Unowned
  BY NothingHidden
<1>3. \A e \in D : /\ pick[e] \in Pages
                   /\ page_owners[pick[e]] = FREE_PAGE_OWNER
  BY <1>2 DEF Unowned
<1>4. \A d, e \in D : pick[d] = pick[e] => d = e
  <2> SUFFICES ASSUME NEW d \in D, NEW e \in D, d # e
               PROVE  pick[d] # pick[e]
    OBVIOUS
  <2>1. pick[d] \in Int /\ pick[e] \in Int
    BY <1>3, PoolAssumption DEF Pages
  <2>2. d < e \/ e < d
    BY <1>1
  <2>3. QED
    BY <2>1, <2>2 DEF FirstFit
<1>5. /\ FREE_PAGE_OWNER \notin Slots /\ UNUSED_PAGE \notin Pages
      /\ Slots \subseteq Int /\ Pages \subseteq Int
  BY PoolAssumption DEF Slots, Pages
<1>6. /\ \A e \in D : e \in Entries /\ page_tables'[s][e] = pick[e]
      /\ \A e \in Entries \ D : page_tables'[s][e] = page_tables[s][e]
      /\ \A t \in Slots \ {s} : page_tables'[t] = page_tables[t]
  <2>1. D \subseteq Entries
    BY <1>1, PoolAssumption DEF Entries
  <2>2. page_tables \in [Slots -> [Entries -> Pages \cup {UNUSED_PAGE}]]
    BY DEF TypeOK
  <2>3. /\ page_tables'[s] = [e \in Entries |-> IF e \in DOMAIN pick THEN pick[e]
                                                 ELSE page_tables[s][e]]
        /\ \A t \in Slots \ {s} : page_tables'[t] = page_tables[t]
    BY ONLY <2>2, s \in Slots, Assign(s, n, pick) DEF Assign
  <2>4. DOMAIN pick = D
    OBVIOUS
  <2>5. \A e \in D : e \in DOMAIN pick /\ e \in Entries
    BY <2>1, <2>4
  <2> HIDE DEF IInv, OwnershipInv, D, old, new
  <2>6. QED
    BY ONLY <2>3, <2>4, <2>5
<1>7. /\ \A p \in Pages : (\E e \in D : pick[e] = p) => page_owners'[p] = s
      /\ \A p \in Pages : page_owners[p] # FREE_PAGE_OWNER
                              => page_owners'[p] = page_owners[p]
      /\ \A p \in Pages : page_owners'[p] # FREE_PAGE_OWNER
             => page_owners[p] # FREE_PAGE_OWNER \/ \E e \in D : pick[e] = p
  BY <1>3 DEF Assign
<1>8. /\ page_counts'[s] = new
      /\ \A t \in Slots \ {s} : page_counts'[t] = page_counts[t]
  BY DEF Assign, TypeOK
<1>9. /\ Cardinality(Unowned') = Cardinality(Unowned) - (new - old)
      /\ new - old <= Cardinality(Unowned)
  <2> DEFINE R == { pick[e] : e \in D }
  <2>1. IsFiniteSet(R) /\ Cardinality(R) = new - old
    <3>1. /\ pick \in [old..(new - 1) -> R]
          /\ \A r \in R : \E e \in old..(new - 1) : pick[e] = r
      OBVIOUS
    <3>2. \A d, e \in old..(new - 1) : pick[d] = pick[e] => d = e
      BY <1>4
    <3> HIDE DEF old, new, R
    <3>3. QED
      BY <3>1, <3>2, <1>1, IntervalImage
  <2>2. Unowned' = Unowned \ R /\ R \subseteq Unowned
    <3>1. R \subseteq Unowned
      BY <1>3 DEF Unowned
    <3>2. \A p \in Pages : p \in R => page_owners'[p] # FREE_PAGE_OWNER
      BY <1>5, <1>7
    <3>3. \A p \in Pages : p \notin R =>
              (page_owners'[p] = FREE_PAGE_OWNER <=> page_owners[p] = FREE_PAGE_OWNER)
      BY <1>7
    <3>4. Unowned' = { p \in Pages : page_owners'[p] = FREE_PAGE_OWNER }
      BY DEF Unowned
    <3> HIDE DEF R
    <3>5. QED
      BY <3>1, <3>2, <3>3, <3>4 DEF Unowned
  <2>3. Unowned \cap R = R
    BY <2>2
  <2>4. Cardinality(Unowned \ R) = Cardinality(Unowned) - Cardinality(Unowned \cap R)
    BY UnownedFinite, FS_Difference
  <2>5. Cardinality(R) <= Cardinality(Unowned)
    BY <2>2, UnownedFinite, FS_Subset
  <2> HIDE DEF R, old, new
  <2>6. QED
    BY <2>1, <2>2, <2>3, <2>4, <2>5
<1>10. TypeOK'
  <2>1. page_tables' \in [Slots -> [Entries -> Pages \cup {UNUSED_PAGE}]]
    BY <1>3 DEF Assign, TypeOK
  <2>2. page_owners' \in [Pages -> Slots \cup {FREE_PAGE_OWNER}]
    BY DEF Assign, TypeOK
  <2>3. /\ page_counts' \in [Slots -> 0..TableStride]
        /\ token_counts' \in [Slots -> 0..MaxContextTokens]
    BY <1>1 DEF Assign, TypeOK
  <2>4. free_pages' \in 0..PhysicalPages
    BY <1>1, PoolAssumption DEF Assign, Additional, TypeOK
  <2>5. next_free_hint' \in 0..PhysicalPages
    <3>1. CASE D = {}
      BY <3>1 DEF Assign, TypeOK
    <3>2. CASE D # {}
      <4>1. new - 1 \in D
        BY <3>2, <1>1
      <4>2. next_free_hint' = pick[new - 1] + 1
        BY <3>2 DEF Assign
      <4>3. QED
        BY <4>1, <4>2, <1>3, PoolAssumption DEF Pages
    <3>3. QED
      BY <3>1, <3>2
  <2>6. QED
    BY <2>1, <2>2, <2>3, <2>4, <2>5 DEF Assign, TypeOK
<1>11. RowsOwnTheirPages'
  <2> SUFFICES ASSUME NEW t \in Slots
               PROVE  /\ \A e \in Entries :
                            IF e < page_counts'[t]
                            THEN /\ page_tables'[t][e] \in Pages
                                 /\ page_owners'[page_tables'[t][e]] = t
                            ELSE page_tables'[t][e] = UNUSED_PAGE
                      /\ \A d, e \in 0..(page_counts'[t] - 1) :
                            page_tables'[t][d] = page_tables'[t][e] => d = e
    BY DEF RowsOwnTheirPages, Owns
  <2>1. /\ \A e \in Entries :
              IF e < page_counts[t]
              THEN /\ page_tables[t][e] \in Pages
                   /\ page_owners[page_tables[t][e]] = t
              ELSE page_tables[t][e] = UNUSED_PAGE
        /\ \A d, e \in 0..(page_counts[t] - 1) :
              page_tables[t][d] = page_tables[t][e] => d = e
    BY DEF RowsOwnTheirPages, Owns
  <2>2. CASE t # s
    <3>1. page_tables'[t] = page_tables[t] /\ page_counts'[t] = page_counts[t]
      BY <2>2, <1>6, <1>8
    <3>2. \A p \in Pages : page_owners[p] = t => page_owners'[p] = t
      BY <1>5, <1>7
    <3> HIDE DEF IInv, OwnershipInv
    <3>3. \A e \in Entries : e < page_counts[t] =>
              page_tables[t][e] \in Pages /\ page_owners'[page_tables[t][e]] = t
      BY ONLY <2>1, <3>2
    <3>4. QED
      BY ONLY <3>1, <2>1, <3>3
  <2>3. CASE t = s
    <3>1. \A e \in Entries : e \in D \/ e < old \/ e >= new
      BY <1>1, PoolAssumption DEF Entries
    <3>2. \A e \in Entries : e < old => e \notin D /\ e < new
      BY <1>1, PoolAssumption DEF Entries
    <3>3. \A e \in Entries : e >= new => e \notin D /\ ~(e < new) /\ ~(e < old)
      BY <1>1, PoolAssumption DEF Entries
    <3>4. \A e \in D : e < new
      BY <1>1
    <3>5. \A e \in Entries :
              IF e < page_counts'[t]
              THEN /\ page_tables'[t][e] \in Pages
                   /\ page_owners'[page_tables'[t][e]] = t
              ELSE page_tables'[t][e] = UNUSED_PAGE
      <4> SUFFICES ASSUME NEW e \in Entries
                   PROVE  IF e < new
                          THEN /\ page_tables'[s][e] \in Pages
                               /\ page_owners'[page_tables'[s][e]] = s
                          ELSE page_tables'[s][e] = UNUSED_PAGE
        BY <2>3, <1>8
      <4>1. CASE e \in D
        BY <4>1, <1>3, <1>6, <1>7, <3>4
      <4>2. CASE e < old
        <5>1. e \notin D /\ e < new
          BY <4>2, <3>2
        <5>2. /\ page_tables[s][e] \in Pages
              /\ page_owners[page_tables[s][e]] = s
          BY <4>2, <2>1, <2>3
        <5>3. page_tables'[s][e] = page_tables[s][e]
          BY <5>1, <1>6
        <5>4. page_owners'[page_tables[s][e]] = s
          BY <5>2, <1>5, <1>7
        <5>5. QED
          BY <5>1, <5>2, <5>3, <5>4
      <4>3. CASE e >= new
        BY <4>3, <2>1, <2>3, <1>6, <3>3
      <4>4. QED
        BY <4>1, <4>2, <4>3, <3>1
    <3>6. \A d, e \in 0..(new - 1) :
              page_tables'[s][d] = page_tables'[s][e] => d = e
      <4> SUFFICES ASSUME NEW d \in 0..(new - 1), NEW e \in 0..(new - 1),
                          page_tables'[s][d] = page_tables'[s][e]
                   PROVE  d = e
        OBVIOUS
      <4>1. /\ d \in Entries /\ e \in Entries
            /\ d \in D \/ d \in 0..(old - 1)
            /\ e \in D \/ e \in 0..(old - 1)
            /\ d < old <=> d \in 0..(old - 1)
            /\ e < old <=> e \in 0..(old - 1)
        BY <1>1, PoolAssumption DEF Entries
      <4>2. CASE d \in D /\ e \in D
        BY <4>2, <1>4, <1>6
      <4>3. CASE d < old /\ e < old
        BY <4>1, <4>3, <2>1, <2>3, <1>6, <3>2
      <4>4. CASE d \in D /\ e < old
        BY <4>1, <4>4, <2>1, <2>3, <1>3, <1>5, <1>6, <3>2
      <4>5. CASE d < old /\ e \in D
        BY <4>1, <4>5, <2>1, <2>3, <1>3, <1>5, <1>6, <3>2
      <4>6. QED
        BY <4>1, <4>2, <4>3, <4>4, <4>5
    <3>7. QED
      BY <2>3, <1>8, <3>5, <3>6
  <2>4. QED
    BY <2>2, <2>3
<1>12. NoPageLeaks'
  <2> SUFFICES ASSUME NEW p \in Pages, page_owners'[p] # FREE_PAGE_OWNER
               PROVE  \E e \in 0..(page_counts'[page_owners'[p]] - 1) :
                         page_tables'[page_owners'[p]][e] = p
    BY DEF NoPageLeaks
  <2>1. CASE \E e \in D : pick[e] = p
    <3>1. PICK e \in D : pick[e] = p
      BY <2>1
    <3>2. page_owners'[p] = s /\ e \in 0..(new - 1) /\ page_tables'[s][e] = p
      BY <3>1, <1>1, <1>6, <1>7
    <3>3. QED
      BY <3>2, <1>8
  <2>2. CASE page_owners[p] # FREE_PAGE_OWNER
    <3>1. PICK e \in 0..(page_counts[page_owners[p]] - 1) :
               page_tables[page_owners[p]][e] = p
      BY <2>2 DEF NoPageLeaks
    <3>2. page_owners'[p] = page_owners[p] /\ page_owners[p] \in Slots
      BY <2>2, <1>7 DEF TypeOK
    <3>3. CASE page_owners[p] # s
      BY <3>1, <3>2, <3>3, <1>6, <1>8
    <3>4. CASE page_owners[p] = s
      <4>1. e \in Entries \ D /\ e \in 0..(new - 1)
        BY <3>1, <3>4, <1>1, PoolAssumption DEF Entries
      <4>2. QED
        BY <4>1, <3>1, <3>2, <3>4, <1>6, <1>8
    <3>5. QED
      BY <3>3, <3>4
  <2>3. QED
    BY <2>1, <2>2, <1>7
<1>13. CountsAgree'
  <2>1. free_pages' = Cardinality(Unowned')
    BY <1>9 DEF Assign, Additional, CountsAgree
  <2>2. \A p \in Pages : p < next_free_hint' => page_owners'[p] # FREE_PAGE_OWNER
    <3> SUFFICES ASSUME NEW p \in Pages, p < next_free_hint',
                        page_owners[p] = FREE_PAGE_OWNER
                 PROVE  \E e \in D : pick[e] = p
      BY <1>5, <1>7
    <3>1. ~(p < next_free_hint)
      BY DEF CountsAgree
    <3>2. D # {} /\ next_free_hint' = pick[new - 1] + 1
      BY <3>1 DEF Assign
    <3>3. new - 1 \in D
      BY <3>2, <1>1
    <3>4. p <= pick[new - 1] /\ p \in Int /\ pick[new - 1] \in Int
      <4>1. p \in Int /\ pick[new - 1] \in Int
        BY <3>3, <1>3, <1>5
      <4> HIDE DEF D, new
      <4>2. QED
        BY <4>1, <3>2
    <3>5. CASE p = pick[new - 1]
      BY <3>3, <3>5
    <3>6. CASE p < pick[new - 1]
      BY <3>3, <3>6, <1>2 DEF FirstFit, Unowned
    <3>7. QED
      BY <3>4, <3>5, <3>6
  <2>3. \A t \in Slots :
            /\ page_counts'[t] = DivCeil(token_counts'[t])
            /\ states'[t] = "Vacant" => token_counts'[t] = 0
    BY DEF Assign, CountsAgree, TypeOK
  <2>4. QED
    BY <2>1, <2>2, <2>3 DEF CountsAgree
<1>14. NoInternalError'
  BY DEF Assign, NoInternalError, InternalErrors
<1>15. QED
  BY <1>10, <1>11, <1>12, <1>13, <1>14
-----------------------------------------------------------------------------
(* Under the invariant the release loop meets only pages of its own row,   *)
(* each once: it never gives up.                                           *)
LEMMA ConsistentRows ==
    ASSUME IInv, NEW s \in Slots, NEW n \in Nat
    PROVE  Inconsistent(s, n) = {}
<1> DEFINE D == DivCeil(n)..(page_counts[s] - 1)
<1> USE DEF IInv, OwnershipInv
<1>1. /\ page_counts[s] \in 0..TableStride /\ DivCeil(n) \in Nat
      /\ TableStride \in Nat
  BY DivCeilBounds, PoolAssumption DEF TypeOK
<1>2. \A e \in D : /\ e \in Entries /\ e < page_counts[s]
                   /\ e \in 0..(page_counts[s] - 1)
  BY <1>1 DEF Entries
<1>3. \A e \in D : Owns(s, e)
  BY <1>2 DEF RowsOwnTheirPages
<1>4. \A e \in D : \A d \in DivCeil(n)..(e - 1) : d \in D /\ d # e
  BY <1>1
<1>5. \A d, e \in D : page_tables[s][d] = page_tables[s][e] => d = e
  BY <1>2 DEF RowsOwnTheirPages
<1>6. QED
  BY <1>3, <1>4, <1>5 DEF Inconsistent

(* A release meets only this row's pages, so it never gives up half way;   *)
(* what it frees is what the counters take back.                           *)
LEMMA ReleaseKeepsIInv ==
    ASSUME IInv, NEW s \in Slots, NEW n \in Nat, n <= token_counts[s],
           NEW after \in SlotStates, after = "Vacant" => n = 0,
           ReleaseTail(s, n, after)
    PROVE  IInv'
<1> DEFINE old == page_counts[s]
           new == DivCeil(n)
           D == new..(old - 1)
           gone == { page_tables[s][e] : e \in D }
<1> USE DEF IInv, OwnershipInv
<1>1. /\ old \in Nat /\ new \in Nat /\ new <= old /\ old <= TableStride
      /\ n \in 0..MaxContextTokens /\ TableStride \in Nat
      /\ D \subseteq Entries /\ D \subseteq 0..(old - 1)
  <2>1. /\ token_counts[s] \in 0..MaxContextTokens
        /\ old = DivCeil(token_counts[s])
    BY DEF TypeOK, CountsAgree
  <2>2. n \in 0..MaxContextTokens /\ TableStride \in Nat
    BY <2>1, PoolAssumption
  <2>3. new \in 0..TableStride /\ old \in 0..TableStride /\ new <= old
    BY <2>1, <2>2, DivCeilLimits, DivCeilMonotone, PoolAssumption
  <2> HIDE DEF new, old
  <2>4. QED
    BY <2>2, <2>3 DEF Entries
<1>2. \A e \in D : /\ page_tables[s][e] \in Pages
                   /\ page_owners[page_tables[s][e]] = s
  BY <1>1 DEF RowsOwnTheirPages, Owns
<1>3. \A d, e \in D : page_tables[s][d] = page_tables[s][e] => d = e
  BY <1>1 DEF RowsOwnTheirPages
<1>4. Inconsistent(s, n) = {} /\ Released(s, n) = D
  <2>1. Inconsistent(s, n) = {}
    BY ConsistentRows
  <2>2. QED
    BY <2>1 DEF Released
<1>5. /\ FREE_PAGE_OWNER \notin Slots /\ UNUSED_PAGE \notin Pages
      /\ Slots \subseteq Int /\ Pages \subseteq Int
      /\ gone \subseteq Pages /\ next_free_hint \in Int
  BY <1>2, PoolAssumption DEF Slots, Pages, TypeOK
<1>6. /\ page_owners' = [p \in Pages |->
             IF p \in gone THEN FREE_PAGE_OWNER ELSE page_owners[p]]
      /\ page_tables' = [page_tables EXCEPT ![s] = [e \in Entries |->
             IF e \in D THEN UNUSED_PAGE ELSE @[e]]]
      /\ next_free_hint' = HintAfter(gone)
      /\ free_pages' = free_pages + (old - new)
      /\ page_counts' = [page_counts EXCEPT ![s] = new]
      /\ token_counts' = [token_counts EXCEPT ![s] = n]
      /\ states' = [states EXCEPT ![s] = after]
      /\ answer' = "ok"
  BY <1>4 DEF ReleaseTail
<1>7. /\ \A e \in D : page_tables'[s][e] = UNUSED_PAGE
      /\ \A e \in Entries \ D : page_tables'[s][e] = page_tables[s][e]
      /\ \A t \in Slots \ {s} : page_tables'[t] = page_tables[t]
      /\ page_counts'[s] = new
      /\ \A t \in Slots \ {s} : page_counts'[t] = page_counts[t]
  BY <1>1, <1>6 DEF TypeOK
<1>8. /\ next_free_hint' \in gone \cup {next_free_hint}
      /\ \A p \in gone \cup {next_free_hint} : next_free_hint' <= p
  <2> DEFINE C == gone \cup {next_free_hint}
  <2>1. C \subseteq 0..PhysicalPages
    <3>1. gone \subseteq Pages /\ next_free_hint \in 0..PhysicalPages
      BY <1>5 DEF TypeOK
    <3> HIDE DEF gone
    <3>2. QED
      BY <3>1, PoolAssumption DEF Pages
  <2>2. \E h \in C : \A p \in C : h <= p
    <3>1. C \in SUBSET Nat /\ C # {}
      BY <2>1, PoolAssumption
    <3> HIDE DEF C
    <3>2. QED
      BY <3>1, LeastOfSet
  <2>3. QED
    BY <1>6, <2>2 DEF HintAfter
<1>9. /\ Cardinality(Unowned') = Cardinality(Unowned) + (old - new)
      /\ Cardinality(Unowned') <= PhysicalPages
  <2>1. IsFiniteSet(gone) /\ Cardinality(gone) = old - new
    <3> DEFINE f == [e \in D |-> page_tables[s][e]]
    <3>1. /\ f \in [new..(old - 1) -> gone]
          /\ \A r \in gone : \E e \in new..(old - 1) : f[e] = r
          /\ \A d, e \in new..(old - 1) : f[d] = f[e] => d = e
      BY <1>3
    <3> HIDE DEF old, new, gone, f
    <3>2. QED
      BY <3>1, <1>1, IntervalImage
  <2>2. Unowned' = Unowned \cup gone /\ Unowned \cap gone = {}
    BY <1>2, <1>5, <1>6 DEF Unowned
  <2>3. Cardinality(Unowned \cup gone) =
          Cardinality(Unowned) + Cardinality(gone) - Cardinality(Unowned \cap gone)
    BY <2>1, UnownedFinite, FS_Union
  <2>4. Cardinality(Unowned \cap gone) = 0
    BY <2>2, FS_EmptySet
  <2>5. Unowned' \in SUBSET Pages
    BY DEF Unowned
  <2>6. Cardinality(Unowned') <= Cardinality(Pages)
    <3>1. IsFiniteSet(Pages)
      BY FS_Interval, PoolAssumption DEF Pages
    <3>2. QED
      BY <2>5, <3>1, FS_Subset
  <2>7. Cardinality(Pages) = PhysicalPages
    BY FS_Interval, PoolAssumption DEF Pages
  <2> HIDE DEF old, new, gone
  <2>8. QED
    BY <2>1, <2>2, <2>3, <2>4, <2>6, <2>7, <1>1, UnownedFinite
<1>10. free_pages' = Cardinality(Unowned')
  BY <1>6, <1>9 DEF CountsAgree
<1>11. TypeOK'
  <2>1. page_tables' \in [Slots -> [Entries -> Pages \cup {UNUSED_PAGE}]]
    BY <1>6 DEF TypeOK
  <2>2. page_owners' \in [Pages -> Slots \cup {FREE_PAGE_OWNER}]
    BY <1>6 DEF TypeOK
  <2>3. /\ page_counts' \in [Slots -> 0..TableStride]
        /\ token_counts' \in [Slots -> 0..MaxContextTokens]
        /\ states' \in [Slots -> SlotStates]
    BY <1>1, <1>6 DEF TypeOK
  <2>4. free_pages' \in 0..PhysicalPages
    <3>1. free_pages \in Nat /\ free_pages' = free_pages + (old - new)
      BY <1>6, PoolAssumption DEF TypeOK
    <3> HIDE DEF old, new
    <3>2. QED
      BY <3>1, <1>1, <1>9, <1>10, PoolAssumption
  <2>5. next_free_hint' \in 0..PhysicalPages
    <3>1. gone \subseteq Pages /\ next_free_hint \in 0..PhysicalPages
      BY <1>5 DEF TypeOK
    <3>2. next_free_hint' \in gone \cup {next_free_hint}
      BY <1>8
    <3> HIDE DEF gone
    <3>3. QED
      BY <3>1, <3>2, PoolAssumption DEF Pages
  <2>6. QED
    BY <2>1, <2>2, <2>3, <2>4, <2>5, <1>6 DEF TypeOK
<1>12. RowsOwnTheirPages'
  <2> SUFFICES ASSUME NEW t \in Slots
               PROVE  /\ \A e \in Entries :
                            IF e < page_counts'[t]
                            THEN /\ page_tables'[t][e] \in Pages
                                 /\ page_owners'[page_tables'[t][e]] = t
                            ELSE page_tables'[t][e] = UNUSED_PAGE
                      /\ \A d, e \in 0..(page_counts'[t] - 1) :
                            page_tables'[t][d] = page_tables'[t][e] => d = e
    BY DEF RowsOwnTheirPages, Owns
  <2>1. /\ \A e \in Entries :
              IF e < page_counts[t]
              THEN /\ page_tables[t][e] \in Pages
                   /\ page_owners[page_tables[t][e]] = t
              ELSE page_tables[t][e] = UNUSED_PAGE
        /\ \A d, e \in 0..(page_counts[t] - 1) :
              page_tables[t][d] = page_tables[t][e] => d = e
    BY DEF RowsOwnTheirPages, Owns
  <2>2. CASE t # s
    <3>1. page_tables'[t] = page_tables[t] /\ page_counts'[t] = page_counts[t]
      BY <2>2, <1>7
    <3>2. \A p \in Pages : page_owners[p] = t => page_owners'[p] = t
      BY <2>2, <1>2, <1>6
    <3>3. QED
      BY <3>1, <3>2, <2>1
  <2>3. CASE t = s
    <3>1. \A e \in Entries :
              /\ e < new => e \notin D /\ e < old
              /\ ~(e < new) => e \in D \/ (e \notin D /\ ~(e < old))
      BY <1>1 DEF Entries
    <3>2. \A e \in 0..(new - 1) : e \in Entries \ D /\ e \in 0..(old - 1) /\ e < new
      BY <1>1 DEF Entries
    <3>3. \A e \in Entries : e < old /\ e \notin D =>
             page_tables[s][e] \notin gone
      <4> SUFFICES ASSUME NEW e \in Entries, e < old, e \notin D, NEW d \in D,
                          page_tables[s][e] = page_tables[s][d]
                   PROVE  FALSE
        OBVIOUS
      <4>1. e \in 0..(old - 1) /\ d \in 0..(old - 1)
        BY <1>1 DEF Entries
      <4>2. QED
        BY <4>1, <2>1, <2>3
    <3>4. ASSUME NEW e \in Entries
          PROVE  IF e < new
                 THEN /\ page_tables'[s][e] \in Pages
                      /\ page_owners'[page_tables'[s][e]] = s
                 ELSE page_tables'[s][e] = UNUSED_PAGE
      <4>1. CASE e < new
        <5>1. /\ e \notin D /\ e < old
              /\ page_tables'[s][e] = page_tables[s][e]
          <6>1. e \notin D /\ e < old
            BY <4>1, <3>1
          <6>2. \A i \in Entries \ D : page_tables'[s][i] = page_tables[s][i]
            BY <1>7
          <6> HIDE DEF D
          <6>3. QED
            BY <6>1, <6>2
        <5>2. /\ page_tables[s][e] \in Pages
              /\ page_owners[page_tables[s][e]] = s
          BY <5>1, <2>1, <2>3
        <5>3. page_owners'[page_tables[s][e]] = s
          BY <5>1, <5>2, <3>3, <1>6
        <5>4. QED
          BY <4>1, <5>1, <5>2, <5>3
      <4>2. CASE ~(e < new)
        BY <4>2, <3>1, <1>7, <2>1, <2>3
      <4>3. QED
        BY <4>1, <4>2
    <3>5. \A d, e \in 0..(new - 1) :
              page_tables'[s][d] = page_tables'[s][e] => d = e
      BY <3>2, <1>7, <2>1, <2>3
    <3>6. QED
      BY <2>3, <1>7, <3>4, <3>5
  <2>4. QED
    BY <2>2, <2>3
<1>13. NoPageLeaks'
  <2> SUFFICES ASSUME NEW p \in Pages, page_owners'[p] # FREE_PAGE_OWNER
               PROVE  \E e \in 0..(page_counts'[page_owners'[p]] - 1) :
                         page_tables'[page_owners'[p]][e] = p
    BY DEF NoPageLeaks
  <2>1. /\ p \notin gone /\ page_owners'[p] = page_owners[p]
        /\ page_owners[p] # FREE_PAGE_OWNER /\ page_owners[p] \in Slots
    BY <1>6 DEF TypeOK
  <2>2. PICK e \in 0..(page_counts[page_owners[p]] - 1) :
             page_tables[page_owners[p]][e] = p
    BY <2>1 DEF NoPageLeaks
  <2>3. CASE page_owners[p] # s
    BY <2>1, <2>2, <2>3, <1>7
  <2>4. CASE page_owners[p] = s
    <3>1. e \notin D /\ e \in 0..(old - 1)
      BY <2>1, <2>2, <2>4
    <3>2. e \in Entries /\ e \in 0..(new - 1)
      BY <3>1, <1>1 DEF Entries
    <3>3. page_tables'[s][e] = p
      BY <3>1, <3>2, <2>2, <2>4, <1>7
    <3>4. QED
      BY <3>2, <3>3, <2>1, <2>4, <1>7
  <2>5. QED
    BY <2>3, <2>4
<1>14. CountsAgree'
  <2>1. \A p \in Pages : p < next_free_hint' => page_owners'[p] # FREE_PAGE_OWNER
    <3> SUFFICES ASSUME NEW p \in Pages, p < next_free_hint'
                 PROVE  page_owners'[p] # FREE_PAGE_OWNER
      OBVIOUS
    <3>1. /\ p \in Int /\ next_free_hint' \in Int /\ next_free_hint \in Int
          /\ next_free_hint' <= next_free_hint
          /\ \A q \in gone : next_free_hint' <= q /\ q \in Int
      BY <1>5, <1>8
    <3> HIDE DEF gone
    <3>2. p < next_free_hint /\ p \notin gone
      BY <3>1
    <3>3. QED
      BY <3>2, <1>6 DEF CountsAgree
  <2>2. \A t \in Slots :
            /\ page_counts'[t] = DivCeil(token_counts'[t])
            /\ states'[t] = "Vacant" => token_counts'[t] = 0
    BY <1>6 DEF CountsAgree, TypeOK
  <2>3. QED
    BY <1>10, <2>1, <2>2 DEF CountsAgree
<1>15. NoInternalError'
  BY <1>6 DEF NoInternalError, InternalErrors
<1>16. QED
  BY <1>11, <1>12, <1>13, <1>14, <1>15
-----------------------------------------------------------------------------
(* Every call keeps the inductive invariant.                               *)
LEMMA ReserveKeepsIInv ==
    ASSUME IInv, NEW s \in Slots, NEW n \in Nat, reserve_tokens(s, n)
    PROVE  IInv'
<1>1. ~(Additional(s, n) > Cardinality(Reachable))
  <2>1. Cardinality(Reachable) = free_pages
    BY NothingHidden DEF IInv, OwnershipInv, CountsAgree
  <2>2. Additional(s, n) <= free_pages /\ free_pages \in Int
    BY PoolAssumption DEF reserve_tokens, IInv, TypeOK
  <2>3. Additional(s, n) \in Int
    BY DivCeilBounds, PoolAssumption DEF Additional, IInv, TypeOK
  <2>4. QED
    BY <2>1, <2>2, <2>3
<1>2. PICK pick \in [page_counts[s]..(DivCeil(n) - 1) -> Reachable] :
           FirstFit(pick) /\ Assign(s, n, pick)
  BY <1>1 DEF reserve_tokens
<1>3. /\ states[s] = "Active" /\ ReserveInRange(s, n)
      /\ Additional(s, n) <= free_pages
  BY DEF reserve_tokens
<1>4. QED
  BY <1>2, <1>3, AssignKeepsIInv

LEMMA AnswerKeepsIInv ==
    ASSUME IInv, NEW r \in {"ok"} \cup Refusals, Answer(r)
    PROVE  IInv'
<1>1. states' \in [Slots -> SlotStates] /\ states' = states
  BY DEF IInv, TypeOK, Answer, pool
<1>2. QED
  BY <1>1, LifecycleKeepsIInv DEF Answer, pool

LEMMA NextKeepsIInv ==
    ASSUME IInv, [Next]_vars
    PROVE  IInv'
<1> USE DEF Refusals
<1>1. CASE UNCHANGED vars
  BY <1>1 DEF vars, IInv, TypeOK, OwnershipInv, RowsOwnTheirPages, NoPageLeaks,
     CountsAgree, NoInternalError, Owns, Unowned
<1>2. ASSUME NEW s \in Slots, activate(s)
      PROVE  IInv'
  <2>1. states' \in [Slots -> SlotStates] /\ answer' = "ok"
    BY <1>2 DEF activate, IInv, TypeOK, SlotStates
  <2>2. \A t \in Slots : states'[t] = "Vacant" => states[t] = "Vacant"
    BY <1>2 DEF activate, IInv, TypeOK
  <2>3. QED
    BY <1>2, <2>1, <2>2, LifecycleKeepsIInv DEF activate
<1>3. ASSUME NEW s \in Slots, retain(s)
      PROVE  IInv'
  <2>1. states' \in [Slots -> SlotStates] /\ answer' = "ok"
    BY <1>3 DEF retain, IInv, TypeOK, SlotStates
  <2>2. \A t \in Slots : states'[t] = "Vacant" => states[t] = "Vacant"
    BY <1>3 DEF retain, IInv, TypeOK
  <2>3. QED
    BY <1>3, <2>1, <2>2, LifecycleKeepsIInv DEF retain
<1>4. ASSUME NEW s \in Slots, LifecycleRefused(s)
      PROVE  IInv'
  BY <1>4, AnswerKeepsIInv DEF LifecycleRefused
<1>5. ASSUME NEW s \in Slots, recycle(s)
      PROVE  IInv'
  <2>1. CASE Answer("ok")
    BY <2>1, AnswerKeepsIInv
  <2>2. CASE ReleaseTail(s, 0, "Vacant")
    <3>1. 0 <= token_counts[s] /\ "Vacant" \in SlotStates
      BY PoolAssumption DEF IInv, TypeOK, SlotStates
    <3>2. QED
      BY <2>2, <3>1, ReleaseKeepsIInv
  <2>3. QED
    BY <1>5, <2>1, <2>2 DEF recycle
<1>6. ASSUME NEW s \in Slots, NEW n \in 0..(MaxContextTokens + 1),
             reserve_tokens(s, n)
      PROVE  IInv'
  BY <1>6, ReserveKeepsIInv
<1>7. ASSUME NEW s \in Slots, NEW n \in 0..(MaxContextTokens + 1),
             ReserveRefused(s, n)
      PROVE  IInv'
  BY <1>7, AnswerKeepsIInv DEF ReserveRefused
<1>8. ASSUME NEW s \in Slots, NEW n \in 0..(MaxContextTokens + 1),
             truncate_tokens(s, n)
      PROVE  IInv'
  <2>1. states[s] \in SlotStates /\ states[s] # "Vacant" /\ n \in Nat
    BY <1>8 DEF truncate_tokens, IInv, TypeOK
  <2>2. QED
    BY <1>8, <2>1, ReleaseKeepsIInv DEF truncate_tokens
<1>9. ASSUME NEW s \in Slots, NEW n \in 0..(MaxContextTokens + 1),
             TruncateRefused(s, n)
      PROVE  IInv'
  BY <1>9, AnswerKeepsIInv DEF TruncateRefused
<1>10. QED
  BY <1>1, <1>2, <1>3, <1>4, <1>5, <1>6, <1>7, <1>8, <1>9 DEF Next
-----------------------------------------------------------------------------
LEMMA InductiveInvariant == Spec => []IInv
<1>1. IInv /\ [Next]_vars => IInv'
  BY NextKeepsIInv
<1>2. QED
  BY InitEstablishesIInv, <1>1, PTL DEF Spec

(* Every variable of the pool keeps its type.                              *)
THEOREM TypeCorrect == Spec => []TypeOK
<1>1. IInv => TypeOK
  BY DEF IInv
<1>2. QED
  BY <1>1, InductiveInvariant, PTL

(* Tables, owner tags, counters and hint always describe one partition of  *)
(* the page inventory: no page is owned twice and no page leaks.           *)
THEOREM OwnershipHolds == Spec => []OwnershipInv
<1>1. IInv => OwnershipInv
  BY DEF IInv
<1>2. QED
  BY <1>1, InductiveInvariant, PTL

(* The internal errors of reserve_tokens and truncate_tokens are dead code.*)
THEOREM InternalErrorsUnreachable == Spec => []NoInternalError
<1>1. IInv => NoInternalError
  BY DEF IInv
<1>2. QED
  BY <1>1, InductiveInvariant, PTL
-----------------------------------------------------------------------------
(* Position a of n lies in one of the DivCeil(n) leading entries, and the  *)
(* entry and the offset determine the position.                            *)
LEMMA PositionEntry ==
    ASSUME NEW n \in Nat, NEW a \in 0..(n - 1)
    PROVE  /\ a \div ATTENTION_PAGE_SIZE \in 0..(DivCeil(n) - 1)
           /\ a = ATTENTION_PAGE_SIZE * (a \div ATTENTION_PAGE_SIZE)
                   + (a % ATTENTION_PAGE_SIZE)
<1> DEFINE B == ATTENTION_PAGE_SIZE
           q == a \div B
<1>1. B \in Nat \ {0} /\ a \in Nat /\ a < n
  BY PoolAssumption
<1>2. q \in Nat /\ B * q <= a /\ a = B * q + (a % B)
  BY <1>1
<1>3. DivCeil(n) \in Nat /\ n <= DivCeil(n) * B
  BY DivCeilBounds
<1> HIDE DEF B, q
<1>4. q < DivCeil(n)
  BY <1>1, <1>2, <1>3
<1>5. q \in 0..(DivCeil(n) - 1)
  BY <1>2, <1>3, <1>4
<1>6. QED
  BY <1>2, <1>5 DEF B, q

(* No two cached positions share a physical place, and every reserved      *)
(* position has one.                                                       *)
THEOREM RoutesAreInjective == Spec => []RouteInjective
<1> DEFINE B == ATTENTION_PAGE_SIZE
<1>1. ASSUME IInv PROVE RouteInjective
  <2> USE <1>1 DEF IInv, OwnershipInv
  <2> SUFFICES ASSUME NEW s \in Slots, NEW t \in Slots,
                      NEW a \in 0..(token_counts[s] - 1),
                      NEW b \in 0..(token_counts[t] - 1)
               PROVE  /\ Assigned(s, a)
                      /\ Route(s, a) = Route(t, b) => s = t /\ a = b
    BY DEF RouteInjective
  <2>1. /\ token_counts[s] \in Nat /\ token_counts[t] \in Nat
        /\ page_counts[s] = DivCeil(token_counts[s])
        /\ page_counts[t] = DivCeil(token_counts[t])
        /\ page_counts[s] \in 0..TableStride /\ page_counts[t] \in 0..TableStride
    BY PoolAssumption DEF TypeOK, CountsAgree
  <2>2. /\ a \div B \in 0..(page_counts[s] - 1) /\ a = B * (a \div B) + (a % B)
        /\ b \div B \in 0..(page_counts[t] - 1) /\ b = B * (b \div B) + (b % B)
    BY <2>1, PositionEntry
  <2>3. /\ a \div B \in Entries /\ a \div B < page_counts[s]
        /\ b \div B \in Entries /\ b \div B < page_counts[t]
    BY <2>1, <2>2, PoolAssumption DEF Entries
  <2>4. Owns(s, a \div B) /\ Owns(t, b \div B)
    BY <2>3 DEF RowsOwnTheirPages
  <2>5. Assigned(s, a)
    BY <2>4 DEF Owns, Assigned
  <2>6. ASSUME Route(s, a) = Route(t, b) PROVE s = t /\ a = b
    <3>1. /\ page_tables[s][a \div B] = page_tables[t][b \div B]
          /\ a % B = b % B
      BY <2>6 DEF Route
    <3>2. s = t
      BY <2>4, <3>1 DEF Owns
    <3>3. a \div B = b \div B
      BY <2>2, <3>1, <3>2 DEF RowsOwnTheirPages
    <3>4. QED
      BY <2>2, <3>1, <3>2, <3>3
  <2>7. QED
    BY <2>5, <2>6
<1>2. QED
  BY <1>1, InductiveInvariant, PTL

(* An entry a row keeps across a call names the same page after it.        *)
THEOREM PrefixNeverMoves == Spec => PrefixStable
<1> DEFINE Stable == \A s \in Slots, e \in Entries :
                        e < page_counts[s] /\ e < page_counts'[s]
                            => page_tables'[s][e] = page_tables[s][e]
<1>1. ASSUME IInv, Next PROVE Stable
  <2> USE <1>1 DEF IInv
  <2>1. ASSUME UNCHANGED page_tables PROVE Stable
    BY <2>1
  <2>2. ASSUME NEW s \in Slots, NEW n \in Nat, reserve_tokens(s, n) PROVE Stable
    <3>1. CASE ReleasePartialPages(s)
      <4>1. page_counts[s] \in Nat /\ Entries \subseteq Int
        BY PoolAssumption DEF TypeOK, Entries
      <4>2. QED
        BY <3>1, <4>1 DEF ReleasePartialPages, TypeOK
    <3>2. ASSUME NEW pick \in [page_counts[s]..(DivCeil(n) - 1) -> Reachable],
                 Assign(s, n, pick)
          PROVE  Stable
      <4>1. page_counts[s] \in Nat /\ Entries \subseteq Int
        BY PoolAssumption DEF TypeOK, Entries
      <4>2. QED
        BY <3>2, <4>1 DEF Assign, TypeOK
    <3>3. QED
      BY <2>2, <3>1, <3>2 DEF reserve_tokens
  <2>3. ASSUME NEW s \in Slots, NEW n \in Nat, n <= token_counts[s],
               NEW after, ReleaseTail(s, n, after)
        PROVE  Stable
    <3>1. /\ page_counts[s] \in 0..TableStride /\ Entries \subseteq Int
          /\ DivCeil(n) \in Nat /\ TableStride \in Nat
      <4>1. DivCeil(n) \in Nat
        BY DivCeilBounds
      <4>2. TableStride \in Nat /\ Entries \subseteq Int
        BY PoolAssumption DEF Entries
      <4>3. page_counts[s] \in 0..TableStride
        BY DEF TypeOK
      <4>4. QED
        BY <4>1, <4>2, <4>3
    <3>2. ASSUME NEW e \in Entries, e < page_counts[s], e < page_counts'[s]
          PROVE  page_tables'[s][e] = page_tables[s][e]
      <4>1. CASE Inconsistent(s, n) = {}
        <5>1. page_counts'[s] = DivCeil(n)
          BY <2>3, <4>1 DEF ReleaseTail, TypeOK
        <5>2. e \notin Released(s, n)
          BY <3>1, <3>2, <5>1 DEF Released
        <5>3. QED
          BY <2>3, <5>2 DEF ReleaseTail, TypeOK
      <4>2. CASE Inconsistent(s, n) # {}
        BY <2>3, <4>2, ConsistentRows
      <4>3. QED
        BY <4>1, <4>2
    <3>3. \A t \in Slots \ {s} : page_tables'[t] = page_tables[t]
      BY <2>3 DEF ReleaseTail, TypeOK
    <3>4. QED
      BY <3>2, <3>3
  <2>4. \A s \in Slots : token_counts[s] \in Nat
    BY PoolAssumption DEF TypeOK
  <2>5. ASSUME NEW s \in Slots, recycle(s) PROVE Stable
    BY <2>1, <2>3, <2>4, <2>5 DEF recycle, Answer, pool
  <2>6. ASSUME NEW s \in Slots, activate(s) \/ retain(s) \/ LifecycleRefused(s)
        PROVE  Stable
    BY <2>1, <2>6 DEF activate, retain, LifecycleRefused, Answer, pool
  <2>7. ASSUME NEW s \in Slots, NEW n \in Nat,
               ReserveRefused(s, n) \/ TruncateRefused(s, n)
        PROVE  Stable
    BY <2>1, <2>7 DEF ReserveRefused, TruncateRefused, Answer, pool
  <2>8. ASSUME NEW s \in Slots, NEW n \in Nat, truncate_tokens(s, n) PROVE Stable
    BY <2>3, <2>8 DEF truncate_tokens
  <2>9. QED
    <3>1. 0..(MaxContextTokens + 1) \subseteq Nat
      OBVIOUS
    <3> HIDE DEF Stable
    <3>2. QED
      BY <1>1, <2>2, <2>5, <2>6, <2>7, <2>8, <3>1 DEF Next
<1>2. IInv /\ [Next]_vars => [Stable]_vars
  BY <1>1
<1>3. QED
  BY <1>2, InductiveInvariant, PTL DEF Spec, PrefixStable

-----------------------------------------------------------------------------
(* The pool implements its ownership contract, for every number of rows,   *)
(* pages and tokens: the initial states map to initial states and every    *)
(* call maps to a step of PagedKvPages or to a stutter.                    *)

(* The pages of row s as the contract sees them.                           *)
Row(s) == [i \in 1..page_counts[s] |-> page_tables[s][i - 1]]

LEMMA PagesForIsDivCeil == \A n : Abstract!PagesFor(n) = DivCeil(n)
BY DEF Abstract!PagesFor, DivCeil

(* A row is a sequence of its leading entries, all of them pages it owns.  *)
LEMMA RowIsSequence ==
    ASSUME IInv, NEW s \in Slots
    PROVE  /\ page_counts[s] \in Nat
           /\ Row(s) \in Seq(Pages) /\ Len(Row(s)) = page_counts[s]
           /\ \A i \in 1..page_counts[s] :
                 Row(s)[i] = page_tables[s][i - 1] /\ page_owners[Row(s)[i]] = s
<1>1. page_counts[s] \in 0..TableStride /\ TableStride \in Nat
  BY PoolAssumption DEF IInv, TypeOK
<1>2. ASSUME NEW i \in 1..page_counts[s]
      PROVE  Owns(s, i - 1)
  <2>1. i - 1 \in Entries /\ i - 1 < page_counts[s]
    BY <1>1 DEF Entries
  <2>2. QED
    BY <2>1 DEF IInv, OwnershipInv, RowsOwnTheirPages
<1>3. \A i \in 1..page_counts[s] :
         page_tables[s][i - 1] \in Pages /\ page_owners[page_tables[s][i - 1]] = s
  BY <1>2 DEF Owns
<1>4. QED
  BY <1>1, <1>3 DEF Row

(* What the contract calls free is what no tag claims.                     *)
LEMMA FreeIsUnowned ==
    ASSUME IInv
    PROVE  Abstract!Free = Unowned
<1>1. \A s \in Slots :
         Abstract!PagesOf(s) = { Row(s)[i] : i \in 1..page_counts[s] }
  BY RowIsSequence DEF Abstract!PagesOf, Row
<1>2. FREE_PAGE_OWNER \notin Slots
  BY PoolAssumption DEF Slots
<1>3. ASSUME NEW p \in Pages, page_owners[p] # FREE_PAGE_OWNER
      PROVE  \E s \in Slots : p \in Abstract!PagesOf(s)
  <2> DEFINE s == page_owners[p]
  <2>1. s \in Slots
    BY <1>3 DEF IInv, TypeOK
  <2>2. PICK e \in 0..(page_counts[s] - 1) : page_tables[s][e] = p
    BY <1>3 DEF IInv, OwnershipInv, NoPageLeaks
  <2>3. e + 1 \in 1..page_counts[s] /\ (e + 1) - 1 = e
    BY <2>1, <2>2, RowIsSequence
  <2>4. Row(s)[e + 1] = p
    BY <2>2, <2>3, <2>1, RowIsSequence
  <2>5. QED
    BY <2>1, <2>3, <2>4, <1>1
<1>4. ASSUME NEW p \in Pages, NEW s \in Slots, p \in Abstract!PagesOf(s)
      PROVE  page_owners[p] # FREE_PAGE_OWNER
  BY <1>1, <1>2, <1>4, RowIsSequence
<1>5. QED
  BY <1>3, <1>4 DEF Abstract!Free, Unowned

LEMMA InitImplements == Init => Abstract!Init
<1> SUFFICES ASSUME Init PROVE Abstract!Init
  OBVIOUS
<1>1. \A s \in Slots : page_counts[s] = 0
  BY DEF Init
<1>2. \A s \in Slots : [i \in 1..page_counts[s] |-> page_tables[s][i - 1]] = << >>
  BY <1>1
<1>3. QED
  BY <1>2 DEF Init, Abstract!Init
-----------------------------------------------------------------------------
(* A granted reservation appends the pages that the scan found.            *)
LEMMA AssignExtends ==
    ASSUME IInv, IInv', NEW s \in Slots, NEW n \in Nat,
           states[s] = "Active", ReserveInRange(s, n),
           NEW pick \in [page_counts[s]..(DivCeil(n) - 1) -> Reachable],
           FirstFit(pick), Assign(s, n, pick)
    PROVE  Abstract!Extend(s, n)
<1> DEFINE old == page_counts[s]
           new == DivCeil(n)
           more == [i \in 1..(new - old) |-> pick[old + i - 1]]
<1>1. /\ old \in Nat /\ new \in Nat /\ old <= new /\ new <= TableStride
      /\ TableStride \in Nat /\ n \in token_counts[s]..MaxContextTokens
  <2>1. /\ token_counts[s] \in Nat /\ old = DivCeil(token_counts[s])
        /\ token_counts[s] <= n /\ n \in 0..MaxContextTokens
    BY PoolAssumption DEF IInv, TypeOK, OwnershipInv, CountsAgree, ReserveInRange
  <2>2. new \in 0..TableStride /\ old <= new
    BY <2>1, DivCeilLimits, DivCeilMonotone
  <2>3. QED
    BY <2>1, <2>2, PoolAssumption, RowIsSequence
<1>2. \A i \in 1..(new - old) : old + i - 1 \in old..(new - 1)
  BY <1>1
<1>3. Reachable = Abstract!Free
  BY NothingHidden, FreeIsUnowned DEF IInv
<1>4. more \in [1..(new - old) -> Abstract!Free]
  BY <1>2, <1>3
<1>5. \A i, j \in 1..(new - old) : i # j => more[i] # more[j]
  <2> SUFFICES ASSUME NEW i \in 1..(new - old), NEW j \in 1..(new - old), i # j
               PROVE  pick[old + i - 1] # pick[old + j - 1]
    OBVIOUS
  <2>1. /\ old + i - 1 \in DOMAIN pick /\ old + j - 1 \in DOMAIN pick
        /\ old + i - 1 < old + j - 1 \/ old + j - 1 < old + i - 1
    BY <1>1, <1>2
  <2>2. pick[old + i - 1] \in Int /\ pick[old + j - 1] \in Int
    BY <1>2, PoolAssumption DEF Reachable, Unowned, Pages
  <2>3. QED
    BY <2>1, <2>2 DEF FirstFit
<1>6. page_counts'[s] = new
  BY DEF Assign, IInv, TypeOK
<1>7. Row(s)' = Row(s) \o more
  <2>1. Row(s) \in Seq(Pages) /\ Len(Row(s)) = old
    BY RowIsSequence
  <2>2. more \in Seq(Pages) /\ Len(more) = new - old
    <3>1. new - old \in Nat
      BY <1>1
    <3>2. \A i \in 1..(new - old) : pick[old + i - 1] \in Pages
      BY <1>2 DEF Reachable, Unowned
    <3>3. more \in [1..(new - old) -> Pages]
      BY <3>2
    <3> DEFINE k == new - old
    <3> HIDE DEF more, old, new, k
    <3>4. ASSUME k \in Nat, more \in [1..k -> Pages]
          PROVE  more \in Seq(Pages) /\ Len(more) = k
      BY <3>4
    <3>5. QED
      BY <3>1, <3>3, <3>4 DEF k
  <2>3. Row(s)' = [i \in 1..new |-> page_tables'[s][i - 1]]
    BY <1>6 DEF Row
  <2>4. ASSUME NEW i \in 1..new
        PROVE  page_tables'[s][i - 1] = IF i <= old THEN Row(s)[i] ELSE more[i - old]
    <3>1. i - 1 \in Entries /\ DOMAIN pick = old..(new - 1)
      BY <1>1 DEF Entries
    <3>2. page_tables'[s][i - 1] = IF i - 1 \in old..(new - 1) THEN pick[i - 1]
                                    ELSE page_tables[s][i - 1]
      BY <3>1 DEF Assign, IInv, TypeOK
    <3>3. CASE i <= old
      BY <3>2, <3>3, <1>1 DEF Row
    <3>4. CASE ~(i <= old)
      <4>1. i - 1 \in old..(new - 1) /\ i - old \in 1..(new - old)
            /\ old + (i - old) - 1 = i - 1
        BY <3>4, <1>1
      <4>2. QED
        BY <3>2, <3>4, <4>1
    <3>5. QED
      BY <3>3, <3>4
  <2>5. Row(s)' \in Seq(Pages) /\ Len(Row(s)') = new
    <3>1. /\ \A i \in 1..old : Row(s)[i] \in Pages
          /\ \A i \in 1..(new - old) : more[i] \in Pages
      BY <2>1, <2>2, ElementOfSeq
    <3>2. \A i \in 1..new : page_tables'[s][i - 1] \in Pages
      <4>1. \A i \in 1..new : IF i <= old THEN i \in 1..old ELSE i - old \in 1..(new - old)
        BY <1>1
      <4> HIDE DEF old, new, more
      <4>2. QED
        BY <2>4, <3>1, <4>1
    <3>3. QED
      BY <1>1, <2>3, <3>2
  <2>6. /\ Row(s) \o more \in Seq(Pages) /\ Len(Row(s) \o more) = new
        /\ \A i \in 1..new : (Row(s) \o more)[i] =
              IF i <= old THEN Row(s)[i] ELSE more[i - old]
    <3> HIDE DEF old, new, more
    <3>1. old + (new - old) = new
      BY <1>1
    <3>2. /\ Row(s) \o more \in Seq(Pages)
          /\ Len(Row(s) \o more) = Len(Row(s)) + Len(more)
          /\ \A i \in 1..(Len(Row(s)) + Len(more)) : (Row(s) \o more)[i] =
                IF i <= Len(Row(s)) THEN Row(s)[i] ELSE more[i - Len(Row(s))]
      BY <2>1, <2>2, ConcatProperties
    <3>3. QED
      BY <2>1, <2>2, <3>1, <3>2
  <2>7. \A i \in 1..new : Row(s)'[i] = (Row(s) \o more)[i]
    BY <2>3, <2>4, <2>6
  <2>8. QED
    BY <2>5, <2>6, <2>7, SeqEqual
<1>8. \A t \in Slots \ {s} : Row(t)' = Row(t)
  BY DEF Assign, IInv, TypeOK, Row
<1>9. [t \in Slots |-> Row(t)]' = [[t \in Slots |-> Row(t)] EXCEPT ![s] = @ \o more]
  BY <1>7, <1>8
<1>10. QED
  <2>1. Len([t \in Slots |-> Row(t)][s]) = old /\ DivCeil(n) = Abstract!PagesFor(n)
    BY RowIsSequence, PagesForIsDivCeil
  <2>3. QED
    BY <1>1, <1>4, <1>5, <1>9, <2>1 DEF Abstract!Extend, Abstract!Grants, Assign, Row

(* A release drops the trailing pages of its row and nothing else.         *)
LEMMA ReleaseShortens ==
    ASSUME IInv, IInv', NEW s \in Slots, NEW n \in Nat, n <= token_counts[s],
           NEW after, ReleaseTail(s, n, after)
    PROVE  /\ [t \in Slots |-> Row(t)]' =
                 [[t \in Slots |-> Row(t)] EXCEPT ![s] = SubSeq(@, 1, DivCeil(n))]
           /\ token_counts' = [token_counts EXCEPT ![s] = n]
           /\ states' = [states EXCEPT ![s] = after]
           /\ answer' = "ok" /\ n \in 0..token_counts[s]
<1> DEFINE old == page_counts[s]
           new == DivCeil(n)
<1>1. /\ old \in Nat /\ new \in Nat /\ new <= old /\ old <= TableStride
      /\ TableStride \in Nat /\ n \in 0..token_counts[s]
  <2>1. /\ token_counts[s] \in 0..MaxContextTokens /\ MaxContextTokens \in Nat
        /\ old = DivCeil(token_counts[s])
    BY PoolAssumption DEF IInv, TypeOK, OwnershipInv, CountsAgree
  <2>2. new \in 0..TableStride /\ old \in 0..TableStride /\ new <= old
    BY <2>1, DivCeilLimits, DivCeilMonotone, PoolAssumption
  <2>3. QED
    BY <2>1, <2>2, PoolAssumption
<1>2. Inconsistent(s, n) = {}
  BY ConsistentRows
<1>3. /\ page_counts' = [page_counts EXCEPT ![s] = new]
      /\ token_counts' = [token_counts EXCEPT ![s] = n]
      /\ states' = [states EXCEPT ![s] = after] /\ answer' = "ok"
  BY <1>2 DEF ReleaseTail
<1>4. \A t \in Slots \ {s} : Row(t)' = Row(t)
  BY <1>3 DEF ReleaseTail, IInv, TypeOK, Row
<1>5. \A i \in 1..new : page_tables'[s][i - 1] = Row(s)[i]
  <2> SUFFICES ASSUME NEW i \in 1..new
               PROVE  page_tables'[s][i - 1] = Row(s)[i]
    OBVIOUS
  <2>1. i - 1 \in Entries /\ i - 1 < new /\ i \in 1..old
    BY <1>1 DEF Entries
  <2>2. i - 1 \notin Released(s, n)
    BY <2>1, <1>1 DEF Released
  <2>3. page_tables'[s][i - 1] = page_tables[s][i - 1]
    BY <2>1, <2>2 DEF ReleaseTail, IInv, TypeOK
  <2>4. QED
    BY <2>1, <2>3 DEF Row
<1>6. Row(s)' = SubSeq(Row(s), 1, new)
  <2>1. \A i \in 1..new : Row(s)[i] \in Pages
    <3>1. Row(s) \in Seq(Pages) /\ Len(Row(s)) = old
      BY RowIsSequence
    <3>2. \A i \in 1..new : i \in 1..Len(Row(s))
      BY <1>1, <3>1
    <3>3. QED
      BY <3>1, <3>2, ElementOfSeq
  <2>2. /\ SubSeq(Row(s), 1, new) \in Seq(Pages) /\ Len(SubSeq(Row(s), 1, new)) = new
        /\ \A i \in 1..new : SubSeq(Row(s), 1, new)[i] = Row(s)[i]
    <3> HIDE DEF new
    <3>1. /\ SubSeq(Row(s), 1, new) \in Seq(Pages)
          /\ Len(SubSeq(Row(s), 1, new)) = IF 1 <= new THEN new - 1 + 1 ELSE 0
          /\ \A i \in 1..(new - 1 + 1) : SubSeq(Row(s), 1, new)[i] = Row(s)[1 + i - 1]
      BY <1>1, <2>1, SubSeqProperties
    <3>2. new - 1 + 1 = new /\ (new = 0 \/ 1 <= new) /\ \A i \in 1..new : 1 + i - 1 = i
      BY <1>1
    <3>3. QED
      BY <3>1, <3>2
  <2>3. Row(s)' = [i \in 1..new |-> page_tables'[s][i - 1]]
    BY <1>3 DEF Row, IInv, TypeOK
  <2>4. Row(s)' \in Seq(Pages) /\ Len(Row(s)') = new
    BY <1>1, <1>5, <2>1, <2>3
  <2>5. QED
    BY <1>5, <2>2, <2>3, <2>4, SeqEqual
<1>7. QED
  BY <1>1, <1>3, <1>4, <1>6

LEMMA TruncateShortens ==
    ASSUME IInv, IInv', NEW s \in Slots, NEW n \in Nat, truncate_tokens(s, n)
    PROVE  Abstract!Shorten(s, n)
<1>1. n <= token_counts[s] /\ states[s] # "Vacant" /\ ReleaseTail(s, n, states[s])
  BY DEF truncate_tokens
<1>2. [states EXCEPT ![s] = states[s]] = states
  BY DEF IInv, TypeOK
<1>3. /\ [t \in Slots |-> Row(t)]' =
            [[t \in Slots |-> Row(t)] EXCEPT ![s] = SubSeq(@, 1, Abstract!PagesFor(n))]
      /\ token_counts' = [token_counts EXCEPT ![s] = n]
      /\ states' = states /\ answer' = "ok" /\ n \in 0..token_counts[s]
  <2>1. /\ [t \in Slots |-> Row(t)]' =
              [[t \in Slots |-> Row(t)] EXCEPT ![s] = SubSeq(@, 1, DivCeil(n))]
        /\ token_counts' = [token_counts EXCEPT ![s] = n]
        /\ states' = [states EXCEPT ![s] = states[s]]
        /\ answer' = "ok" /\ n \in 0..token_counts[s]
    BY <1>1, ReleaseShortens
  <2>2. Abstract!PagesFor(n) = DivCeil(n)
    BY PagesForIsDivCeil
  <2>3. QED
    BY <1>2, <2>1, <2>2
<1>4. QED
  BY <1>1, <1>3 DEF Abstract!Shorten, Row

LEMMA RecycleReleases ==
    ASSUME IInv, IInv', NEW s \in Slots, recycle(s)
    PROVE  Abstract!Release(s)
<1>1. Row(s) \in Seq(Pages) /\ Len(Row(s)) = page_counts[s]
  BY RowIsSequence
<1>2. CASE states[s] = "Vacant" /\ Answer("ok")
  <2>1. token_counts[s] = 0 /\ page_counts[s] = 0
    BY <1>2, DivCeilLimits DEF IInv, OwnershipInv, CountsAgree
  <2>2. Row(s) = << >>
    BY <2>1 DEF Row
  <2>3. /\ [t \in Slots |-> Row(t)] = [[t \in Slots |-> Row(t)] EXCEPT ![s] = << >>]
        /\ token_counts = [token_counts EXCEPT ![s] = 0]
        /\ states = [states EXCEPT ![s] = "Vacant"]
    BY <1>2, <2>1, <2>2 DEF IInv, TypeOK
  <2>4. QED
    BY <1>2, <2>3 DEF Abstract!Release, Answer, pool, Row
<1>3. CASE ReleaseTail(s, 0, "Vacant")
  <2>1. 0 <= token_counts[s] /\ DivCeil(0) = 0
    BY PoolAssumption, DivCeilLimits DEF IInv, TypeOK
  <2>2. SubSeq(Row(s), 1, 0) = << >>
    BY SubSeqEmpty
  <2>3. /\ [t \in Slots |-> Row(t)]' = [[t \in Slots |-> Row(t)] EXCEPT ![s] = << >>]
        /\ token_counts' = [token_counts EXCEPT ![s] = 0]
        /\ states' = [states EXCEPT ![s] = "Vacant"] /\ answer' = "ok"
    <3>1. /\ [t \in Slots |-> Row(t)]' =
                [[t \in Slots |-> Row(t)] EXCEPT ![s] = SubSeq(@, 1, DivCeil(0))]
          /\ token_counts' = [token_counts EXCEPT ![s] = 0]
          /\ states' = [states EXCEPT ![s] = "Vacant"]
          /\ answer' = "ok" /\ 0 \in 0..token_counts[s]
      BY <1>3, <2>1, ReleaseShortens
    <3>2. [[t \in Slots |-> Row(t)] EXCEPT ![s] = SubSeq(@, 1, DivCeil(0))]
             = [[t \in Slots |-> Row(t)] EXCEPT ![s] = << >>]
      BY <2>1, <2>2
    <3>3. QED
      BY <3>1, <3>2
  <2>4. QED
    BY <2>3 DEF Abstract!Release, Row
<1>4. QED
  BY <1>2, <1>3 DEF recycle
-----------------------------------------------------------------------------
(* A refusal for lack of pages is one that no choice of free pages avoids. *)
LEMMA NoGrants ==
    ASSUME IInv, NEW s \in Slots, NEW n \in Nat, Additional(s, n) > free_pages
    PROVE  Abstract!Grants(s, n) = {}
<1> DEFINE k == DivCeil(n) - page_counts[s]
<1>1. /\ DivCeil(n) \in Nat /\ page_counts[s] \in Nat /\ free_pages \in Nat /\ k > free_pages
  BY DivCeilBounds, RowIsSequence, PoolAssumption DEF IInv, TypeOK, Additional
<1>2. k \in Nat
  BY <1>1
<1>3. /\ Abstract!Free = Unowned /\ IsFiniteSet(Unowned)
      /\ Cardinality(Unowned) = free_pages
  BY FreeIsUnowned, UnownedFinite DEF IInv, OwnershipInv, CountsAgree
<1>4. Abstract!PagesFor(n) - Len([t \in Slots |-> Row(t)][s]) = k
  BY RowIsSequence, PagesForIsDivCeil
<1> HIDE DEF k
<1>5. IsFiniteSet(1..k) /\ Cardinality(1..k) = k
  BY <1>2, FS_Interval
<1>6. ASSUME NEW more \in [1..k -> Unowned]
      PROVE  \E i, j \in DOMAIN more : i # j /\ more[i] = more[j]
  <2>1. Cardinality(Unowned) < Cardinality(1..k)
    BY <1>1, <1>2, <1>3, <1>5
  <2>2. \E i, j \in 1..k : i # j /\ more[i] = more[j]
    BY <1>3, <1>5, <2>1, FS_PigeonHole
  <2>3. QED
    BY <2>2
<1>7. QED
  BY <1>3, <1>4, <1>6 DEF Abstract!Grants, Row

(* A refusal maps to a refusal, for the reason the contract allows.        *)
LEMMA RefusalsImplement ==
    ASSUME IInv, NEW s \in Slots, NEW n \in Nat,
           ReserveRefused(s, n) \/ TruncateRefused(s, n) \/ LifecycleRefused(s)
    PROVE  Abstract!Refuse(s, n)
<1>1. token_counts[s] \in 0..MaxContextTokens /\ MaxContextTokens \in Nat
  BY PoolAssumption DEF IInv, TypeOK
<1>2. UNCHANGED <<[t \in Slots |-> Row(t)], states, token_counts>>
  BY DEF ReserveRefused, TruncateRefused, LifecycleRefused, Answer, pool, Row
<1>3. \/ answer' = "lifecycle"
      \/ answer' = "range" /\ n # token_counts[s]
      \/ answer' = "pages" /\ states[s] = "Active" /\ Additional(s, n) > free_pages
  BY <1>1 DEF ReserveRefused, TruncateRefused, LifecycleRefused, Answer, ReserveInRange
<1>4. QED
  BY <1>2, <1>3, NoGrants DEF Abstract!Refuse, Row

(* Every call maps to a step of the contract.                              *)
LEMMA NextImplements ==
    ASSUME IInv, IInv', [Next]_vars
    PROVE  [Abstract!Next]_(Abstract!vars)
<1>1. CASE UNCHANGED vars
  BY <1>1 DEF vars, Abstract!vars
<1>2. ASSUME NEW s \in Slots, activate(s) PROVE Abstract!Activate(s)
  BY <1>2 DEF activate, Abstract!Activate
<1>3. ASSUME NEW s \in Slots, retain(s) PROVE Abstract!Retain(s)
  BY <1>3 DEF retain, Abstract!Retain
<1>4. ASSUME NEW s \in Slots, NEW n \in Nat, reserve_tokens(s, n)
      PROVE  Abstract!Extend(s, n)
  <2>1. answer' # "accounting"
    BY DEF IInv, NoInternalError, InternalErrors
  <2>2. PICK pick \in [page_counts[s]..(DivCeil(n) - 1) -> Reachable] :
             FirstFit(pick) /\ Assign(s, n, pick)
    BY <1>4, <2>1 DEF reserve_tokens, ReleasePartialPages
  <2>3. QED
    BY <1>4, <2>2, AssignExtends DEF reserve_tokens
<1>5. 0 \in 0..(MaxContextTokens + 1) /\ 0..(MaxContextTokens + 1) \subseteq Nat
  BY PoolAssumption
<1>6. CASE Next
  <2> USE DEF Abstract!Next
  <2>1. PICK s \in Slots :
          \/ activate(s) \/ retain(s) \/ LifecycleRefused(s) \/ recycle(s)
          \/ \E n \in 0..(MaxContextTokens + 1) :
                \/ reserve_tokens(s, n) \/ ReserveRefused(s, n)
                \/ truncate_tokens(s, n) \/ TruncateRefused(s, n)
    BY <1>6 DEF Next
  <2>2. CASE activate(s) \/ retain(s)
    BY <2>2, <1>2, <1>3
  <2>3. CASE LifecycleRefused(s)
    BY <2>3, <1>5, RefusalsImplement
  <2>4. CASE recycle(s)
    BY <2>4, RecycleReleases
  <2>5. ASSUME NEW n \in 0..(MaxContextTokens + 1),
               \/ reserve_tokens(s, n) \/ ReserveRefused(s, n)
               \/ truncate_tokens(s, n) \/ TruncateRefused(s, n)
        PROVE  Abstract!Next
    BY <2>5, <1>4, <1>5, RefusalsImplement, TruncateShortens
  <2>6. QED
    BY <2>1, <2>2, <2>3, <2>4, <2>5
<1>7. QED
  BY <1>1, <1>6

(* The pool implements its ownership contract: whatever a caller can see   *)
(* of tables, tags, counters and hint is what PagedKvPages allows.         *)
THEOREM PoolImplementsPages == Spec => ImplementsPages
<1>1. IInv /\ IInv' /\ [Next]_vars => [Abstract!Next]_(Abstract!vars)
  BY NextImplements
<1>2. QED
  BY <1>1, InductiveInvariant, InitImplements, PTL
  DEF Spec, ImplementsPages, Abstract!Spec
=============================================================================
