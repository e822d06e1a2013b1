------------------------ MODULE WeightStream_proofs ------------------------
(***************************************************************************)
(* Proofs about WeightStream for any items, slots, rings and number of     *)
(* rounds, and any interleaving of the host with its two streams.          *)
(***************************************************************************)
EXTENDS WeightStream, FiniteSetTheorems, SequenceTheorems, FunctionTheorems, TLAPS

-----------------------------------------------------------------------------
(* The inductive invariant.                                                *)

Distinct(seq) == \A j, k \in DOMAIN seq : seq[j] = seq[k] => j = k

(* The cache: its two tables are each other's inverse, the recency list    *)
(* has each occupied slot once, later readers later.                       *)
CacheSound ==
    /\ \A i \in Items : item_slot[i] # Absent => slot_item[item_slot[i]] = i
    /\ \A s \in Slots : slot_item[s] # Absent =>
          item_slot[slot_item[s]] = s /\ pinned_round[s] > 0
    /\ \A s \in Slots : pinned_round[s] <= round
    /\ ToSet(recency) = { s \in Slots : slot_item[s] # Absent }
    /\ Distinct(recency)
    /\ \A j, k \in DOMAIN recency :
          j <= k => pinned_round[recency[j]] <= pinned_round[recency[k]]

(* A plan: each slot and each item once; a hit is resident and an          *)
(* admission takes the place of what its slot held, and is of an item that *)
(* was absent or that the plan evicts.                                     *)
PlanSound(steps) ==
    /\ \A j, k \in DOMAIN steps :
          steps[j].slot = steps[k].slot \/ steps[j].item = steps[k].item => j = k
    /\ \A k \in DOMAIN steps :
          IF steps[k].admitted
          THEN /\ steps[k].evicted = slot_item[steps[k].slot]
               /\ \/ item_slot[steps[k].item] = Absent
                  \/ \E j \in Admissions(steps) : steps[j].evicted = steps[k].item
          ELSE item_slot[steps[k].item] = steps[k].slot

Asked(steps) == { steps[k].item : k \in DOMAIN steps }
Overwritten(steps) == { steps[k].slot : k \in Admissions(steps) }

(* Where the call is.                                                      *)
CallSound ==
    /\ poisoned => pc = "idle"
    /\ pc \in {"idle", "stall"} /\ ~poisoned => publication = Len(transfer)
    /\ pc = "upload" <=> uploads # {}
    /\ pc = "upload" =>
          /\ uploads \subseteq Admissions(plan)
          /\ PlanSound(plan) /\ current = Asked(plan) /\ round < MaxRounds

(* Host bytes of a queued copy are there, and fenced until it has run.     *)
SourcesHeld ==
    \A k \in DOMAIN transfer :
        LET next == transfer[k] IN
        /\ next.op = "Upload" /\ next.ring # Absent =>
              bounce[next.ring].item = next.item /\ bounce[next.ring].fence >= k
        /\ next.op = "Table" =>
              staging[next.stage].table = next.table /\ staging[next.stage].fence >= k

(* What slot s holds, and where the table leads item i, once the first q   *)
(* operations of the transfer stream have run.                             *)
Written(s, k) == transfer[k].op = "Upload" /\ transfer[k].slot = s
Holds(s, i, q) ==
    \/ slots[s] = i /\ \A j \in 1 .. q : ~Written(s, j)
    \/ \E k \in 1 .. q : /\ Written(s, k) /\ transfer[k].item = i
                         /\ \A j \in k + 1 .. q : ~Written(s, j)
Leads(i, s, q) ==
    \/ table[i] = s /\ \A j \in 1 .. q : transfer[j].op # "Table"
    \/ \E k \in 1 .. q : /\ transfer[k].op = "Table" /\ transfer[k].table[i] = s
                         /\ \A j \in k + 1 .. q : transfer[j].op # "Table"

WillHold(s, i) == Holds(s, i, Len(transfer))
WillLead(i, s) == Leads(i, s, Len(transfer))

(* The cache's claims once the transfer stream has run dry: those of the   *)
(* committed round, but for the slots that the plan overwrites and has     *)
(* overwritten already.                                                    *)
Overwrites(s) == pc = "upload" /\ s \in Overwritten(plan)
ClaimsHold ==
    ~poisoned =>
        /\ pc \in {"idle", "stall"} =>
              \A i \in Items : \A s \in Slots \cup {Absent} : item_slot[i] = s => WillLead(i, s)
        /\ \A i \in Items, s \in Slots :
              item_slot[i] = s /\ ~Overwrites(s) => WillHold(s, i)
        /\ pc = "upload" =>
              \A s \in Slots, i \in Items :
                  (\E k \in Admissions(plan) \ uploads : plan[k].slot = s /\ plan[k].item = i) =>
                      WillHold(s, i)

(* Operations of the transfer stream that have run when the replay at k    *)
(* does, and whether one of them waits for it.                             *)
Reached(k) == IF k > 1 /\ consumer[k - 1].op = "Wait" THEN consumer[k - 1].left ELSE 0
WaitsFor(j, k) == transfer[j].op = "Wait" /\ transfer[j].left >= k

(* However far the transfer stream is when a replay runs, it reads its     *)
(* items.                                                                  *)
ReplaysSafe ==
    \A k \in DOMAIN consumer :
        consumer[k].op = "Replay" =>
            \A q \in Reached(k) .. Len(transfer) :
                (\A j \in 1 .. q : ~WaitsFor(j, k)) =>
                    \A i \in consumer[k].items :
                        \E s \in Slots : Leads(i, s, q) /\ Holds(s, i, q)

(* A replay that no queued operation waits for reads what is resident, and *)
(* every release that covers the readers of its slots comes after it.      *)
Held(k) ==
    \A i \in consumer[k].items : \E s \in Slots :
        /\ item_slot[i] = s /\ ~Overwrites(s) /\ WillLead(i, s)
        /\ \A r \in DOMAIN reclaims :
              reclaims[r].generation >= pinned_round[s] => reclaims[r].fence >= k
ReplaysHeld ==
    ~poisoned =>
        \A k \in DOMAIN consumer :
            consumer[k].op = "Replay" =>
                Held(k) \/ \E j \in DOMAIN transfer : WaitsFor(j, k)

(* The round that can be replayed is resident and no release covers it.    *)
CurrentHeld ==
    /\ \A r \in DOMAIN reclaims : reclaims[r].generation <= round
    /\ pc # "upload" =>
          \A i \in current :
              /\ item_slot[i] # Absent /\ pinned_round[item_slot[i]] = round
              /\ \A r \in DOMAIN reclaims : reclaims[r].generation < round

IInv ==
    /\ TypeOK /\ CacheSound /\ CallSound /\ SourcesHeld
    /\ ClaimsHold /\ ReplaysSafe /\ ReplaysHeld /\ CurrentHeld

-----------------------------------------------------------------------------
(* Least and greatest numbers, and lists without some of their entries.    *)

LEMMA Least ==
    ASSUME NEW S \in SUBSET Nat, S # {}
    PROVE  \E m \in S : \A n \in S : m <= n
<1>1. \E m \in S : \A n \in S : ~(<<n, m>> \in OpToRel(<, Nat))
  BY WFMin, NatLessThanWellFounded, Zenon
<1>2. PICK m \in S : \A n \in S : ~(<<n, m>> \in OpToRel(<, Nat))  BY <1>1
<1>3. \A n \in S : ~(n < m)
  <2> SUFFICES ASSUME NEW n \in S, n < m PROVE FALSE  OBVIOUS
  <2>1. <<n, m>> \in Nat \X Nat /\ <<n, m>>[1] < <<n, m>>[2]  OBVIOUS
  <2>2. <<n, m>> \in OpToRel(<, Nat)  BY <2>1, Zenon DEF OpToRel
  <2> QED  BY <1>2, <2>2
<1> QED  BY <1>3

LEMMA ReclaimShapes ==
    ASSUME TypeOK
    PROVE  /\ Len(reclaims) \in Nat /\ DOMAIN reclaims = 1 .. Len(reclaims)
           /\ \A k \in DOMAIN reclaims :
                 reclaims[k] \in [generation : 0 .. MaxRounds, fence : 0 .. Len(consumer)]
<1> DEFINE R == [generation : 0 .. MaxRounds, fence : 0 .. Len(consumer)]
<1>1. reclaims \in Seq(R)  BY DEF TypeOK
<1> HIDE DEF R
<1>2. Len(reclaims) \in Nat /\ DOMAIN reclaims = 1 .. Len(reclaims)
  BY ONLY <1>1, LenProperties
<1>3. ASSUME NEW k \in DOMAIN reclaims PROVE reclaims[k] \in R
  BY ONLY <1>1, <1>2, <1>3, ElementOfSeq
<1> QED  BY ONLY <1>2, <1>3 DEF R

LEMMA MinIsLeast ==
    ASSUME NEW S \in SUBSET Nat, S # {}
    PROVE  Min(S) \in S /\ \A n \in S : Min(S) <= n
BY Least DEF Min

LEMMA MaxIsGreatest ==
    ASSUME NEW N \in Nat, NEW S \in SUBSET (0 .. N), S # {}
    PROVE  Max(S) \in S /\ \A n \in S : n <= Max(S)
<1> DEFINE Above == { m \in Nat : \A n \in S : n <= m }
<1>1. N \in Above  OBVIOUS
<1>2. PICK m \in Above : \A n \in Above : m <= n
  <2> HIDE DEF Above
  <2>1. Above \in SUBSET Nat  BY DEF Above
  <2> QED  BY <1>1, <2>1, Least
<1>3. m \in S
  <2> SUFFICES ASSUME m \notin S PROVE FALSE  OBVIOUS
  <2>1. \A n \in S : n \in Nat /\ n <= m /\ n # m  BY <1>2
  <2>5. PICK e \in S : TRUE  OBVIOUS
  <2>6. m \in Nat /\ e \in Nat /\ e <= m /\ e # m  BY <1>2, <2>1
  <2>2. m # 0 /\ m - 1 \in Nat  BY <2>6
  <2>3. \A n \in S : n <= m - 1  BY <1>2, <2>1
  <2>4. m - 1 \in Above  BY <2>2, <2>3
  <2> QED  BY <1>2, <2>4
<1>4. \E x \in S : \A n \in S : n <= x  BY <1>2, <1>3
<1> QED  BY <1>4 DEF Max

(* The definition of Without is by recursion on the index; the recursion   *)
(* has a solution.                                                         *)
LEMMA WithoutIsDefined ==
    ASSUME NEW T, NEW seq \in Seq(T), NEW S
    PROVE  \E kept :
             /\ kept = [i \in 0 .. Len(seq) |->
                          IF i = 0 THEN << >>
                          ELSE IF seq[i] \in S THEN kept[i - 1]
                          ELSE Append(kept[i - 1], seq[i])]
             /\ Without(seq, S) = kept[Len(seq)]
<1> DEFINE Upto(n) ==
      \E k : k = [i \in 0 .. n |-> IF i = 0 THEN << >>
                                   ELSE IF seq[i] \in S THEN k[i - 1]
                                   ELSE Append(k[i - 1], seq[i])]
<1>1. Upto(0)
  <2> DEFINE k == [i \in 0 .. 0 |-> << >>]
  <2>1. k = [i \in 0 .. 0 |-> IF i = 0 THEN << >>
                              ELSE IF seq[i] \in S THEN k[i - 1]
                              ELSE Append(k[i - 1], seq[i])]
    OBVIOUS
  <2> QED  BY <2>1
<1>2. ASSUME NEW n \in Nat, Upto(n) PROVE Upto(n + 1)
  <2>1. PICK k : k = [i \in 0 .. n |-> IF i = 0 THEN << >>
                                       ELSE IF seq[i] \in S THEN k[i - 1]
                                       ELSE Append(k[i - 1], seq[i])]
    BY <1>2
  <2> DEFINE l == [i \in 0 .. n + 1 |->
                     IF i <= n THEN k[i]
                     ELSE IF seq[n + 1] \in S THEN k[n]
                     ELSE Append(k[n], seq[n + 1])]
  <2>2. ASSUME NEW i \in 0 .. n + 1
        PROVE  l[i] = IF i = 0 THEN << >>
                      ELSE IF seq[i] \in S THEN l[i - 1]
                      ELSE Append(l[i - 1], seq[i])
    <3>1. CASE i = 0  BY <2>1, <3>1
    <3>2. CASE i \in 1 .. n
      <4>1. l[i] = k[i] /\ l[i - 1] = k[i - 1]  BY <3>2
      <4>3. i \in 0 .. n /\ i # 0  BY <3>2
      <4>2. k[i] = IF seq[i] \in S THEN k[i - 1] ELSE Append(k[i - 1], seq[i])
        <5> DEFINE e(j) == IF j = 0 THEN << >>
                           ELSE IF seq[j] \in S THEN k[j - 1]
                           ELSE Append(k[j - 1], seq[j])
        <5>1. k = [j \in 0 .. n |-> e(j)]  BY <2>1
        <5> HIDE DEF e
        <5>2. k[i] = e(i)  BY <4>3, <5>1
        <5> QED  BY <4>3, <5>2 DEF e
      <4> QED  BY <3>2, <4>1, <4>2
    <3>3. CASE i = n + 1
      <4>1. l[i - 1] = k[n]  BY <3>3
      <4>2. l[i] = IF seq[n + 1] \in S THEN k[n] ELSE Append(k[n], seq[n + 1])  BY <3>3
      <4> QED  BY <3>3, <4>1, <4>2
    <3> QED  BY <3>1, <3>2, <3>3
  <2> HIDE DEF l
  <2>3. DOMAIN l = 0 .. n + 1 /\ l = [i \in 0 .. n + 1 |-> l[i]]  BY DEF l
  <2>4. l = [i \in 0 .. n + 1 |-> IF i = 0 THEN << >>
                                  ELSE IF seq[i] \in S THEN l[i - 1]
                                  ELSE Append(l[i - 1], seq[i])]
    BY <2>2, <2>3
  <2> QED  BY <2>4
<1> HIDE DEF Upto
<1>3. \A n \in Nat : Upto(n)
  <2> DEFINE Bad == { n \in Nat : ~Upto(n) }
  <2> SUFFICES ASSUME Bad # {} PROVE FALSE  OBVIOUS
  <2>1. PICK m \in Bad : \A n \in Bad : m <= n  BY Least
  <2>2. m # 0 /\ m - 1 \in Nat /\ (m - 1) + 1 = m  BY <1>1, <2>1
  <2>3. Upto(m - 1)  BY <2>1, <2>2
  <2> QED  BY <1>2, <2>1, <2>2, <2>3
<1>4. Upto(Len(seq))  BY <1>3, LenProperties
<1> DEFINE f[i \in 0 .. Len(seq)] == IF i = 0 THEN << >>
                                     ELSE IF seq[i] \in S THEN f[i - 1]
                                     ELSE Append(f[i - 1], seq[i])
<1>5. f = [i \in 0 .. Len(seq) |-> IF i = 0 THEN << >>
                                     ELSE IF seq[i] \in S THEN f[i - 1]
                                     ELSE Append(f[i - 1], seq[i])]
  BY <1>4 DEF Upto
<1>6. Without(seq, S) = f[Len(seq)]  BY DEF Without
<1> HIDE DEF f
<1> QED  BY <1>5, <1>6

(* What is left of a list: the entries outside S, in the order they were,  *)
(* none twice that was not.                                                *)
LEMMA WithoutKeeps ==
    ASSUME NEW T, NEW seq \in Seq(T), NEW S
    PROVE  /\ Without(seq, S) \in Seq(T)
           /\ ToSet(Without(seq, S)) = ToSet(seq) \ S
           /\ Distinct(seq) => Distinct(Without(seq, S))
           /\ \A j, k \in DOMAIN Without(seq, S) : j <= k =>
                 \E a, b \in DOMAIN seq :
                    a <= b /\ Without(seq, S)[j] = seq[a] /\ Without(seq, S)[k] = seq[b]
<1> DEFINE N == Len(seq)
<1>1. N \in Nat /\ DOMAIN seq = 1 .. N /\ \A i \in 1 .. N : seq[i] \in T
  BY LenProperties, ElementOfSeq
<1>2. PICK kept :
        /\ kept = [i \in 0 .. N |-> IF i = 0 THEN << >>
                                    ELSE IF seq[i] \in S THEN kept[i - 1]
                                    ELSE Append(kept[i - 1], seq[i])]
        /\ Without(seq, S) = kept[N]
  BY WithoutIsDefined
<1> DEFINE Sound(n) == /\ kept[n] \in Seq(T)
                       /\ ToSet(kept[n]) = { seq[i] : i \in 1 .. n } \ S
                       /\ Distinct(seq) => Distinct(kept[n])
                       /\ \A j, k \in DOMAIN kept[n] : j <= k =>
                             \E a, b \in 1 .. n :
                                a <= b /\ kept[n][j] = seq[a] /\ kept[n][k] = seq[b]
<1>3. Sound(0)
  <2>1. kept[0] = << >>  BY <1>1, <1>2
  <2>2. << >> \in Seq(T) /\ DOMAIN << >> = {}  BY EmptySeq
  <2>3. ToSet(<< >>) = {} /\ Distinct(<< >>)  BY <2>2 DEF ToSet, Distinct
  <2> QED  BY <2>1, <2>2, <2>3
<1>4. ASSUME NEW n \in 0 .. N - 1, Sound(n) PROVE Sound(n + 1)
  <2>1. n + 1 \in 1 .. N /\ n \in Nat /\ (n + 1) - 1 = n /\ n + 1 # 0  BY <1>1
  <2>2. kept[n + 1] = IF seq[n + 1] \in S THEN kept[n] ELSE Append(kept[n], seq[n + 1])
    <3> DEFINE e(j) == IF j = 0 THEN << >>
                       ELSE IF seq[j] \in S THEN kept[j - 1]
                       ELSE Append(kept[j - 1], seq[j])
    <3>1. kept = [j \in 0 .. N |-> e(j)]  BY <1>2
    <3> HIDE DEF e
    <3>2. n + 1 \in 0 .. N  BY <1>1, <2>1
    <3>3. kept[n + 1] = e(n + 1)  BY <3>1, <3>2
    <3> QED  BY <2>1, <3>3 DEF e
  <2>3. { seq[i] : i \in 1 .. n + 1 } = { seq[i] : i \in 1 .. n } \cup {seq[n + 1]}
    BY <2>1
  <2>4. CASE seq[n + 1] \in S
    <3>1. kept[n + 1] = kept[n]  BY <2>2, <2>4
    <3>2. ToSet(kept[n]) = { seq[i] : i \in 1 .. n + 1 } \ S  BY <1>4, <2>3, <2>4
    <3>3. 1 .. n \subseteq 1 .. n + 1  BY <2>1
    <3>4. kept[n] \in Seq(T) /\ (Distinct(seq) => Distinct(kept[n]))  BY <1>4
    <3>5. \A j, k \in DOMAIN kept[n] : j <= k =>
             \E a, b \in 1 .. n + 1 : a <= b /\ kept[n][j] = seq[a] /\ kept[n][k] = seq[b]
      BY <1>4, <3>3
    <3> QED  BY <3>1, <3>2, <3>4, <3>5
  <2>5. CASE seq[n + 1] \notin S
    <3> DEFINE e == seq[n + 1]  k == kept[n]  l == Append(k, e)
    <3>1. k \in Seq(T) /\ e \in T  BY <1>1, <1>4, <2>1
    <3>2. Len(k) \in Nat /\ DOMAIN k = 1 .. Len(k)  BY <3>1, LenProperties
    <3>3. /\ l \in Seq(T) /\ Len(l) = Len(k) + 1
          /\ \A i \in 1 .. Len(k) : l[i] = k[i]
          /\ l[Len(k) + 1] = e
      BY <3>1, AppendProperties
    <3>4. DOMAIN l = 1 .. Len(k) + 1  BY <3>3, LenProperties
    <3> HIDE DEF l
    <3>5. ToSet(l) = ToSet(k) \cup {e}
      <4>1. \A i \in 1 .. Len(k) + 1 : i \in 1 .. Len(k) \/ i = Len(k) + 1  BY <3>2
      <4>2. 1 .. Len(k) \subseteq 1 .. Len(k) + 1 /\ Len(k) + 1 \in 1 .. Len(k) + 1
        BY <3>2
      <4> QED  BY <3>2, <3>3, <3>4, <4>1, <4>2 DEF ToSet
    <3>6. ToSet(l) = { seq[i] : i \in 1 .. n + 1 } \ S  BY <1>4, <2>3, <2>5, <3>5
    <3>7. ASSUME Distinct(seq) PROVE Distinct(l)
      <4>1. Distinct(k)  BY <1>4, <3>7
      <4>2. \A i \in 1 .. Len(k) : k[i] # e
        <5> SUFFICES ASSUME NEW i \in 1 .. Len(k), k[i] = e PROVE FALSE  OBVIOUS
        <5>1. k[i] \in ToSet(k)  BY <3>2 DEF ToSet
        <5>2. PICK j \in 1 .. n : seq[j] = e  BY <1>4, <5>1
        <5>3. j \in 1 .. N /\ j # n + 1  BY <1>1, <2>1
        <5> QED  BY <1>1, <2>1, <3>7, <5>2, <5>3 DEF Distinct
      <4>3. ASSUME NEW i \in 1 .. Len(k) + 1, NEW j \in 1 .. Len(k) + 1, l[i] = l[j]
            PROVE  i = j
        <5>1. CASE i \in 1 .. Len(k) /\ j \in 1 .. Len(k)
          BY <3>2, <3>3, <4>1, <4>3, <5>1 DEF Distinct
        <5>2. CASE i = Len(k) + 1 /\ j = Len(k) + 1  BY <5>2
        <5>3. CASE i \in 1 .. Len(k) /\ j = Len(k) + 1  BY <3>3, <4>2, <4>3, <5>3
        <5>4. CASE i = Len(k) + 1 /\ j \in 1 .. Len(k)  BY <3>3, <4>2, <4>3, <5>4
        <5> QED  BY <3>2, <5>1, <5>2, <5>3, <5>4
      <4> QED  BY <3>4, <4>3 DEF Distinct
    <3>8. kept[n + 1] = l  BY <2>2, <2>5 DEF l
    <3>9. ASSUME NEW i \in DOMAIN l, NEW j \in DOMAIN l, i <= j
          PROVE  \E a, b \in 1 .. n + 1 : a <= b /\ l[i] = seq[a] /\ l[j] = seq[b]
      <4>1. CASE j \in 1 .. Len(k)
        <5>1. i \in DOMAIN k /\ j \in DOMAIN k /\ l[i] = k[i] /\ l[j] = k[j]
          BY <3>2, <3>3, <3>4, <3>9, <4>1
        <5>2. PICK a \in 1 .. n, b \in 1 .. n : a <= b /\ k[i] = seq[a] /\ k[j] = seq[b]
          BY <1>4, <3>9, <5>1
        <5>3. a \in 1 .. n + 1 /\ b \in 1 .. n + 1  BY <2>1
        <5> QED  BY <5>1, <5>2, <5>3
      <4>2. CASE i \in 1 .. Len(k) /\ j = Len(k) + 1
        <5>1. i \in DOMAIN k /\ l[i] = k[i] /\ l[j] = e  BY <3>2, <3>3, <4>2
        <5>2. i <= i  BY <4>2
        <5>3. PICK a \in 1 .. n : k[i] = seq[a]  BY <1>4, <5>1, <5>2
        <5>4. a \in 1 .. n + 1 /\ n + 1 \in 1 .. n + 1 /\ a <= n + 1  BY <2>1
        <5> QED  BY <5>1, <5>3, <5>4
      <4>3. CASE i = Len(k) + 1 /\ j = Len(k) + 1
        <5>1. n + 1 \in 1 .. n + 1 /\ n + 1 <= n + 1  BY <2>1
        <5> QED  BY <3>3, <4>3, <5>1
      <4> QED  BY <3>2, <3>4, <3>9, <4>1, <4>2, <4>3
    <3> QED  BY <3>3, <3>6, <3>7, <3>8, <3>9
  <2> QED  BY <2>4, <2>5
<1> HIDE DEF Sound
<1>5. \A n \in 0 .. N : Sound(n)
  <2> DEFINE Bad == { n \in 0 .. N : ~Sound(n) }
  <2> SUFFICES ASSUME Bad # {} PROVE FALSE  OBVIOUS
  <2>0. Bad \in SUBSET Nat  BY <1>1
  <2>1. PICK m \in Bad : \A n \in Bad : m <= n
    <3> HIDE DEF Bad
    <3> QED  BY <2>0, Least
  <2>2. m # 0 /\ m - 1 \in 0 .. N - 1 /\ (m - 1) + 1 = m  BY <1>1, <1>3, <2>1
  <2>3. Sound(m - 1)  BY <1>1, <2>1, <2>2
  <2> QED  BY <1>4, <2>1, <2>2, <2>3
<1>6. Sound(N)  BY <1>1, <1>5
<1>7. { seq[i] : i \in 1 .. N } = ToSet(seq)  BY <1>1 DEF ToSet
<1>8. DOMAIN seq = 1 .. N  BY <1>1
<1> HIDE DEF N
<1> DEFINE W == Without(seq, S)
<1>9. W = kept[N]  BY <1>2
<1> HIDE DEF W
<1>10. W \in Seq(T) /\ ToSet(W) = ToSet(seq) \ S /\ (Distinct(seq) => Distinct(W))
  BY <1>6, <1>7, <1>9 DEF Sound
<1>11. \A j, k \in DOMAIN W : j <= k =>
         \E a, b \in DOMAIN seq : a <= b /\ W[j] = seq[a] /\ W[k] = seq[b]
  <2>1. \A j, k \in DOMAIN kept[N] : j <= k =>
          \E a, b \in 1 .. N : a <= b /\ kept[N][j] = seq[a] /\ kept[N][k] = seq[b]
    BY <1>6 DEF Sound
  <2> QED  BY ONLY <1>8, <1>9, <2>1
<1> QED  BY <1>10, <1>11 DEF W

(* A list without repetitions is as long as the set of its entries.        *)
LEMMA DistinctCounts ==
    ASSUME NEW T, NEW seq \in Seq(T), Distinct(seq)
    PROVE  Len(seq) = Cardinality(ToSet(seq))
<1>1. /\ Len(seq) \in Nat /\ DOMAIN seq = 1 .. Len(seq)
      /\ seq \in [1 .. Len(seq) -> T]
  BY LenProperties
<1>2. seq \in Bijection(1 .. Len(seq), ToSet(seq))
  <2>1. seq \in [1 .. Len(seq) -> ToSet(seq)]  BY <1>1 DEF ToSet
  <2>2. \A e \in ToSet(seq) : \E i \in 1 .. Len(seq) : seq[i] = e  BY <1>1 DEF ToSet
  <2>3. IsInjective(seq)  BY DEF IsInjective, Distinct
  <2> QED  BY <2>1, <2>2, <2>3 DEF Bijection, Injection, Surjection
<1>3. ExistsBijection(1 .. Len(seq), ToSet(seq))  BY <1>2 DEF ExistsBijection
<1> QED  BY <1>1, <1>3, FS_CountingElements

LEMMA DistinctJoin ==
    ASSUME NEW T, NEW s \in Seq(T), NEW t \in Seq(T)
    PROVE  /\ s \o t \in Seq(T)
           /\ ToSet(s \o t) = ToSet(s) \cup ToSet(t)
           /\ Distinct(s) /\ Distinct(t) /\ ToSet(s) \cap ToSet(t) = {} => Distinct(s \o t)
<1> DEFINE m == Len(s)  n == Len(t)  u == s \o t
<1>1. /\ m \in Nat /\ n \in Nat
      /\ DOMAIN s = 1 .. m /\ DOMAIN t = 1 .. n
  BY LenProperties
<1>2. /\ u \in Seq(T) /\ Len(u) = m + n
      /\ \A i \in 1 .. m + n : u[i] = IF i <= m THEN s[i] ELSE t[i - m]
  BY ConcatProperties
<1>3. DOMAIN u = 1 .. m + n  BY <1>2, LenProperties
<1> HIDE DEF u, m, n
<1>4. \A i \in 1 .. m : i \in DOMAIN u /\ u[i] = s[i]  BY <1>1, <1>2, <1>3
<1>5. \A i \in 1 .. n : m + i \in DOMAIN u /\ u[m + i] = t[i]
  <2> SUFFICES ASSUME NEW i \in 1 .. n PROVE m + i \in DOMAIN u /\ u[m + i] = t[i]
    OBVIOUS
  <2> DEFINE k == m + i
  <2>1. k \in 1 .. m + n /\ ~(k <= m) /\ k - m = i  BY <1>1
  <2> HIDE DEF k
  <2>2. u[k] = t[k - m]  BY <1>2, <2>1
  <2>3. k \in DOMAIN u /\ u[k] = t[i]  BY <1>3, <2>1, <2>2
  <2> QED  BY <2>3 DEF k
<1>6. \A i \in DOMAIN u : i \in 1 .. m \/ (i - m \in 1 .. n /\ i = m + (i - m))
  BY <1>1, <1>3
<1>7. ToSet(u) = ToSet(s) \cup ToSet(t)
  <2>1. \A i \in DOMAIN u : u[i] \in ToSet(s) \cup ToSet(t)
    BY <1>1, <1>4, <1>5, <1>6 DEF ToSet
  <2>2. \A i \in 1 .. m : s[i] \in ToSet(u)  BY <1>4 DEF ToSet
  <2>3. \A i \in 1 .. n : t[i] \in ToSet(u)  BY <1>5 DEF ToSet
  <2> QED  BY <1>1, <2>1, <2>2, <2>3 DEF ToSet
<1>8. ASSUME Distinct(s), Distinct(t), ToSet(s) \cap ToSet(t) = {} PROVE Distinct(u)
  <2>1. \A i \in 1 .. m, j \in 1 .. n : s[i] # t[j]
    BY <1>1, <1>8 DEF ToSet
  <2>2. \A i, j \in 1 .. m : s[i] = s[j] => i = j  BY <1>1, <1>8 DEF Distinct
  <2>3. \A i, j \in 1 .. n : t[i] = t[j] => i = j  BY <1>1, <1>8 DEF Distinct
  <2> SUFFICES ASSUME NEW i \in DOMAIN u, NEW j \in DOMAIN u, u[i] = u[j]
               PROVE  i = j
    BY DEF Distinct
  <2>4. CASE i \in 1 .. m /\ j \in 1 .. m  BY <1>4, <2>2, <2>4
  <2>5. CASE i \in 1 .. m /\ j - m \in 1 .. n
    <3>1. u[j] = t[j - m]  BY <1>1, <1>3, <1>5, <2>5
    <3> QED  BY <1>4, <2>1, <2>5, <3>1
  <2>6. CASE i - m \in 1 .. n /\ j \in 1 .. m
    <3>1. u[i] = t[i - m]  BY <1>1, <1>3, <1>5, <2>6
    <3> QED  BY <1>4, <2>1, <2>6, <3>1
  <2>7. CASE i - m \in 1 .. n /\ j - m \in 1 .. n
    <3>1. u[i] = t[i - m] /\ u[j] = t[j - m]  BY <1>1, <1>3, <1>5, <2>7
    <3>2. i - m = j - m  BY <2>3, <2>7, <3>1
    <3> QED  BY <1>1, <1>3, <3>2
  <2> QED  BY <1>6, <2>4, <2>5, <2>6, <2>7
<1> QED  BY <1>2, <1>7, <1>8 DEF u

-----------------------------------------------------------------------------
(* What a plan does.                                                       *)

LEMMA Constants ==
    /\ SlotCount \in Nat \ {0} /\ Slots = 0 .. SlotCount - 1
    /\ Cardinality(Slots) = SlotCount /\ IsFiniteSet(Slots)
    /\ Slots \subseteq Nat
    /\ Absent \notin Slots /\ Absent \notin Items
    /\ IsFiniteSet(Items) /\ Requests \subseteq Seq(Items) /\ MaxRounds \in Nat
    /\ TABLE_GENERATIONS \in Nat \ {0} /\ RECLAIM_FENCE_GENERATIONS \in Nat \ {0}
    /\ BounceSlots \in Nat
<1>1. Cardinality(Items) \in Nat  BY PoolAssumption, FS_CardinalityType DEF PoolAssumption
<1>2. SlotCount \in Nat \ {0}  BY <1>1, PoolAssumption DEF PoolAssumption
<1>3. IsFiniteSet(Slots) /\ Cardinality(Slots) = SlotCount  BY <1>2, FS_Interval DEF Slots
<1> QED  BY <1>2, <1>3, PoolAssumption DEF PoolAssumption, Slots

LEMMA StepFacts ==
    ASSUME NEW steps \in Seq(Steps)
    PROVE  /\ Len(steps) \in Nat /\ DOMAIN steps = 1 .. Len(steps)
           /\ \A k \in DOMAIN steps :
                 /\ steps[k] \in Steps
                 /\ steps[k].item \in Items /\ steps[k].slot \in Slots
                 /\ steps[k].evicted \in Items \cup {Absent}
                 /\ steps[k].admitted \in BOOLEAN
<1>1. Len(steps) \in Nat /\ DOMAIN steps = 1 .. Len(steps)  BY LenProperties
<1>2. ASSUME NEW k \in DOMAIN steps PROVE steps[k] \in Steps  BY <1>1, ElementOfSeq
<1> QED  BY <1>1, <1>2 DEF Steps

(* Where an item will be: in the slot of its step, or where it is unless   *)
(* the plan overwrites that.                                               *)
LEMMA PlannedSlotIs ==
    ASSUME TypeOK, CacheSound, NEW steps \in Seq(Steps), PlanSound(steps), NEW i \in Items
    PROVE  /\ \A k \in DOMAIN steps :
                 steps[k].item = i => PlannedSlot(steps, i) = steps[k].slot
           /\ i \notin Asked(steps) =>
                 PlannedSlot(steps, i) =
                    IF item_slot[i] \in Overwritten(steps) THEN Absent ELSE item_slot[i]
<1>0. /\ \A k \in DOMAIN steps :
            /\ steps[k].item \in Items /\ steps[k].slot \in Slots
            /\ steps[k].evicted \in Items \cup {Absent}
            /\ steps[k].admitted \in BOOLEAN
      /\ Absent \notin Slots /\ Absent \notin Items
      /\ item_slot \in [Items -> Slots \cup {Absent}]
      /\ slot_item \in [Slots -> Items \cup {Absent}]
  BY StepFacts, Constants DEF TypeOK
<1> DEFINE admitted == Admissions(steps)
<1>1. \A k \in admitted : k \in DOMAIN steps /\ steps[k].admitted  BY DEF Admissions
<1>2. \A k \in admitted : steps[k].evicted = i <=> item_slot[i] = steps[k].slot
  BY <1>0, <1>1 DEF PlanSound, CacheSound
<1>3. ASSUME NEW k \in DOMAIN steps, steps[k].item = i
      PROVE  PlannedSlot(steps, i) = steps[k].slot
  <2>1. CASE steps[k].admitted
    <3>1. k \in admitted  BY <2>1 DEF Admissions
    <3>2. \A j \in admitted : steps[j].item = i => j = k  BY <1>1, <1>3 DEF PlanSound
    <3>3. (CHOOSE j \in admitted : steps[j].item = i) = k  BY <1>3, <3>1, <3>2
    <3> QED  BY <1>3, <3>1, <3>3 DEF PlannedSlot
  <2>2. CASE ~steps[k].admitted
    <3>1. item_slot[i] = steps[k].slot  BY <1>3, <2>2 DEF PlanSound
    <3>2. \A j \in admitted : steps[j].item # i  BY <1>1, <1>3, <2>2 DEF PlanSound
    <3>3. \A j \in admitted : steps[j].evicted # i
      BY <1>1, <1>2, <2>2, <3>1 DEF PlanSound
    <3> QED  BY <3>1, <3>2, <3>3 DEF PlannedSlot
  <2> QED  BY <2>1, <2>2
<1>4. ASSUME i \notin Asked(steps)
      PROVE  PlannedSlot(steps, i) =
                IF item_slot[i] \in Overwritten(steps) THEN Absent ELSE item_slot[i]
  <2>1. \A j \in admitted : steps[j].item # i  BY <1>1, <1>4 DEF Asked
  <2>2. (\E j \in admitted : steps[j].evicted = i) <=> item_slot[i] \in Overwritten(steps)
    BY <1>2 DEF Overwritten
  <2> QED  BY <2>1, <2>2 DEF PlannedSlot
<1> QED  BY <1>3, <1>4

LEMMA SlotsOfSteps ==
    ASSUME NEW steps \in Seq(Steps), PlanSound(steps)
    PROVE  LET used == [k \in DOMAIN steps |-> steps[k].slot]
           IN  /\ used \in Seq(Slots) /\ Distinct(used) /\ ToSet(used) = Touched(steps)
               /\ Len(used) = Len(steps) /\ \A k \in DOMAIN steps : used[k] = steps[k].slot
<1> DEFINE used == [k \in DOMAIN steps |-> steps[k].slot]
<1>1. /\ Len(steps) \in Nat /\ DOMAIN steps = 1 .. Len(steps)
      /\ \A k \in DOMAIN steps : steps[k].slot \in Slots
  BY StepFacts
<1>2. used \in [1 .. Len(steps) -> Slots]  BY <1>1
<1>3. used \in Seq(Slots) /\ Len(used) = Len(steps)  BY <1>1, <1>2, SeqDef, LenProperties
<1>4. Distinct(used)  BY DEF Distinct, PlanSound
<1>5. ToSet(used) = Touched(steps)  BY DEF ToSet, Touched
<1> QED  BY <1>1, <1>3, <1>4, <1>5

LEMMA ItemsOfSteps ==
    ASSUME NEW steps \in Seq(Steps), PlanSound(steps)
    PROVE  /\ IsFiniteSet(Asked(steps)) /\ Cardinality(Asked(steps)) = Len(steps)
           /\ IsFiniteSet(Touched(steps)) /\ Cardinality(Touched(steps)) = Len(steps)
<1> DEFINE asked == [k \in DOMAIN steps |-> steps[k].item]
           used == [k \in DOMAIN steps |-> steps[k].slot]
<1>1. /\ Len(steps) \in Nat /\ DOMAIN steps = 1 .. Len(steps)
      /\ \A k \in DOMAIN steps : steps[k].item \in Items
  BY StepFacts
<1>2. asked \in [1 .. Len(steps) -> Items]  BY <1>1
<1>3. asked \in Seq(Items) /\ Len(asked) = Len(steps)  BY <1>1, <1>2, SeqDef, LenProperties
<1>4. Distinct(asked)  BY DEF Distinct, PlanSound
<1>5. ToSet(asked) = Asked(steps)  BY DEF ToSet, Asked
<1>6. used \in Seq(Slots) /\ Distinct(used) /\ ToSet(used) = Touched(steps)
      /\ Len(used) = Len(steps)
  BY SlotsOfSteps
<1>7. Touched(steps) \subseteq Slots /\ Asked(steps) \subseteq Items
  BY StepFacts DEF Touched, Asked
<1>8. IsFiniteSet(Asked(steps)) /\ IsFiniteSet(Touched(steps))  BY <1>7, Constants, FS_Subset
<1> HIDE DEF asked, used
<1> QED  BY <1>3, <1>4, <1>5, <1>6, <1>8, DistinctCounts

(* A slot is left for every item that fits.                                *)
LEMMA ClaimedIsOpen ==
    ASSUME TypeOK, CacheSound, NEW steps \in Seq(Steps), PlanSound(steps),
           Len(steps) < SlotCount
    PROVE  Claimed(steps) \in Slots \ Touched(steps)
<1> DEFINE open == Slots \ Touched(steps)
           free == { s \in open : slot_item[s] = Absent }
           kept == { k \in DOMAIN recency : recency[k] \in open }
<1>1. open # {}
  <2> SUFFICES ASSUME open = {} PROVE FALSE  OBVIOUS
  <2>1. Touched(steps) \subseteq Slots  BY StepFacts DEF Touched
  <2>2. Touched(steps) = Slots  BY <2>1
  <2>3. Cardinality(Touched(steps)) = Len(steps) /\ Len(steps) \in Nat
    BY ItemsOfSteps, StepFacts
  <2> QED  BY <2>2, <2>3, Constants
<1>2. CASE free # {}
  <2>1. free \in SUBSET Nat  BY Constants
  <2> HIDE DEF free
  <2>2. Min(free) \in free  BY <1>2, <2>1, MinIsLeast
  <2>3. Claimed(steps) = Min(free)  BY <1>2 DEF Claimed, free
  <2> QED  BY <2>2, <2>3 DEF free
<1>3. CASE free = {}
  <2>1. PICK s \in open : TRUE  BY <1>1
  <2>2. s \in ToSet(recency)  BY <1>3 DEF CacheSound
  <2>3. kept # {}  BY <2>2 DEF ToSet
  <2>4. DOMAIN recency = 1 .. Len(recency) /\ Len(recency) \in Nat
    BY LenProperties DEF TypeOK
  <2>5. kept \in SUBSET Nat  BY <2>4
  <2>6. Claimed(steps) = recency[Min(kept)]  BY <1>3 DEF Claimed
  <2> HIDE DEF kept
  <2>7. Min(kept) \in kept  BY <2>3, <2>5, MinIsLeast
  <2> QED  BY <2>6, <2>7 DEF kept
<1> QED  BY <1>2, <1>3

(* One more step keeps a plan sound.                                       *)
LEMMA AppendedStep ==
    ASSUME NEW steps \in Seq(Steps), PlanSound(steps), NEW step \in Steps,
           step.slot \notin Touched(steps), step.item \notin Asked(steps),
           IF step.admitted
           THEN /\ step.evicted = slot_item[step.slot]
                /\ \/ item_slot[step.item] = Absent
                   \/ \E j \in Admissions(steps) : steps[j].evicted = step.item
           ELSE item_slot[step.item] = step.slot
    PROVE  /\ Append(steps, step) \in Seq(Steps) /\ PlanSound(Append(steps, step))
           /\ Asked(Append(steps, step)) = Asked(steps) \cup {step.item}
<1> DEFINE l == Append(steps, step)  n == Len(steps)
<1>1. n \in Nat /\ DOMAIN steps = 1 .. n  BY StepFacts
<1>2. /\ l \in Seq(Steps) /\ Len(l) = n + 1 /\ l[n + 1] = step
      /\ \A k \in 1 .. n : l[k] = steps[k]
  BY <1>1, AppendProperties
<1>3. DOMAIN l = 1 .. n + 1  BY <1>2, LenProperties
<1>4. \A k \in DOMAIN l : (k \in DOMAIN steps /\ l[k] = steps[k]) \/ (k = n + 1 /\ l[k] = step)
  BY <1>1, <1>2, <1>3
<1>5. DOMAIN steps \subseteq DOMAIN l /\ n + 1 \in DOMAIN l  BY <1>1, <1>3
<1>6. \A k \in DOMAIN steps : l[k] = steps[k]  BY <1>1, <1>2
<1>7. \A k \in DOMAIN steps : steps[k].slot # step.slot /\ steps[k].item # step.item
  BY DEF Touched, Asked
<1>8. Admissions(steps) \subseteq Admissions(l)  BY <1>5, <1>6 DEF Admissions
<1>9. l[n + 1] = step  BY <1>2
<1> HIDE DEF l, n
<1>10. Asked(l) = Asked(steps) \cup {step.item}
  <2>1. Asked(l) \subseteq Asked(steps) \cup {step.item}  BY <1>4 DEF Asked
  <2>2. \A k \in DOMAIN steps : steps[k].item \in Asked(l)  BY <1>5, <1>6 DEF Asked
  <2>3. step.item \in Asked(l)  BY <1>5, <1>9 DEF Asked
  <2> QED  BY <2>1, <2>2, <2>3 DEF Asked
<1>11. ASSUME NEW j \in DOMAIN l, NEW k \in DOMAIN l,
              l[j].slot = l[k].slot \/ l[j].item = l[k].item
       PROVE  j = k
  <2>1. CASE j \in DOMAIN steps /\ k \in DOMAIN steps
    BY <1>6, <1>11, <2>1 DEF PlanSound
  <2>2. CASE j \in DOMAIN steps /\ l[k] = step  BY <1>6, <1>7, <1>11, <2>2
  <2>3. CASE k \in DOMAIN steps /\ l[j] = step  BY <1>6, <1>7, <1>11, <2>3
  <2> QED  BY <1>4, <2>1, <2>2, <2>3
<1>12. ASSUME NEW k \in DOMAIN l
       PROVE  IF l[k].admitted
              THEN /\ l[k].evicted = slot_item[l[k].slot]
                   /\ \/ item_slot[l[k].item] = Absent
                      \/ \E j \in Admissions(l) : l[j].evicted = l[k].item
              ELSE item_slot[l[k].item] = l[k].slot
  <2>1. \A j \in Admissions(steps) : j \in Admissions(l) /\ l[j] = steps[j]
    BY <1>6, <1>8 DEF Admissions
  <2>2. CASE k \in DOMAIN steps /\ l[k] = steps[k]  BY <2>1, <2>2 DEF PlanSound
  <2>3. CASE l[k] = step  BY <2>1, <2>3
  <2> QED  BY <1>4, <2>2, <2>3
<1>13. PlanSound(l)  BY <1>11, <1>12 DEF PlanSound
<1> QED  BY <1>2, <1>10, <1>13 DEF l

LEMMA PlannedIsSound ==
    ASSUME TypeOK, CacheSound, NEW steps \in Seq(Steps), PlanSound(steps), NEW i \in Items,
           Cardinality(Asked(steps) \cup {i}) <= SlotCount
    PROVE  /\ Planned(steps, i) \in Seq(Steps) /\ PlanSound(Planned(steps, i))
           /\ Asked(Planned(steps, i)) = Asked(steps) \cup {i}
<1> DEFINE slot == PlannedSlot(steps, i)  claimed == Claimed(steps)
           miss == [item |-> i, slot |-> claimed,
                    evicted |-> slot_item[claimed], admitted |-> TRUE]
           hit == [item |-> i, slot |-> slot, evicted |-> Absent, admitted |-> FALSE]
<1>0. /\ \A k \in DOMAIN steps :
            /\ steps[k].item \in Items /\ steps[k].slot \in Slots
            /\ steps[k].evicted \in Items \cup {Absent}
            /\ steps[k].admitted \in BOOLEAN
      /\ Len(steps) \in Nat
      /\ Absent \notin Slots /\ Absent \notin Items
      /\ item_slot \in [Items -> Slots \cup {Absent}]
      /\ slot_item \in [Slots -> Items \cup {Absent}]
  BY StepFacts, Constants DEF TypeOK
<1>1. /\ \A k \in DOMAIN steps : steps[k].item = i => slot = steps[k].slot
      /\ i \notin Asked(steps) =>
            slot = IF item_slot[i] \in Overwritten(steps) THEN Absent ELSE item_slot[i]
  BY PlannedSlotIs
<1> HIDE DEF slot
<1>2. CASE slot = Absent
  <2>1. i \notin Asked(steps)  BY <1>0, <1>1, <1>2 DEF Asked
  <2>2. Len(steps) < SlotCount
    <3>1. /\ IsFiniteSet(Asked(steps)) /\ Cardinality(Asked(steps)) = Len(steps)
      BY ItemsOfSteps
    <3>2. Cardinality(Asked(steps) \cup {i}) = Len(steps) + 1
      BY <2>1, <3>1, FS_AddElement
    <3> QED  BY <1>0, <3>2, Constants
  <2>3. claimed \in Slots \ Touched(steps)  BY <2>2, ClaimedIsOpen
  <2>4. item_slot[i] = Absent \/ \E j \in Admissions(steps) : steps[j].evicted = i
    <3>1. CASE item_slot[i] # Absent
      <4>1. PICK j \in Admissions(steps) : item_slot[i] = steps[j].slot
        BY <1>1, <1>2, <2>1, <3>1 DEF Overwritten
      <4>2. slot_item[steps[j].slot] = i  BY <3>1, <4>1 DEF CacheSound
      <4>3. j \in DOMAIN steps /\ steps[j].admitted  BY DEF Admissions
      <4>4. steps[j].evicted = i  BY <4>2, <4>3 DEF PlanSound
      <4> QED  BY <4>4
    <3> QED  BY <3>1
  <2> HIDE DEF claimed
  <2>5. /\ miss \in Steps /\ miss.item = i /\ miss.slot = claimed /\ miss.admitted
        /\ miss.evicted = slot_item[claimed]
    BY <1>0, <2>3 DEF Steps
  <2>6. Planned(steps, i) = Append(steps, miss)  BY <1>2 DEF Planned, slot, claimed
  <2> HIDE DEF miss
  <2> QED  BY <2>1, <2>3, <2>4, <2>5, <2>6, AppendedStep
<1>3. CASE slot # Absent /\ slot \in Touched(steps)
  <2>1. Planned(steps, i) = steps  BY <1>3 DEF Planned, slot
  <2>2. i \in Asked(steps)
    <3> SUFFICES ASSUME i \notin Asked(steps) PROVE FALSE  OBVIOUS
    <3>1. slot = item_slot[i] /\ slot \notin Overwritten(steps)  BY <1>1, <1>3
    <3>2. PICK k \in DOMAIN steps : steps[k].slot = slot  BY <1>3 DEF Touched
    <3>3. ~steps[k].admitted  BY <3>1, <3>2 DEF Overwritten, Admissions
    <3>4. item_slot[steps[k].item] = slot  BY <3>2, <3>3 DEF PlanSound
    <3>5. steps[k].item = i  BY <1>0, <1>3, <3>1, <3>4 DEF CacheSound
    <3> QED  BY <3>5 DEF Asked
  <2> QED  BY <2>1, <2>2
<1>4. CASE slot # Absent /\ slot \notin Touched(steps)
  <2>1. i \notin Asked(steps)  BY <1>1, <1>4 DEF Asked, Touched
  <2>2. slot = item_slot[i]  BY <1>1, <1>4, <2>1
  <2>3. slot \in Slots  BY <1>0, <1>4, <2>2
  <2>4. hit \in Steps /\ hit.item = i /\ hit.slot = slot /\ ~hit.admitted
    BY <2>3 DEF Steps
  <2>5. Planned(steps, i) = Append(steps, hit)  BY <1>4 DEF Planned, slot
  <2> HIDE DEF hit
  <2> QED  BY <1>4, <2>1, <2>2, <2>4, <2>5, AppendedStep
<1> QED  BY <1>2, <1>3, <1>4

(* The recursion that defines PlanRound has a solution.                    *)
LEMMA PlanIsDefined ==
    ASSUME NEW items \in Seq(Items)
    PROVE  \E planned :
             /\ planned = [n \in 0 .. Len(items) |->
                             IF n = 0 THEN << >> ELSE Planned(planned[n - 1], items[n])]
             /\ PlanRound(items) = planned[Len(items)]
<1> DEFINE Upto(n) ==
      \E k : k = [i \in 0 .. n |-> IF i = 0 THEN << >> ELSE Planned(k[i - 1], items[i])]
<1>1. Upto(0)
  <2> DEFINE k == [i \in 0 .. 0 |-> << >>]
  <2>1. k = [i \in 0 .. 0 |-> IF i = 0 THEN << >> ELSE Planned(k[i - 1], items[i])]
    OBVIOUS
  <2> QED  BY <2>1
<1>2. ASSUME NEW n \in Nat, Upto(n) PROVE Upto(n + 1)
  <2>1. PICK k : k = [i \in 0 .. n |-> IF i = 0 THEN << >>
                                       ELSE Planned(k[i - 1], items[i])]
    BY <1>2
  <2> DEFINE l == [i \in 0 .. n + 1 |-> IF i <= n THEN k[i]
                                        ELSE Planned(k[n], items[n + 1])]
  <2>2. ASSUME NEW i \in 0 .. n + 1
        PROVE  l[i] = IF i = 0 THEN << >> ELSE Planned(l[i - 1], items[i])
    <3>1. CASE i = 0  BY <2>1, <3>1
    <3>2. CASE i \in 1 .. n
      <4>1. l[i] = k[i] /\ l[i - 1] = k[i - 1]  BY <3>2
      <4>2. i \in 0 .. n /\ i # 0  BY <3>2
      <4>3. k[i] = Planned(k[i - 1], items[i])
        <5> DEFINE e(j) == IF j = 0 THEN << >> ELSE Planned(k[j - 1], items[j])
        <5>1. k = [j \in 0 .. n |-> e(j)]  BY <2>1
        <5> HIDE DEF e
        <5>2. k[i] = e(i)  BY <4>2, <5>1
        <5> QED  BY <4>2, <5>2 DEF e
      <4> QED  BY <3>2, <4>1, <4>3
    <3>3. CASE i = n + 1
      <4>1. l[i - 1] = k[n]  BY <3>3
      <4>2. l[i] = Planned(k[n], items[n + 1])  BY <3>3
      <4> QED  BY <3>3, <4>1, <4>2
    <3> QED  BY <3>1, <3>2, <3>3
  <2> HIDE DEF l
  <2>3. DOMAIN l = 0 .. n + 1 /\ l = [i \in 0 .. n + 1 |-> l[i]]  BY DEF l
  <2>4. l = [i \in 0 .. n + 1 |-> IF i = 0 THEN << >> ELSE Planned(l[i - 1], items[i])]
    BY <2>2, <2>3
  <2> QED  BY <2>4
<1> HIDE DEF Upto
<1>3. \A n \in Nat : Upto(n)
  <2> DEFINE Bad == { n \in Nat : ~Upto(n) }
  <2> SUFFICES ASSUME Bad # {} PROVE FALSE  OBVIOUS
  <2>1. PICK m \in Bad : \A n \in Bad : m <= n  BY Least
  <2>2. m # 0 /\ m - 1 \in Nat /\ (m - 1) + 1 = m  BY <1>1, <2>1
  <2>3. Upto(m - 1)  BY <2>1, <2>2
  <2> QED  BY <1>2, <2>1, <2>2, <2>3
<1>4. Upto(Len(items))  BY <1>3, LenProperties
<1> DEFINE f[n \in 0 .. Len(items)] ==
      IF n = 0 THEN << >> ELSE Planned(f[n - 1], items[n])
<1>5. f = [n \in 0 .. Len(items) |-> IF n = 0 THEN << >>
                                     ELSE Planned(f[n - 1], items[n])]
  BY <1>4 DEF Upto
<1>6. PlanRound(items) = f[Len(items)]  BY DEF PlanRound
<1> HIDE DEF f
<1> QED  BY <1>5, <1>6

(* A round that fits is planned soundly, with a step for each item.        *)
LEMMA PlanRoundIsSound ==
    ASSUME TypeOK, CacheSound, NEW items \in Seq(Items),
           Cardinality(ToSet(items)) <= SlotCount
    PROVE  /\ PlanRound(items) \in Seq(Steps) /\ PlanSound(PlanRound(items))
           /\ Asked(PlanRound(items)) = ToSet(items)
<1> DEFINE N == Len(items)
<1>1. N \in Nat /\ DOMAIN items = 1 .. N /\ \A n \in 1 .. N : items[n] \in Items
  BY LenProperties, ElementOfSeq
<1>2. PICK planned :
        /\ planned = [n \in 0 .. N |->
                        IF n = 0 THEN << >> ELSE Planned(planned[n - 1], items[n])]
        /\ PlanRound(items) = planned[N]
  BY PlanIsDefined
<1> DEFINE Sound(n) == /\ planned[n] \in Seq(Steps) /\ PlanSound(planned[n])
                       /\ Asked(planned[n]) = { items[k] : k \in 1 .. n }
<1>3. Sound(0)
  <2>1. planned[0] = << >>  BY <1>1, <1>2
  <2>2. << >> \in Seq(Steps) /\ DOMAIN << >> = {}  BY EmptySeq
  <2> QED  BY <2>1, <2>2 DEF PlanSound, Asked
<1>4. ASSUME NEW n \in 0 .. N - 1, Sound(n) PROVE Sound(n + 1)
  <2>1. n + 1 \in 1 .. N /\ n \in Nat /\ (n + 1) - 1 = n /\ n + 1 # 0  BY <1>1
  <2>2. planned[n + 1] = Planned(planned[n], items[n + 1])
    <3> DEFINE e(j) == IF j = 0 THEN << >> ELSE Planned(planned[j - 1], items[j])
    <3>1. planned = [j \in 0 .. N |-> e(j)]  BY <1>2
    <3> HIDE DEF e
    <3>2. n + 1 \in 0 .. N  BY <1>1, <2>1
    <3>3. planned[n + 1] = e(n + 1)  BY <3>1, <3>2
    <3> QED  BY <2>1, <3>3 DEF e
  <2>3. { items[k] : k \in 1 .. n + 1 } = { items[k] : k \in 1 .. n } \cup {items[n + 1]}
    BY <2>1
  <2>4. Cardinality(Asked(planned[n]) \cup {items[n + 1]}) <= SlotCount
    <3> DEFINE A == Asked(planned[n]) \cup {items[n + 1]}
    <3>1. A \subseteq ToSet(items)
      <4>1. A = { items[k] : k \in 1 .. n + 1 }  BY <1>4, <2>3
      <4>2. 1 .. n + 1 \subseteq DOMAIN items  BY <1>1, <2>1
      <4> QED  BY <4>1, <4>2 DEF ToSet
    <3>2. ToSet(items) \subseteq Items  BY <1>1 DEF ToSet
    <3>3. IsFiniteSet(ToSet(items))  BY <3>2, Constants, FS_Subset
    <3> HIDE DEF A
    <3>4. Cardinality(A) <= Cardinality(ToSet(items))  BY <3>1, <3>3, FS_Subset
    <3>5. Cardinality(A) \in Nat /\ Cardinality(ToSet(items)) \in Nat
      BY <3>1, <3>3, FS_Subset, FS_CardinalityType
    <3>6. Cardinality(A) <= SlotCount  BY <3>4, <3>5, Constants
    <3> QED  BY <3>6 DEF A
  <2>5. items[n + 1] \in Items  BY <1>1, <2>1
  <2>6. Sound(n)  BY <1>4
  <2> QED  BY <2>2, <2>3, <2>4, <2>5, <2>6, PlannedIsSound
<1> HIDE DEF Sound
<1>5. \A n \in 0 .. N : Sound(n)
  <2> DEFINE Bad == { n \in 0 .. N : ~Sound(n) }
  <2> SUFFICES ASSUME Bad # {} PROVE FALSE  OBVIOUS
  <2>0. Bad \in SUBSET Nat  BY <1>1
  <2>1. PICK m \in Bad : \A n \in Bad : m <= n
    <3> HIDE DEF Bad
    <3> QED  BY <2>0, Least
  <2>2. m # 0 /\ m - 1 \in 0 .. N - 1 /\ (m - 1) + 1 = m  BY <1>1, <1>3, <2>1
  <2>3. Sound(m - 1)  BY <1>1, <2>1, <2>2
  <2> QED  BY <1>4, <2>1, <2>2, <2>3
<1>6. Sound(N)  BY <1>1, <1>5
<1>7. { items[k] : k \in 1 .. N } = ToSet(items)  BY <1>1 DEF ToSet
<1> QED  BY <1>2, <1>6, <1>7 DEF Sound

-----------------------------------------------------------------------------
(* What committing a plan does to the cache.                               *)

LEMMA CommitTypes ==
    ASSUME TypeOK, CacheSound, NEW steps \in Seq(Steps), PlanSound(steps),
           round < MaxRounds, Commit(steps)
    PROVE  /\ item_slot' \in [Items -> Slots \cup {Absent}]
           /\ slot_item' \in [Slots -> Items \cup {Absent}]
           /\ recency' \in Seq(Slots)
           /\ pinned_round' \in [Slots -> 0 .. MaxRounds]
           /\ round \in Nat /\ round' = round + 1 /\ round' \in 0 .. MaxRounds
           /\ \A i \in Items : item_slot'[i] = PlannedSlot(steps, i)
           /\ \A k \in DOMAIN steps : slot_item'[steps[k].slot] = steps[k].item
           /\ \A s \in Slots \ Touched(steps) : slot_item'[s] = slot_item[s]
           /\ \A s \in Slots : pinned_round'[s] =
                 IF s \in Touched(steps) THEN round + 1 ELSE pinned_round[s]
<1>0. /\ \A k \in DOMAIN steps : steps[k].item \in Items /\ steps[k].slot \in Slots
      /\ item_slot \in [Items -> Slots \cup {Absent}]
      /\ slot_item \in [Slots -> Items \cup {Absent}]
      /\ pinned_round \in [Slots -> 0 .. MaxRounds] /\ round \in 0 .. MaxRounds
      /\ recency \in Seq(Slots) /\ MaxRounds \in Nat
  BY StepFacts, Constants DEF TypeOK
<1>1. item_slot' = [i \in Items |-> PlannedSlot(steps, i)]  BY DEF Commit, ItemSlots
<1>2. ASSUME NEW i \in Items PROVE PlannedSlot(steps, i) \in Slots \cup {Absent}
  <2>1. CASE i \in Asked(steps)  BY <1>0, <2>1, PlannedSlotIs DEF Asked
  <2>2. CASE i \notin Asked(steps)  BY <1>0, <2>2, PlannedSlotIs
  <2> QED  BY <2>1, <2>2
<1>3. slot_item' = [s \in Slots |->
          IF s \in Touched(steps)
          THEN steps[CHOOSE k \in DOMAIN steps : steps[k].slot = s].item ELSE slot_item[s]]
  BY DEF Commit
<1>4. ASSUME NEW k \in DOMAIN steps
      PROVE  /\ steps[k].slot \in Touched(steps)
             /\ (CHOOSE j \in DOMAIN steps : steps[j].slot = steps[k].slot) = k
  <2>1. \A j \in DOMAIN steps : steps[j].slot = steps[k].slot => j = k  BY DEF PlanSound
  <2> QED  BY <2>1 DEF Touched
<1>5. \A k \in DOMAIN steps : slot_item'[steps[k].slot] = steps[k].item
  BY <1>0, <1>3, <1>4
<1>6. \A s \in Slots \ Touched(steps) : slot_item'[s] = slot_item[s]  BY <1>3
<1>7. slot_item' \in [Slots -> Items \cup {Absent}]
  <2> SUFFICES ASSUME NEW s \in Slots PROVE slot_item'[s] \in Items \cup {Absent}  BY <1>3
  <2>1. CASE s \in Touched(steps)  BY <1>0, <1>5, <2>1 DEF Touched
  <2>2. CASE s \notin Touched(steps)  BY <1>0, <1>6, <2>2
  <2> QED  BY <2>1, <2>2
<1>8. recency' \in Seq(Slots)
  <2>1. Without(recency, Touched(steps)) \in Seq(Slots)  BY <1>0, WithoutKeeps
  <2>2. [k \in DOMAIN steps |-> steps[k].slot] \in Seq(Slots)  BY SlotsOfSteps
  <2> QED  BY <2>1, <2>2, DistinctJoin DEF Commit
<1>9. pinned_round' = [s \in Slots |-> IF s \in Touched(steps) THEN round + 1
                                       ELSE pinned_round[s]]
  BY DEF Commit, Readers
<1>10. round' = round + 1 /\ round + 1 \in 0 .. MaxRounds /\ round \in Nat
  BY <1>0 DEF Commit
<1> QED  BY <1>0, <1>1, <1>2, <1>5, <1>6, <1>7, <1>8, <1>9, <1>10

LEMMA CommitMoves ==
    ASSUME TypeOK, CacheSound, NEW steps \in Seq(Steps), PlanSound(steps),
           round < MaxRounds, Commit(steps)
    PROVE  /\ \A k \in DOMAIN steps :
                 /\ item_slot'[steps[k].item] = steps[k].slot
                 /\ pinned_round'[steps[k].slot] = round'
           /\ \A i \in Items :
                 item_slot[i] # Absent /\ item_slot[i] \notin Overwritten(steps) =>
                    item_slot'[i] = item_slot[i]
           /\ \A i \in Items : item_slot'[i] # Absent =>
                 \/ item_slot'[i] = item_slot[i] /\ item_slot[i] \notin Overwritten(steps)
                 \/ \E k \in Admissions(steps) :
                       steps[k].item = i /\ item_slot'[i] = steps[k].slot
           /\ \A s \in Slots : pinned_round'[s] >= pinned_round[s]
<1>0. /\ \A k \in DOMAIN steps : /\ steps[k].item \in Items /\ steps[k].slot \in Slots
                                 /\ steps[k].admitted \in BOOLEAN
      /\ Absent \notin Slots /\ Absent \notin Items
      /\ item_slot \in [Items -> Slots \cup {Absent}]
      /\ pinned_round \in [Slots -> 0 .. MaxRounds] /\ MaxRounds \in Nat
  BY StepFacts, Constants DEF TypeOK
<1>1. /\ round' = round + 1 /\ round \in Nat
      /\ \A i \in Items : item_slot'[i] = PlannedSlot(steps, i)
      /\ \A s \in Slots : pinned_round'[s] =
            IF s \in Touched(steps) THEN round + 1 ELSE pinned_round[s]
  BY CommitTypes
<1>2. \A i \in Items :
        /\ \A k \in DOMAIN steps : steps[k].item = i => item_slot'[i] = steps[k].slot
        /\ i \notin Asked(steps) =>
             item_slot'[i] = IF item_slot[i] \in Overwritten(steps) THEN Absent
                             ELSE item_slot[i]
  BY <1>1, PlannedSlotIs
<1>3. \A k \in DOMAIN steps : /\ item_slot'[steps[k].item] = steps[k].slot
                              /\ pinned_round'[steps[k].slot] = round'
  BY <1>0, <1>1, <1>2 DEF Touched
<1>4. ASSUME NEW i \in Items, item_slot[i] # Absent, item_slot[i] \notin Overwritten(steps)
      PROVE  item_slot'[i] = item_slot[i]
  <2>1. CASE i \in Asked(steps)
    <3>1. PICK k \in DOMAIN steps : steps[k].item = i  BY <2>1 DEF Asked
    <3>2. CASE steps[k].admitted
      <4>1. PICK j \in Admissions(steps) : steps[j].evicted = i
        BY <1>4, <3>1, <3>2 DEF PlanSound
      <4>2. j \in DOMAIN steps /\ steps[j].admitted  BY <4>1 DEF Admissions
      <4>3. slot_item[steps[j].slot] = i  BY <4>1, <4>2 DEF PlanSound
      <4>4. item_slot[i] = steps[j].slot  BY <1>0, <4>2, <4>3 DEF CacheSound
      <4> QED  BY <1>4, <4>1, <4>4 DEF Overwritten
    <3>3. CASE ~steps[k].admitted  BY <1>2, <3>1, <3>3 DEF PlanSound
    <3> QED  BY <3>2, <3>3
  <2> QED  BY <1>2, <1>4, <2>1
<1>5. ASSUME NEW i \in Items, item_slot'[i] # Absent
      PROVE  \/ item_slot'[i] = item_slot[i] /\ item_slot[i] \notin Overwritten(steps)
             \/ \E k \in Admissions(steps) :
                   steps[k].item = i /\ item_slot'[i] = steps[k].slot
  <2>1. CASE i \in Asked(steps)
    <3>1. PICK k \in DOMAIN steps : steps[k].item = i  BY <2>1 DEF Asked
    <3>2. CASE steps[k].admitted
      <4>1. k \in Admissions(steps)  BY <3>2 DEF Admissions
      <4> QED  BY <1>2, <3>1, <4>1
    <3>3. CASE ~steps[k].admitted
      <4>1. item_slot'[i] = item_slot[i] /\ item_slot[i] = steps[k].slot
        BY <1>2, <3>1, <3>3 DEF PlanSound
      <4>2. \A j \in Admissions(steps) : j \in DOMAIN steps /\ steps[j].admitted
        BY DEF Admissions
      <4>3. steps[k].slot \notin Overwritten(steps)
        BY <3>3, <4>2 DEF Overwritten, PlanSound
      <4> QED  BY <4>1, <4>3
    <3> QED  BY <3>2, <3>3
  <2> QED  BY <1>2, <1>5, <2>1
<1>6. \A s \in Slots : pinned_round'[s] >= pinned_round[s]
  <2>1. \A s \in Slots : pinned_round[s] <= round  BY DEF CacheSound
  <2>2. \A s \in Slots : pinned_round[s] \in Nat  BY <1>0
  <2> QED  BY <1>1, <2>1, <2>2
<1> QED  BY <1>3, <1>4, <1>5, <1>6

LEMMA CommitRecency ==
    ASSUME TypeOK, CacheSound, NEW steps \in Seq(Steps), PlanSound(steps),
           round < MaxRounds, Commit(steps)
    PROVE  /\ ToSet(recency') = { s \in Slots : slot_item'[s] # Absent }
           /\ Distinct(recency')
           /\ \A j, k \in DOMAIN recency' :
                 j <= k => pinned_round'[recency'[j]] <= pinned_round'[recency'[k]]
<1> DEFINE used == [k \in DOMAIN steps |-> steps[k].slot]
           rest == Without(recency, Touched(steps))
           m == Len(rest)
           n == Len(used)
<1>0. /\ \A k \in DOMAIN steps : steps[k].item \in Items /\ steps[k].slot \in Slots
      /\ Absent \notin Items
      /\ recency \in Seq(Slots)
      /\ pinned_round \in [Slots -> 0 .. MaxRounds] /\ MaxRounds \in Nat
  BY StepFacts, Constants DEF TypeOK
<1>1. /\ round' = round + 1 /\ round \in Nat
      /\ \A k \in DOMAIN steps : slot_item'[steps[k].slot] = steps[k].item
      /\ \A s \in Slots \ Touched(steps) : slot_item'[s] = slot_item[s]
      /\ \A s \in Slots : pinned_round'[s] =
            IF s \in Touched(steps) THEN round + 1 ELSE pinned_round[s]
  BY CommitTypes
<1>2. /\ used \in Seq(Slots) /\ Distinct(used) /\ ToSet(used) = Touched(steps)
      /\ DOMAIN used = DOMAIN steps /\ \A k \in DOMAIN steps : used[k] = steps[k].slot
  BY SlotsOfSteps
<1>3. /\ rest \in Seq(Slots) /\ ToSet(rest) = ToSet(recency) \ Touched(steps)
      /\ Distinct(rest)
      /\ \A j, k \in DOMAIN rest : j <= k =>
            \E a, b \in DOMAIN recency :
               a <= b /\ rest[j] = recency[a] /\ rest[k] = recency[b]
  BY <1>0, WithoutKeeps DEF CacheSound
<1>4. recency' = rest \o used  BY DEF Commit
<1> HIDE DEF used, rest
<1>5. /\ rest \o used \in Seq(Slots)
      /\ ToSet(rest \o used) = ToSet(rest) \cup ToSet(used)
      /\ Distinct(rest \o used)
  BY <1>2, <1>3, DistinctJoin
<1>6. ToSet(recency') = { s \in Slots : slot_item'[s] # Absent }
  <2>1. ToSet(recency') = (ToSet(recency) \ Touched(steps)) \cup Touched(steps)
    BY <1>2, <1>3, <1>4, <1>5
  <2>2. Touched(steps) \subseteq Slots  BY <1>0 DEF Touched
  <2>3. ASSUME NEW s \in Touched(steps) PROVE slot_item'[s] # Absent
    <3>1. PICK k \in DOMAIN steps : steps[k].slot = s  BY DEF Touched
    <3>2. slot_item'[s] = steps[k].item /\ steps[k].item \in Items  BY <1>0, <1>1, <3>1
    <3> QED  BY <1>0, <3>2
  <2> QED  BY <1>1, <2>1, <2>2, <2>3 DEF CacheSound
<1>7. m \in Nat /\ n \in Nat /\ DOMAIN rest = 1 .. m /\ DOMAIN used = 1 .. n
  BY <1>2, <1>3, LenProperties
<1>8. /\ Len(rest \o used) = m + n
      /\ \A k \in 1 .. m + n :
            (rest \o used)[k] = IF k <= m THEN rest[k] ELSE used[k - m]
  BY <1>2, <1>3, <1>7, ConcatProperties
<1>9. DOMAIN recency' = 1 .. m + n  BY <1>4, <1>5, <1>8, LenProperties
<1>10. \A k \in 1 .. m : recency'[k] = rest[k] /\ recency'[k] \in Slots \ Touched(steps)
  <2>1. \A k \in 1 .. m : rest[k] \in ToSet(rest)  BY <1>7 DEF ToSet
  <2>2. ToSet(rest) \subseteq Slots \ Touched(steps)  BY <1>3 DEF CacheSound
  <2> QED  BY <1>4, <1>7, <1>8, <2>1, <2>2
<1>11. \A k \in m + 1 .. m + n : recency'[k] \in Touched(steps)
  <2> SUFFICES ASSUME NEW k \in m + 1 .. m + n PROVE recency'[k] \in Touched(steps)  OBVIOUS
  <2>1. k \in 1 .. m + n /\ ~(k <= m) /\ k - m \in 1 .. n  BY <1>7
  <2>2. recency'[k] = used[k - m]  BY <1>4, <1>8, <2>1
  <2>3. used[k - m] \in ToSet(used)  BY <1>7, <2>1 DEF ToSet
  <2> QED  BY <1>2, <2>2, <2>3
<1>12. ASSUME NEW j \in DOMAIN recency', NEW k \in DOMAIN recency', j <= k
       PROVE  pinned_round'[recency'[j]] <= pinned_round'[recency'[k]]
  <2>0. Touched(steps) \subseteq Slots  BY <1>0 DEF Touched
  <2>1. CASE k \in 1 .. m
    <3>1. j \in 1 .. m  BY <1>7, <1>9, <1>12, <2>1
    <3>2. PICK a \in DOMAIN recency, b \in DOMAIN recency :
             a <= b /\ rest[j] = recency[a] /\ rest[k] = recency[b]
      BY <1>3, <1>7, <1>12, <2>1, <3>1
    <3>3. pinned_round[recency[a]] <= pinned_round[recency[b]]  BY <3>2 DEF CacheSound
    <3>4. /\ pinned_round'[recency'[j]] = pinned_round[recency[a]]
          /\ pinned_round'[recency'[k]] = pinned_round[recency[b]]
      BY <1>1, <1>10, <2>1, <3>1, <3>2
    <3> QED  BY <3>3, <3>4
  <2>2. CASE k \in m + 1 .. m + n
    <3>1. pinned_round'[recency'[k]] = round + 1  BY <1>1, <1>11, <2>0, <2>2
    <3>2. CASE j \in 1 .. m
      <4>1. pinned_round'[recency'[j]] = pinned_round[recency'[j]] /\ recency'[j] \in Slots
        BY <1>1, <1>10, <3>2
      <4>2. pinned_round[recency'[j]] <= round /\ pinned_round[recency'[j]] \in Nat
        BY <1>0, <4>1 DEF CacheSound
      <4> QED  BY <1>1, <3>1, <4>1, <4>2
    <3>3. CASE j \in m + 1 .. m + n
      <4>1. pinned_round'[recency'[j]] = round + 1  BY <1>1, <1>11, <2>0, <3>3
      <4> QED  BY <1>1, <3>1, <4>1
    <3> QED  BY <1>7, <1>9, <3>2, <3>3
  <2> QED  BY <1>7, <1>9, <2>1, <2>2
<1>13. Distinct(recency')  BY <1>4, <1>5
<1> QED  BY <1>6, <1>12, <1>13

LEMMA CommitSound ==
    ASSUME TypeOK, CacheSound, NEW steps \in Seq(Steps), PlanSound(steps),
           round < MaxRounds, Commit(steps)
    PROVE  CacheSound'
<1>0. /\ \A k \in DOMAIN steps : steps[k].item \in Items /\ steps[k].slot \in Slots
      /\ Absent \notin Items /\ Absent \notin Slots
      /\ item_slot \in [Items -> Slots \cup {Absent}]
      /\ slot_item \in [Slots -> Items \cup {Absent}]
      /\ pinned_round \in [Slots -> 0 .. MaxRounds] /\ MaxRounds \in Nat
  BY StepFacts, Constants DEF TypeOK
<1>1. /\ round' = round + 1 /\ round \in Nat
      /\ \A k \in DOMAIN steps : slot_item'[steps[k].slot] = steps[k].item
      /\ \A s \in Slots \ Touched(steps) : slot_item'[s] = slot_item[s]
      /\ \A s \in Slots : pinned_round'[s] =
            IF s \in Touched(steps) THEN round + 1 ELSE pinned_round[s]
  BY CommitTypes
<1>2. /\ \A k \in DOMAIN steps : item_slot'[steps[k].item] = steps[k].slot
      /\ \A i \in Items :
            item_slot[i] # Absent /\ item_slot[i] \notin Overwritten(steps) =>
               item_slot'[i] = item_slot[i]
      /\ \A i \in Items : item_slot'[i] # Absent =>
            \/ item_slot'[i] = item_slot[i] /\ item_slot[i] \notin Overwritten(steps)
            \/ \E k \in Admissions(steps) :
                  steps[k].item = i /\ item_slot'[i] = steps[k].slot
  BY CommitMoves
<1>3. \A k \in Admissions(steps) : k \in DOMAIN steps /\ steps[k].admitted  BY DEF Admissions
<1>4. ASSUME NEW i \in Items, item_slot'[i] # Absent
      PROVE  slot_item'[item_slot'[i]] = i
  <2>1. CASE \E k \in Admissions(steps) : steps[k].item = i /\ item_slot'[i] = steps[k].slot
    BY <1>1, <1>3, <2>1
  <2>2. CASE item_slot'[i] = item_slot[i] /\ item_slot[i] \notin Overwritten(steps)
    <3>1. item_slot[i] \in Slots /\ slot_item[item_slot[i]] = i
      BY <1>0, <1>4, <2>2 DEF CacheSound
    <3>2. CASE item_slot[i] \in Touched(steps)
      <4>1. PICK k \in DOMAIN steps : steps[k].slot = item_slot[i]  BY <3>2 DEF Touched
      <4>2. ~steps[k].admitted  BY <2>2, <4>1 DEF Overwritten, Admissions
      <4>3. item_slot[steps[k].item] = item_slot[i]  BY <4>1, <4>2 DEF PlanSound
      <4>4. steps[k].item = i  BY <1>0, <1>4, <2>2, <3>1, <4>3 DEF CacheSound
      <4> QED  BY <1>1, <2>2, <4>1, <4>4
    <3>3. CASE item_slot[i] \notin Touched(steps)  BY <1>1, <2>2, <3>1, <3>3
    <3> QED  BY <3>2, <3>3
  <2> QED  BY <1>2, <1>4, <2>1, <2>2
<1>5. ASSUME NEW s \in Slots, slot_item'[s] # Absent
      PROVE  item_slot'[slot_item'[s]] = s /\ pinned_round'[s] > 0
  <2>1. CASE s \in Touched(steps)
    <3>1. PICK k \in DOMAIN steps : steps[k].slot = s  BY <2>1 DEF Touched
    <3>2. item_slot'[slot_item'[s]] = s  BY <1>1, <1>2, <3>1
    <3>3. pinned_round'[s] = round + 1  BY <1>1, <2>1
    <3> QED  BY <1>1, <3>2, <3>3
  <2>2. CASE s \notin Touched(steps)
    <3>1. /\ slot_item'[s] = slot_item[s] /\ slot_item[s] \in Items
          /\ item_slot[slot_item[s]] = s /\ pinned_round[s] > 0
          /\ pinned_round'[s] = pinned_round[s]
      BY <1>0, <1>1, <1>5, <2>2 DEF CacheSound
    <3>2. s \notin Overwritten(steps)  BY <1>3, <2>2 DEF Overwritten, Touched
    <3>3. item_slot'[slot_item[s]] = s  BY <1>0, <1>2, <3>1, <3>2
    <3> QED  BY <3>1, <3>3
  <2> QED  BY <2>1, <2>2
<1>6. \A s \in Slots : pinned_round'[s] <= round'
  <2>1. \A s \in Slots : pinned_round[s] <= round  BY DEF CacheSound
  <2>2. \A s \in Slots : pinned_round[s] \in Nat  BY <1>0
  <2> QED  BY <1>1, <2>1, <2>2
<1>7. /\ ToSet(recency') = { s \in Slots : slot_item'[s] # Absent }
      /\ Distinct(recency')
      /\ \A j, k \in DOMAIN recency' :
            j <= k => pinned_round'[recency'[j]] <= pinned_round'[recency'[k]]
  BY CommitRecency
<1> QED  BY <1>4, <1>5, <1>6, <1>7 DEF CacheSound

-----------------------------------------------------------------------------
(* The two streams: what is queued, what is added and what runs.           *)

LEMMA SeqWidens ==
    ASSUME NEW S, NEW T, S \subseteq T
    PROVE  Seq(S) \subseteq Seq(T)
<1> SUFFICES ASSUME NEW seq \in Seq(S) PROVE seq \in Seq(T)  OBVIOUS
<1>1. Len(seq) \in Nat /\ seq \in [1 .. Len(seq) -> S]  BY LenProperties
<1>2. seq \in [1 .. Len(seq) -> T]  BY <1>1
<1> QED  BY <1>1, <1>2, SeqDef

LEMMA TransferFacts ==
    ASSUME TypeOK
    PROVE  /\ Len(transfer) \in Nat /\ DOMAIN transfer = 1 .. Len(transfer)
           /\ \A k \in DOMAIN transfer :
                 /\ transfer[k] \in Transfers
                 /\ transfer[k].op \in {"Upload", "Table", "Wait"}
                 /\ transfer[k].op = "Upload" =>
                      /\ transfer[k].slot \in Slots /\ transfer[k].item \in Items
                      /\ transfer[k].ring \in Bounces \cup {Absent}
                 /\ transfer[k].op = "Table" =>
                      /\ transfer[k].stage \in Stages
                      /\ transfer[k].table \in [Items -> Slots \cup {Absent}]
                 /\ transfer[k].op = "Wait" => transfer[k].left \in 0 .. Len(consumer)
<1>1. transfer \in Seq(Transfers)  BY DEF TypeOK
<1>2. Len(transfer) \in Nat /\ DOMAIN transfer = 1 .. Len(transfer)  BY <1>1, LenProperties
<1>3. \A k \in DOMAIN transfer : transfer[k] \in Transfers  BY <1>1, <1>2, ElementOfSeq
<1> QED  BY <1>2, <1>3 DEF Transfers, Waits

LEMMA ConsumerFacts ==
    ASSUME TypeOK
    PROVE  /\ Len(consumer) \in Nat /\ DOMAIN consumer = 1 .. Len(consumer)
           /\ \A k \in DOMAIN consumer :
                 /\ consumer[k] \in Replays
                 /\ consumer[k].op \in {"Replay", "Wait"}
                 /\ consumer[k].op = "Replay" => consumer[k].items \in SUBSET Items
                 /\ consumer[k].op = "Wait" => consumer[k].left \in 0 .. Len(transfer)
           /\ \A k \in DOMAIN consumer : Reached(k) \in 0 .. Len(transfer)
<1>1. consumer \in Seq(Replays)  BY DEF TypeOK
<1>2. Len(consumer) \in Nat /\ DOMAIN consumer = 1 .. Len(consumer)  BY <1>1, LenProperties
<1>3. \A k \in DOMAIN consumer : consumer[k] \in Replays  BY <1>1, <1>2, ElementOfSeq
<1>4. \A k \in DOMAIN consumer :
        /\ consumer[k].op \in {"Replay", "Wait"}
        /\ consumer[k].op = "Replay" => consumer[k].items \in SUBSET Items
        /\ consumer[k].op = "Wait" => consumer[k].left \in 0 .. Len(transfer)
  BY <1>3 DEF Replays, Waits
<1>5. ASSUME NEW k \in DOMAIN consumer PROVE Reached(k) \in 0 .. Len(transfer)
  <2>1. CASE k > 1 /\ consumer[k - 1].op = "Wait"
    <3>1. k - 1 \in DOMAIN consumer  BY <1>2, <2>1
    <3> QED  BY <1>4, <2>1, <3>1 DEF Reached
  <2>2. CASE ~(k > 1 /\ consumer[k - 1].op = "Wait")
    BY <2>2, TransferFacts DEF Reached
  <2> QED  BY <2>1, <2>2
<1> QED  BY <1>2, <1>3, <1>4, <1>5

LEMMA ReclaimFacts ==
    ASSUME TypeOK
    PROVE  /\ Len(reclaims) \in Nat /\ DOMAIN reclaims = 1 .. Len(reclaims)
           /\ \A r \in DOMAIN reclaims :
                 /\ reclaims[r] \in [generation : 0 .. MaxRounds, fence : 0 .. Len(consumer)]
                 /\ reclaims[r].generation \in Nat /\ reclaims[r].fence \in Nat
<1>1. reclaims \in Seq([generation : 0 .. MaxRounds, fence : 0 .. Len(consumer)])
  BY DEF TypeOK
<1>2. Len(reclaims) \in Nat /\ DOMAIN reclaims = 1 .. Len(reclaims)  BY <1>1, LenProperties
<1>3. \A r \in DOMAIN reclaims :
        reclaims[r] \in [generation : 0 .. MaxRounds, fence : 0 .. Len(consumer)]
  BY <1>1, <1>2, ElementOfSeq
<1> QED  BY <1>2, <1>3

LEMMA FrameHolds ==
    ASSUME NEW s, NEW i, NEW q, UNCHANGED <<transfer, slots, table>>
    PROVE  /\ Holds(s, i, q)' <=> Holds(s, i, q)
           /\ Leads(i, s, q)' <=> Leads(i, s, q)
BY DEF Holds, Leads, Written

(* What an operation added to the transfer stream changes.                 *)
LEMMA Pushed ==
    ASSUME TypeOK, NEW op \in Transfers, transfer' = Append(transfer, op),
           UNCHANGED device
    PROVE  LET n == Len(transfer) IN
           /\ Len(transfer') = n + 1 /\ DOMAIN transfer' = 1 .. n + 1
           /\ transfer' \in Seq(Transfers)
           /\ transfer'[n + 1] = op /\ \A j \in 1 .. n : transfer'[j] = transfer[j]
           /\ \A s, i : \A q \in 0 .. n :
                 /\ Holds(s, i, q)' <=> Holds(s, i, q)
                 /\ Leads(i, s, q)' <=> Leads(i, s, q)
           /\ \A s, i, q : q = n + 1 =>
                 /\ ~(op.op = "Upload" /\ op.slot = s) /\ Holds(s, i, n) => Holds(s, i, q)'
                 /\ op.op = "Upload" /\ op.slot = s /\ op.item = i => Holds(s, i, q)'
                 /\ op.op # "Table" /\ Leads(i, s, n) => Leads(i, s, q)'
                 /\ op.op = "Table" /\ op.table[i] = s => Leads(i, s, q)'
<1> DEFINE n == Len(transfer)
<1>0. slots' = slots /\ table' = table  BY DEF device
<1>1. n \in Nat /\ DOMAIN transfer = 1 .. n /\ transfer \in Seq(Transfers)
  BY TransferFacts DEF TypeOK
<1>2. /\ transfer' \in Seq(Transfers) /\ Len(transfer') = n + 1 /\ transfer'[n + 1] = op
      /\ \A j \in 1 .. n : transfer'[j] = transfer[j]
  BY <1>1, AppendProperties
<1>3. DOMAIN transfer' = 1 .. n + 1  BY <1>2, LenProperties
<1> HIDE DEF n
<1>4. ASSUME NEW s, NEW i, NEW q \in 0 .. n
      PROVE  /\ Holds(s, i, q)' <=> Holds(s, i, q)
             /\ Leads(i, s, q)' <=> Leads(i, s, q)
  <2>1. \A j \in 1 .. q : transfer'[j] = transfer[j]  BY <1>1, <1>2
  <2>2. \A j \in 1 .. q : Written(s, j)' <=> Written(s, j)  BY <2>1 DEF Written
  <2>3. \A k \in 1 .. q : \A j \in k + 1 .. q : j \in 1 .. q  BY <1>1
  <2>4. Holds(s, i, q)' <=> Holds(s, i, q)  BY <1>0, <2>1, <2>2, <2>3 DEF Holds
  <2> DEFINE T(j) == transfer[j].op = "Table"  L(j) == transfer[j].table[i] = s
             T1(j) == transfer'[j].op = "Table"  L1(j) == transfer'[j].table[i] = s
  <2>5. \A j \in 1 .. q : (T1(j) <=> T(j)) /\ (L1(j) <=> L(j))  BY <2>1
  <2>6. Leads(i, s, q) <=> \/ table[i] = s /\ \A j \in 1 .. q : ~T(j)
                           \/ \E k \in 1 .. q : T(k) /\ L(k) /\ \A j \in k + 1 .. q : ~T(j)
    BY DEF Leads
  <2>7. Leads(i, s, q)' <=>
           \/ table[i] = s /\ \A j \in 1 .. q : ~T1(j)
           \/ \E k \in 1 .. q : T1(k) /\ L1(k) /\ \A j \in k + 1 .. q : ~T1(j)
    BY <1>0 DEF Leads
  <2> HIDE DEF T, L, T1, L1
  <2>8. Leads(i, s, q)' <=> Leads(i, s, q)  BY <2>3, <2>5, <2>6, <2>7
  <2> QED  BY <2>4, <2>8
<1>5. ASSUME NEW s, NEW i, NEW q, q = n + 1
      PROVE  /\ ~(op.op = "Upload" /\ op.slot = s) /\ Holds(s, i, n) => Holds(s, i, q)'
             /\ op.op = "Upload" /\ op.slot = s /\ op.item = i => Holds(s, i, q)'
             /\ op.op # "Table" /\ Leads(i, s, n) => Leads(i, s, q)'
             /\ op.op = "Table" /\ op.table[i] = s => Leads(i, s, q)'
  <2>0. /\ q \in 1 .. q /\ 1 .. n \subseteq 1 .. q /\ transfer'[q] = op
        /\ \A j \in 1 .. q : j \in 1 .. n \/ j = q
        /\ \A k \in 1 .. n : \A j \in k + 1 .. q : j \in k + 1 .. n \/ j = q
        /\ \A k \in 1 .. n : \A j \in k + 1 .. n : j \in 1 .. n
        /\ \A j \in q + 1 .. q : FALSE
    BY <1>1, <1>2, <1>5
  <2>1. ASSUME ~(op.op = "Upload" /\ op.slot = s), Holds(s, i, n)
        PROVE  Holds(s, i, q)'
    <3>1. \A j \in 1 .. n : Written(s, j)' <=> Written(s, j)  BY <1>2 DEF Written
    <3>2. ~Written(s, q)'  BY <2>0, <2>1 DEF Written
    <3>3. CASE slots[s] = i /\ \A j \in 1 .. n : ~Written(s, j)
      BY <1>0, <2>0, <3>1, <3>2, <3>3 DEF Holds
    <3>4. CASE \E k \in 1 .. n : /\ Written(s, k) /\ transfer[k].item = i
                                 /\ \A j \in k + 1 .. n : ~Written(s, j)
      <4>1. PICK k \in 1 .. n : /\ Written(s, k) /\ transfer[k].item = i
                                /\ \A j \in k + 1 .. n : ~Written(s, j)
        BY <3>4
      <4>2. \A j \in k + 1 .. q : ~Written(s, j)'  BY <2>0, <3>1, <3>2, <4>1
      <4>3. Written(s, k)' /\ transfer'[k].item = i  BY <1>2, <3>1, <4>1
      <4> QED  BY <2>0, <4>2, <4>3 DEF Holds
    <3> QED  BY <2>1, <3>3, <3>4 DEF Holds
  <2>2. ASSUME op.op = "Upload" /\ op.slot = s /\ op.item = i
        PROVE  Holds(s, i, q)'
    BY <2>0, <2>2 DEF Holds, Written
  <2>3. ASSUME op.op # "Table", Leads(i, s, n)
        PROVE  Leads(i, s, q)'
    <3>1. CASE table[i] = s /\ \A j \in 1 .. n : transfer[j].op # "Table"
      BY <1>0, <1>2, <2>0, <2>3, <3>1 DEF Leads
    <3>2. CASE \E k \in 1 .. n : /\ transfer[k].op = "Table" /\ transfer[k].table[i] = s
                                 /\ \A j \in k + 1 .. n : transfer[j].op # "Table"
      <4>1. PICK k \in 1 .. n : /\ transfer[k].op = "Table" /\ transfer[k].table[i] = s
                                /\ \A j \in k + 1 .. n : transfer[j].op # "Table"
        BY <3>2
      <4>2. \A j \in k + 1 .. q : transfer'[j].op # "Table"
        BY <1>2, <2>0, <2>3, <4>1
      <4>3. transfer'[k].op = "Table" /\ transfer'[k].table[i] = s  BY <1>2, <4>1
      <4> QED  BY <2>0, <4>2, <4>3 DEF Leads
    <3> QED  BY <2>3, <3>1, <3>2 DEF Leads
  <2>4. ASSUME op.op = "Table" /\ op.table[i] = s
        PROVE  Leads(i, s, q)'
    BY <2>0, <2>4 DEF Leads
  <2> QED  BY <2>1, <2>2, <2>3, <2>4
<1> QED  BY <1>2, <1>3, <1>4, <1>5 DEF n

(* What the first operation of the transfer stream does when it runs.      *)
LEMMA Popped ==
    ASSUME TypeOK, SourcesHeld, TransferStep
    PROVE  LET n == Len(transfer) IN
           /\ n \in Nat \ {0} /\ Len(transfer') = n - 1 /\ DOMAIN transfer' = 1 .. n - 1
           /\ transfer' \in Seq(Transfers)
           /\ \A j \in 1 .. n - 1 : transfer'[j] = transfer[j + 1]
           /\ 1 \in DOMAIN transfer /\ Head(transfer) = transfer[1]
           /\ transfer[1].op = "Wait" => transfer[1].left = 0
           /\ \A s \in Slots : \A i : \A q \in 0 .. n - 1 :
                 Holds(s, i, q + 1) => Holds(s, i, q)'
           /\ \A s : \A i \in Items : \A q \in 0 .. n - 1 :
                 Leads(i, s, q + 1) => Leads(i, s, q)'
<1> DEFINE n == Len(transfer)
<1>1. n \in Nat /\ DOMAIN transfer = 1 .. n /\ transfer \in Seq(Transfers)
      /\ transfer # << >>
  BY TransferFacts DEF TypeOK, TransferStep
<1>2. n \in Nat \ {0}  BY <1>1, EmptySeq
<1>3. transfer' = Tail(transfer) /\ Head(transfer) = transfer[1]  BY DEF TransferStep
<1>4. /\ transfer' \in Seq(Transfers) /\ Len(transfer') = n - 1
      /\ \A j \in 1 .. n - 1 : transfer'[j] = transfer[j + 1]
  BY <1>1, <1>3, HeadTailProperties
<1>5. DOMAIN transfer' = 1 .. n - 1  BY <1>4, LenProperties
<1>6. 1 \in DOMAIN transfer  BY <1>1, <1>2
<1>7. transfer[1].op = "Wait" => transfer[1].left = 0  BY <1>3 DEF TransferStep
<1> HIDE DEF n
<1>8. \A s \in Slots : slots'[s] = IF Written(s, 1) THEN transfer[1].item ELSE slots[s]
  <2>1. slots \in [Slots -> Items \cup {Absent}]  BY DEF TypeOK
  <2>2. CASE transfer[1].op = "Upload"
    <3>1. slots' = [slots EXCEPT ![transfer[1].slot] =
                      IF transfer[1].ring = Absent THEN transfer[1].item
                      ELSE bounce[transfer[1].ring].item]
      BY <1>3, <2>2 DEF TransferStep
    <3>2. transfer[1].ring # Absent => bounce[transfer[1].ring].item = transfer[1].item
      BY <1>6, <2>2 DEF SourcesHeld
    <3> QED  BY <2>1, <2>2, <3>1, <3>2 DEF Written
  <2>3. CASE transfer[1].op # "Upload"  BY <1>3, <2>3 DEF TransferStep, Written
  <2> QED  BY <2>2, <2>3
<1>9. table' = IF transfer[1].op = "Table" THEN transfer[1].table ELSE table
  BY <1>3, <1>6 DEF TransferStep, SourcesHeld
<1>10. \A j \in 1 .. n - 1 : \A s : Written(s, j)' <=> Written(s, j + 1)  BY <1>4 DEF Written
<1>11. ASSUME NEW s \in Slots, NEW i, NEW q \in 0 .. n - 1, Holds(s, i, q + 1)
       PROVE  Holds(s, i, q)'
  <2>1. \A j \in 1 .. q : j \in 1 .. n - 1 /\ j + 1 \in 1 .. q + 1  BY <1>2
  <2>2. \A j \in 1 .. q : Written(s, j)' <=> Written(s, j + 1)  BY <1>10, <2>1
  <2>3. CASE slots[s] = i /\ \A j \in 1 .. q + 1 : ~Written(s, j)
    <3>1. 1 \in 1 .. q + 1  BY <1>2
    <3>2. slots'[s] = i  BY <1>8, <2>3, <3>1
    <3> QED  BY <2>1, <2>2, <2>3, <3>2 DEF Holds
  <2>4. CASE \E k \in 1 .. q + 1 : /\ Written(s, k) /\ transfer[k].item = i
                                   /\ \A j \in k + 1 .. q + 1 : ~Written(s, j)
    <3>1. PICK k \in 1 .. q + 1 : /\ Written(s, k) /\ transfer[k].item = i
                                  /\ \A j \in k + 1 .. q + 1 : ~Written(s, j)
      BY <2>4
    <3>2. CASE k = 1
      <4>1. slots'[s] = i  BY <1>8, <3>1, <3>2
      <4>2. \A j \in 1 .. q : j + 1 \in k + 1 .. q + 1  BY <3>2
      <4> QED  BY <2>2, <3>1, <4>1, <4>2 DEF Holds
    <3>3. CASE k # 1
      <4> DEFINE p == k - 1
      <4>1. p \in 1 .. q /\ p \in 1 .. n - 1 /\ k = p + 1  BY <1>2, <3>3
      <4>2. \A j \in p + 1 .. q : j \in 1 .. q /\ j + 1 \in k + 1 .. q + 1  BY <4>1
      <4> HIDE DEF p
      <4>3. Written(s, p)' /\ transfer'[p].item = i  BY <1>4, <2>2, <3>1, <4>1
      <4>4. \A j \in p + 1 .. q : ~Written(s, j)'  BY <2>2, <3>1, <4>2
      <4> QED  BY <4>1, <4>3, <4>4 DEF Holds
    <3> QED  BY <3>2, <3>3
  <2> QED  BY <1>11, <2>3, <2>4 DEF Holds
<1>12. ASSUME NEW s, NEW i \in Items, NEW q \in 0 .. n - 1, Leads(i, s, q + 1)
       PROVE  Leads(i, s, q)'
  <2>1. \A j \in 1 .. q : j \in 1 .. n - 1 /\ j + 1 \in 1 .. q + 1  BY <1>2
  <2>2. \A j \in 1 .. q : transfer'[j] = transfer[j + 1]  BY <1>4, <2>1
  <2>3. CASE table[i] = s /\ \A j \in 1 .. q + 1 : transfer[j].op # "Table"
    <3>1. 1 \in 1 .. q + 1  BY <1>2
    <3>2. table'[i] = s  BY <1>9, <2>3, <3>1
    <3> QED  BY <2>1, <2>2, <2>3, <3>2 DEF Leads
  <2>4. CASE \E k \in 1 .. q + 1 : /\ transfer[k].op = "Table" /\ transfer[k].table[i] = s
                                   /\ \A j \in k + 1 .. q + 1 : transfer[j].op # "Table"
    <3>1. PICK k \in 1 .. q + 1 : /\ transfer[k].op = "Table" /\ transfer[k].table[i] = s
                                  /\ \A j \in k + 1 .. q + 1 : transfer[j].op # "Table"
      BY <2>4
    <3>2. CASE k = 1
      <4>1. table'[i] = s  BY <1>9, <3>1, <3>2
      <4>2. \A j \in 1 .. q : j + 1 \in k + 1 .. q + 1  BY <3>2
      <4> QED  BY <2>2, <3>1, <4>1, <4>2 DEF Leads
    <3>3. CASE k # 1
      <4> DEFINE p == k - 1
      <4>1. p \in 1 .. q /\ k = p + 1  BY <1>2, <3>3
      <4>2. \A j \in p + 1 .. q : j \in 1 .. q /\ j + 1 \in k + 1 .. q + 1  BY <4>1
      <4> HIDE DEF p
      <4>3. transfer'[p].op = "Table" /\ transfer'[p].table[i] = s  BY <2>2, <3>1, <4>1
      <4>4. \A j \in p + 1 .. q : transfer'[j].op # "Table"  BY <2>2, <3>1, <4>2
      <4> QED  BY <4>1, <4>3, <4>4 DEF Leads
    <3> QED  BY <3>2, <3>3
  <2> QED  BY <1>12, <2>3, <2>4 DEF Leads
<1> QED  BY <1>2, <1>3, <1>4, <1>5, <1>6, <1>7, <1>11, <1>12 DEF n

LEMMA AtEndNext ==
    ASSUME NEW s, NEW i, NEW q, q = Len(transfer')
    PROVE  /\ Holds(s, i, q)' <=> WillHold(s, i)'
           /\ Leads(i, s, q)' <=> WillLead(i, s)'
BY DEF Holds, Leads, WillHold, WillLead

LEMMA PushedEnd ==
    ASSUME TypeOK, NEW op \in Transfers, transfer' = Append(transfer, op),
           UNCHANGED device, NEW s, NEW i
    PROVE  /\ ~(op.op = "Upload" /\ op.slot = s) /\ WillHold(s, i) => WillHold(s, i)'
           /\ op.op = "Upload" /\ op.slot = s /\ op.item = i => WillHold(s, i)'
           /\ op.op # "Table" /\ WillLead(i, s) => WillLead(i, s)'
           /\ op.op = "Table" /\ op.table[i] = s => WillLead(i, s)'
<1>1. PICK q : q = Len(transfer')  OBVIOUS
<1>2. q = Len(transfer) + 1  BY <1>1, Pushed
<1>3. /\ ~(op.op = "Upload" /\ op.slot = s) /\ Holds(s, i, Len(transfer)) => Holds(s, i, q)'
      /\ op.op = "Upload" /\ op.slot = s /\ op.item = i => Holds(s, i, q)'
      /\ op.op # "Table" /\ Leads(i, s, Len(transfer)) => Leads(i, s, q)'
      /\ op.op = "Table" /\ op.table[i] = s => Leads(i, s, q)'
  BY <1>2, Pushed
<1>4. (Holds(s, i, q)' <=> WillHold(s, i)') /\ (Leads(i, s, q)' <=> WillLead(i, s)')
  BY <1>1, AtEndNext
<1>5. /\ WillHold(s, i) <=> Holds(s, i, Len(transfer))
      /\ WillLead(i, s) <=> Leads(i, s, Len(transfer))
  BY DEF WillHold, WillLead
<1> QED  BY <1>3, <1>4, <1>5

LEMMA PoppedEnd ==
    ASSUME TypeOK, SourcesHeld, TransferStep
    PROVE  /\ \A s \in Slots : \A i : WillHold(s, i) => WillHold(s, i)'
           /\ \A i \in Items : \A s : WillLead(i, s) => WillLead(i, s)'
<1>1. PICK q : q = Len(transfer')  OBVIOUS
<1>2. q = Len(transfer) - 1 /\ Len(transfer) \in Nat \ {0}  BY <1>1, Popped
<1>3. q \in 0 .. Len(transfer) - 1 /\ q + 1 = Len(transfer)  BY <1>2
<1>4. /\ \A s \in Slots : \A i : Holds(s, i, q + 1) => Holds(s, i, q)'
      /\ \A i \in Items : \A s : Leads(i, s, q + 1) => Leads(i, s, q)'
  BY <1>3, Popped
<1>5. ASSUME NEW s \in Slots, NEW i, WillHold(s, i) PROVE WillHold(s, i)'
  <2>1. Holds(s, i, q + 1)  BY <1>3, <1>5 DEF WillHold
  <2> QED  BY <1>1, <1>4, <2>1, AtEndNext
<1>6. ASSUME NEW s, NEW i \in Items, WillLead(i, s) PROVE WillLead(i, s)'
  <2>1. Leads(i, s, q + 1)  BY <1>3, <1>6 DEF WillLead
  <2> QED  BY <1>1, <1>4, <2>1, AtEndNext
<1> QED  BY <1>5, <1>6

(* Waits count down when the stream they wait for makes a step.            *)
PassedOne(e) == IF e.op = "Wait" THEN Wait(Passed(e.left)) ELSE e
PassesInto(queue, S, T) == queue \in Seq(S) /\ \A e \in S : PassedOne(e) \in T
ArePassed(p, queue, T) ==
    /\ p \in Seq(T) /\ Len(p) = Len(queue) /\ DOMAIN p = DOMAIN queue
    /\ \A k \in DOMAIN queue :
          /\ p[k].op = queue[k].op
          /\ queue[k].op # "Wait" => p[k] = queue[k]
          /\ queue[k].op = "Wait" => p[k].left = Passed(queue[k].left)
LEMMA PassedWaitsAre ==
    ASSUME NEW S, NEW T, NEW queue, PassesInto(queue, S, T)
    PROVE  ArePassed(PassedWaits(queue), queue, T)
<1> DEFINE p == PassedWaits(queue)  n == Len(queue)
<1>0. queue \in Seq(S) /\ \A e \in S : PassedOne(e) \in T  BY DEF PassesInto
<1>1. n \in Nat /\ DOMAIN queue = 1 .. n /\ \A k \in 1 .. n : queue[k] \in S
  BY ONLY <1>0, LenProperties, ElementOfSeq
<1>2. p = [k \in 1 .. n |-> PassedOne(queue[k])]
  BY <1>1 DEF PassedWaits, PassedOne
<1> HIDE DEF p, n
<1>3. p \in [1 .. n -> T]  BY <1>0, <1>1, <1>2
<1>4. p \in Seq(T) /\ Len(p) = n /\ DOMAIN p = 1 .. n  BY <1>1, <1>3, SeqDef, LenProperties
<1>5. ASSUME NEW k \in DOMAIN queue
      PROVE  /\ p[k].op = queue[k].op
             /\ queue[k].op # "Wait" => p[k] = queue[k]
             /\ queue[k].op = "Wait" => p[k].left = Passed(queue[k].left)
  <2>1. CASE queue[k].op = "Wait"  BY <1>1, <1>2, <2>1 DEF Wait, PassedOne
  <2>2. CASE queue[k].op # "Wait"  BY <1>1, <1>2, <2>2 DEF PassedOne
  <2> QED  BY <2>1, <2>2
<1>6. ArePassed(p, queue, T)  BY ONLY <1>1, <1>4, <1>5 DEF ArePassed, n
<1> QED  BY ONLY <1>6 DEF p

(* What a step of each stream does to the other.                           *)
LEMMA TransferPasses ==
    ASSUME TypeOK, SourcesHeld, TransferStep
    PROVE  /\ consumer' \in Seq(Replays') /\ Len(consumer') = Len(consumer)
           /\ DOMAIN consumer' = DOMAIN consumer
           /\ \A k \in DOMAIN consumer :
                 /\ consumer'[k].op = consumer[k].op
                 /\ consumer[k].op = "Replay" => consumer'[k].items = consumer[k].items
           /\ \A k \in DOMAIN consumer : Reached(k)' = Passed(Reached(k))
           /\ \A k \in DOMAIN consumer : \A j \in 1 .. Len(transfer) - 1 :
                 WaitsFor(j, k)' <=> WaitsFor(j + 1, k)
           /\ \A k \in DOMAIN consumer : ~WaitsFor(1, k)
<1>1. /\ Len(transfer) \in Nat \ {0} /\ Len(transfer') = Len(transfer) - 1
      /\ \A j \in 1 .. Len(transfer) - 1 : transfer'[j] = transfer[j + 1]
      /\ transfer[1].op = "Wait" => transfer[1].left = 0
  BY Popped
<1>2. consumer' = PassedWaits(consumer)  BY DEF TransferStep
<1>3. consumer \in Seq(Replays)  BY DEF TypeOK
<1>4. \A e \in Replays : PassedOne(e) \in Replays'
  <2> SUFFICES ASSUME NEW e \in Replays
               PROVE  PassedOne(e) \in Replays'
    OBVIOUS
  <2>1. CASE e.op = "Wait"
    <3>1. e.left \in 0 .. Len(transfer)  BY <2>1 DEF Replays, Waits
    <3>2. Passed(e.left) \in 0 .. Len(transfer')  BY <1>1, <3>1 DEF Passed
    <3>3. Wait(Passed(e.left)) \in Waits(transfer')  BY <3>2 DEF Wait, Waits
    <3> QED  BY <2>1, <3>3 DEF Replays, PassedOne
  <2>2. CASE e.op # "Wait"  BY <2>2 DEF Replays, Waits, PassedOne
  <2> QED  BY <2>1, <2>2
<1>5. /\ consumer' \in Seq(Replays') /\ Len(consumer') = Len(consumer)
      /\ DOMAIN consumer' = DOMAIN consumer
      /\ \A k \in DOMAIN consumer :
            /\ consumer'[k].op = consumer[k].op
            /\ consumer[k].op # "Wait" => consumer'[k] = consumer[k]
            /\ consumer[k].op = "Wait" => consumer'[k].left = Passed(consumer[k].left)
  <2> DEFINE R == Replays'  S == Replays  queue == consumer
  <2>1. \A e \in S : PassedOne(e) \in R
    BY <1>4
  <2>3. queue \in Seq(S)  BY <1>3
  <2> HIDE DEF R, S, queue
  <2>2. PassesInto(queue, S, R)  BY ONLY <2>1, <2>3 DEF PassesInto
  <2>4. ArePassed(PassedWaits(queue), queue, R)  BY ONLY <2>2, PassedWaitsAre
  <2>5. consumer' = PassedWaits(queue)  BY <1>2 DEF queue
  <2>6. ArePassed(consumer', queue, R)  BY ONLY <2>4, <2>5
  <2> QED  BY ONLY <2>6 DEF ArePassed, R, queue
<1>6. ASSUME NEW k \in DOMAIN consumer PROVE Reached(k)' = Passed(Reached(k))
  <2>1. k \in Nat /\ (k > 1 => k - 1 \in DOMAIN consumer)  BY ConsumerFacts
  <2> QED  BY <1>5, <2>1 DEF Reached, Passed
<1>7. ASSUME NEW k \in DOMAIN consumer, NEW j \in 1 .. Len(transfer) - 1
      PROVE  WaitsFor(j, k)' <=> WaitsFor(j + 1, k)
  BY <1>1 DEF WaitsFor
<1>8. ASSUME NEW k \in DOMAIN consumer PROVE ~WaitsFor(1, k)
  <2>1. k \in Nat \ {0}  BY ConsumerFacts
  <2> QED  BY <1>1, <2>1 DEF WaitsFor
<1>9. \A k \in DOMAIN consumer : consumer[k].op = "Replay" => consumer'[k].items = consumer[k].items
  BY <1>5
<1> QED  BY <1>5, <1>6, <1>7, <1>8, <1>9

LEMMA ConsumerPasses ==
    ASSUME TypeOK, ConsumerStep
    PROVE  LET m == Len(consumer) IN
           /\ m \in Nat \ {0} /\ Len(consumer') = m - 1 /\ DOMAIN consumer' = 1 .. m - 1
           /\ consumer' \in Seq(Replays)
           /\ \A k \in 1 .. m - 1 : consumer'[k] = consumer[k + 1]
           /\ transfer' \in Seq(Transfers') /\ Len(transfer') = Len(transfer)
           /\ DOMAIN transfer' = DOMAIN transfer
           /\ \A j \in DOMAIN transfer :
                 /\ transfer'[j].op = transfer[j].op
                 /\ transfer[j].op # "Wait" => transfer'[j] = transfer[j]
           /\ \A k \in 1 .. m - 1 : Reached(k)' = Reached(k + 1)
           /\ \A k \in 1 .. m - 1 : \A j \in DOMAIN transfer :
                 WaitsFor(j, k)' <=> WaitsFor(j, k + 1)
           /\ \A s, i : \A q \in 0 .. Len(transfer) :
                 /\ Holds(s, i, q)' <=> Holds(s, i, q)
                 /\ Leads(i, s, q)' <=> Leads(i, s, q)
<1> DEFINE m == Len(consumer)
<1>0. slots' = slots /\ table' = table  BY DEF ConsumerStep, device
<1>1. /\ m \in Nat \ {0} /\ DOMAIN consumer = 1 .. m /\ consumer \in Seq(Replays)
      /\ consumer # << >>
  BY ConsumerFacts, EmptySeq DEF TypeOK, ConsumerStep
<1>2. consumer' = Tail(consumer) /\ transfer' = PassedWaits(transfer)
      /\ (Head(consumer).op = "Wait" => Head(consumer).left = 0) /\ Head(consumer) = consumer[1]
  BY DEF ConsumerStep
<1>3. /\ consumer' \in Seq(Replays) /\ Len(consumer') = m - 1
      /\ \A k \in 1 .. m - 1 : consumer'[k] = consumer[k + 1]
  BY <1>1, <1>2, HeadTailProperties
<1>4. DOMAIN consumer' = 1 .. m - 1  BY <1>3, LenProperties
<1>5. transfer \in Seq(Transfers) /\ Len(transfer) \in Nat /\ DOMAIN transfer = 1 .. Len(transfer)
  BY TransferFacts DEF TypeOK
<1> HIDE DEF m
<1>6. \A e \in Transfers : PassedOne(e) \in Transfers'
  <2> SUFFICES ASSUME NEW e \in Transfers
               PROVE  PassedOne(e) \in Transfers'
    OBVIOUS
  <2>1. CASE e.op = "Wait"
    <3>1. e.left \in 0 .. m  BY <2>1 DEF Transfers, Waits, m
    <3>2. Passed(e.left) \in 0 .. Len(consumer')  BY <1>1, <1>3, <3>1 DEF Passed
    <3>3. Wait(Passed(e.left)) \in Waits(consumer')  BY <3>2 DEF Wait, Waits
    <3> QED  BY <2>1, <3>3 DEF Transfers, PassedOne
  <2>2. CASE e.op # "Wait"  BY <2>2 DEF Transfers, Waits, PassedOne
  <2> QED  BY <2>1, <2>2
<1>7. /\ transfer' \in Seq(Transfers') /\ Len(transfer') = Len(transfer)
      /\ DOMAIN transfer' = DOMAIN transfer
      /\ \A j \in DOMAIN transfer :
            /\ transfer'[j].op = transfer[j].op
            /\ transfer[j].op # "Wait" => transfer'[j] = transfer[j]
            /\ transfer[j].op = "Wait" => transfer'[j].left = Passed(transfer[j].left)
  <2> DEFINE R == Transfers'  S == Transfers  queue == transfer
  <2>1. \A e \in S : PassedOne(e) \in R
    BY <1>6
  <2>3. queue \in Seq(S)  BY <1>5
  <2> HIDE DEF R, S, queue
  <2>2. PassesInto(queue, S, R)  BY ONLY <2>1, <2>3 DEF PassesInto
  <2>4. ArePassed(PassedWaits(queue), queue, R)  BY ONLY <2>2, PassedWaitsAre
  <2>5. transfer' = PassedWaits(queue)  BY <1>2 DEF queue
  <2>6. ArePassed(transfer', queue, R)  BY ONLY <2>4, <2>5
  <2> QED  BY ONLY <2>6 DEF ArePassed, R, queue
<1>8. ASSUME NEW k \in 1 .. m - 1 PROVE Reached(k)' = Reached(k + 1)
  <2>1. k + 1 > 1 /\ (k + 1) - 1 = k  BY <1>1
  <2>2. CASE k = 1
    <3>1. Reached(k)' = 0  BY <2>2 DEF Reached
    <3>2. Reached(k + 1) = 0  BY <1>2, <2>1, <2>2 DEF Reached
    <3> QED  BY <3>1, <3>2
  <2>3. CASE k # 1
    <3>1. k > 1 /\ k - 1 \in 1 .. m - 1 /\ (k - 1) + 1 = k  BY <1>1, <2>3
    <3>2. consumer'[k - 1] = consumer[k]  BY <1>3, <3>1
    <3>3. Reached(k)' = IF consumer'[k - 1].op = "Wait" THEN consumer'[k - 1].left ELSE 0
      BY <3>1 DEF Reached
    <3>4. Reached(k + 1) = IF consumer[k].op = "Wait" THEN consumer[k].left ELSE 0
      BY <2>1 DEF Reached
    <3> QED  BY <3>2, <3>3, <3>4
  <2> QED  BY <2>2, <2>3
<1>9. ASSUME NEW k \in 1 .. m - 1, NEW j \in DOMAIN transfer
      PROVE  WaitsFor(j, k)' <=> WaitsFor(j, k + 1)
  <2>1. CASE transfer[j].op = "Wait"
    <3>1. transfer[j].left \in Nat  BY <2>1, TransferFacts, ConsumerFacts
    <3>2. transfer'[j].left = IF transfer[j].left = 0 THEN 0 ELSE transfer[j].left - 1
      BY <1>7, <2>1 DEF Passed
    <3>3. k \in Nat \ {0}  BY <1>1
    <3>4. transfer'[j].left >= k <=> transfer[j].left >= k + 1  BY <3>1, <3>2, <3>3
    <3> QED  BY <1>7, <2>1, <3>4 DEF WaitsFor
  <2>2. CASE transfer[j].op # "Wait"  BY <1>7, <2>2 DEF WaitsFor
  <2> QED  BY <2>1, <2>2
<1>10. ASSUME NEW s, NEW i, NEW q \in 0 .. Len(transfer)
       PROVE  /\ Holds(s, i, q)' <=> Holds(s, i, q)
              /\ Leads(i, s, q)' <=> Leads(i, s, q)
  <2>1. /\ \A j \in 1 .. q : j \in DOMAIN transfer
        /\ \A k \in 1 .. q : \A j \in k + 1 .. q : j \in 1 .. q
    BY <1>5
  <2>2. \A j \in 1 .. q : /\ Written(s, j)' <=> Written(s, j)
                          /\ Written(s, j) => transfer'[j] = transfer[j]
    BY <1>7, <2>1 DEF Written
  <2>3. Holds(s, i, q)' <=> Holds(s, i, q)  BY <1>0, <2>1, <2>2 DEF Holds
  <2> DEFINE T(j) == transfer[j].op = "Table"  L(j) == transfer[j].table[i] = s
             T1(j) == transfer'[j].op = "Table"  L1(j) == transfer'[j].table[i] = s
  <2>5. \A j \in 1 .. q : (T1(j) <=> T(j)) /\ (T(j) => (L1(j) <=> L(j)))  BY <1>7, <2>1
  <2>6. Leads(i, s, q) <=> \/ table[i] = s /\ \A j \in 1 .. q : ~T(j)
                           \/ \E k \in 1 .. q : T(k) /\ L(k) /\ \A j \in k + 1 .. q : ~T(j)
    BY DEF Leads
  <2>7. Leads(i, s, q)' <=>
           \/ table[i] = s /\ \A j \in 1 .. q : ~T1(j)
           \/ \E k \in 1 .. q : T1(k) /\ L1(k) /\ \A j \in k + 1 .. q : ~T1(j)
    BY <1>0 DEF Leads
  <2> HIDE DEF T, L, T1, L1
  <2>8. Leads(i, s, q)' <=> Leads(i, s, q)  BY <2>1, <2>5, <2>6, <2>7
  <2> QED  BY <2>3, <2>8
<1> QED  BY <1>1, <1>3, <1>4, <1>7, <1>8, <1>9, <1>10 DEF m

LEMMA ConsumerPassesEnd ==
    ASSUME TypeOK, ConsumerStep, NEW s, NEW i
    PROVE  /\ WillHold(s, i) => WillHold(s, i)'
           /\ WillLead(i, s) => WillLead(i, s)'
<1>1. PICK q : q = Len(transfer')  OBVIOUS
<1>2. q = Len(transfer) /\ Len(transfer) \in Nat  BY <1>1, ConsumerPasses, TransferFacts
<1>3. /\ Holds(s, i, q)' <=> Holds(s, i, q)
      /\ Leads(i, s, q)' <=> Leads(i, s, q)
  BY <1>2, ConsumerPasses
<1>4. (Holds(s, i, q)' <=> WillHold(s, i)') /\ (Leads(i, s, q)' <=> WillLead(i, s)')
  BY <1>1, AtEndNext
<1>5. /\ WillHold(s, i) => Holds(s, i, q)
      /\ WillLead(i, s) => Leads(i, s, q)
  BY <1>2 DEF WillHold, WillLead
<1> QED  BY <1>3, <1>4, <1>5

-----------------------------------------------------------------------------
(* The invariant holds at the start, and the steps of both streams keep it. *)

LEMMA InitHolds ==
    Init => IInv
<1> SUFFICES ASSUME Init PROVE IInv  OBVIOUS
<1> USE DEF Init
<1>1. /\ Len(<< >>) = 0 /\ DOMAIN << >> = {} /\ \A S : << >> \in Seq(S)
      /\ Len(transfer) = 0 /\ DOMAIN transfer = {} /\ DOMAIN consumer = {}
      /\ DOMAIN reclaims = {} /\ DOMAIN recency = {} /\ 0 .. 0 = {0}
  BY EmptySeq
<1>2. item_slot \in [Items -> Slots \cup {Absent}]  OBVIOUS
<1>3. TypeOK
  <2>1. staging \in [Stages -> [table : [Items -> Slots \cup {Absent}], fence : 0 .. Len(transfer)]]
    BY <1>1, <1>2
  <2>2. bounce \in [Bounces -> [item : Items \cup {Absent}, fence : 0 .. Len(transfer)]]
    BY <1>1
  <2>3. stage \in Stages /\ (BounceSlots > 0 => cursor \in Bounces)
    BY Constants DEF Stages, Bounces
  <2>4. pinned_round \in [Slots -> 0 .. MaxRounds] /\ round \in 0 .. MaxRounds
    BY Constants
  <2>5. Len(reclaims) <= RECLAIM_FENCE_GENERATIONS /\ publication \in 0 .. Len(transfer)
    BY <1>1, Constants
  <2>6. /\ slot_item \in [Slots -> Items \cup {Absent}] /\ recency \in Seq(Slots)
        /\ pc \in {"idle", "upload", "publish", "stall"}
        /\ plan \in Seq(Steps) /\ uploads \subseteq DOMAIN plan
        /\ {stalls, poisoned, unreleased} \subseteq BOOLEAN
        /\ transfer \in Seq(Transfers) /\ consumer \in Seq(Replays)
        /\ reclaims \in Seq([generation : 0 .. MaxRounds, fence : 0 .. Len(consumer)])
        /\ current \subseteq Items /\ slots \in [Slots -> Items \cup {Absent}]
        /\ table \in [Items -> Slots \cup {Absent}]
    BY <1>1
  <2> QED  BY <1>2, <2>1, <2>2, <2>3, <2>4, <2>5, <2>6 DEF TypeOK
<1>4. CacheSound  BY <1>1, Constants DEF CacheSound, Distinct, ToSet
<1>5. CallSound  BY <1>1 DEF CallSound
<1>6. SourcesHeld  BY <1>1 DEF SourcesHeld
<1>7. ClaimsHold
  <2>1. \A i \in Items : WillLead(i, Absent)  BY <1>1 DEF WillLead, Leads
  <2>2. \A i \in Items : item_slot[i] = Absent  OBVIOUS
  <2> QED  BY <2>1, <2>2, Constants DEF ClaimsHold
<1>8. ReplaysSafe /\ ReplaysHeld /\ CurrentHeld  BY <1>1 DEF ReplaysSafe, ReplaysHeld, CurrentHeld
<1> QED  BY <1>3, <1>4, <1>5, <1>6, <1>7, <1>8 DEF IInv

(* A step of the transfer stream.                                          *)
LEMMA TransferStepTypes ==
    ASSUME TypeOK, SourcesHeld, TransferStep
    PROVE  TypeOK'
<1> DEFINE n == Len(transfer)
<1>1. /\ n \in Nat \ {0} /\ Len(transfer') = n - 1 /\ transfer' \in Seq(Transfers)
      /\ Head(transfer) = transfer[1] /\ 1 \in DOMAIN transfer
  BY Popped
<1>2. consumer' \in Seq(Replays') /\ Len(consumer') = Len(consumer)  BY TransferPasses
<1>3. Transfers' = Transfers  BY <1>2 DEF Transfers, Waits
<1>4. \A f \in 0 .. n : Passed(f) \in 0 .. Len(transfer')  BY <1>1 DEF Passed
<1> HIDE DEF n
<1>5. publication' \in 0 .. Len(transfer')  BY <1>4 DEF TypeOK, TransferStep, n
<1>6. staging' \in [Stages -> [table : [Items -> Slots \cup {Absent}], fence : 0 .. Len(transfer')]]
  <2>1. staging' = [g \in Stages |-> [staging[g] EXCEPT !.fence = Passed(@)]]
    BY DEF TransferStep
  <2>2. ASSUME NEW g \in Stages
        PROVE  [staging[g] EXCEPT !.fence = Passed(@)] \in
                  [table : [Items -> Slots \cup {Absent}], fence : 0 .. Len(transfer')]
    <3>1. staging[g] \in [table : [Items -> Slots \cup {Absent}], fence : 0 .. n]
      BY DEF TypeOK, n
    <3> QED  BY <1>4, <3>1
  <2> QED  BY <2>1, <2>2
<1>7. bounce' \in [Bounces -> [item : Items \cup {Absent}, fence : 0 .. Len(transfer')]]
  <2>1. bounce' = [b \in Bounces |-> [bounce[b] EXCEPT !.fence = Passed(@)]]
    BY DEF TransferStep
  <2>2. ASSUME NEW b \in Bounces
        PROVE  [bounce[b] EXCEPT !.fence = Passed(@)] \in
                  [item : Items \cup {Absent}, fence : 0 .. Len(transfer')]
    <3>1. bounce[b] \in [item : Items \cup {Absent}, fence : 0 .. n]  BY DEF TypeOK, n
    <3> QED  BY <1>4, <3>1
  <2> QED  BY <2>1, <2>2
<1>8. slots' \in [Slots -> Items \cup {Absent}]
  <2>1. slots \in [Slots -> Items \cup {Absent}]  BY DEF TypeOK
  <2>2. CASE transfer[1].op = "Upload"
    <3>1. /\ transfer[1].slot \in Slots /\ transfer[1].item \in Items
          /\ transfer[1].ring # Absent => bounce[transfer[1].ring].item = transfer[1].item
      BY <1>1, <2>2, TransferFacts DEF SourcesHeld
    <3>2. slots' = [slots EXCEPT ![transfer[1].slot] =
                      IF transfer[1].ring = Absent THEN transfer[1].item
                      ELSE bounce[transfer[1].ring].item]
      BY <1>1, <2>2 DEF TransferStep
    <3> QED  BY <2>1, <3>1, <3>2
  <2>3. CASE transfer[1].op # "Upload"  BY <1>1, <2>1, <2>3 DEF TransferStep
  <2> QED  BY <2>2, <2>3
<1>9. table' \in [Items -> Slots \cup {Absent}]
  <2>1. table \in [Items -> Slots \cup {Absent}]  BY DEF TypeOK
  <2>2. CASE transfer[1].op = "Table"
    <3>1. /\ transfer[1].table \in [Items -> Slots \cup {Absent}]
          /\ staging[transfer[1].stage].table = transfer[1].table
      BY <1>1, <2>2, TransferFacts DEF SourcesHeld
    <3>2. table' = staging[transfer[1].stage].table  BY <1>1, <2>2 DEF TransferStep
    <3> QED  BY <3>1, <3>2
  <2>3. CASE transfer[1].op # "Table"  BY <1>1, <2>1, <2>3 DEF TransferStep
  <2> QED  BY <2>2, <2>3
<1>10. UNCHANGED <<cache, call, poisoned, reclaims, stage, cursor, current, unreleased>>
  BY DEF TransferStep
<1>11. /\ item_slot' = item_slot /\ slot_item' = slot_item /\ recency' = recency
       /\ pinned_round' = pinned_round /\ round' = round
       /\ pc' = pc /\ uploads' = uploads /\ plan' = plan /\ stalls' = stalls
       /\ poisoned' = poisoned /\ unreleased' = unreleased /\ reclaims' = reclaims
       /\ stage' = stage /\ cursor' = cursor /\ current' = current
  BY <1>10 DEF cache, call
<1>12. /\ reclaims' \in Seq([generation : 0 .. MaxRounds, fence : 0 .. Len(consumer')])
       /\ Len(reclaims') <= RECLAIM_FENCE_GENERATIONS
  BY <1>2, <1>11 DEF TypeOK
<1>13. {stalls', poisoned', unreleased'} \subseteq BOOLEAN  BY <1>11 DEF TypeOK
<1> QED  BY <1>1, <1>2, <1>3, <1>5, <1>6, <1>7, <1>8, <1>9, <1>11, <1>12, <1>13 DEF TypeOK

LEMMA TransferStepKeeps ==
    ASSUME IInv, TransferStep
    PROVE  IInv'
<1> DEFINE n == Len(transfer)
<1>0. TypeOK /\ CacheSound /\ CallSound /\ SourcesHeld /\ ClaimsHold /\ ReplaysSafe
      /\ ReplaysHeld /\ CurrentHeld
  BY DEF IInv
<1>1. /\ n \in Nat \ {0} /\ Len(transfer') = n - 1 /\ DOMAIN transfer' = 1 .. n - 1
      /\ \A j \in 1 .. n - 1 : transfer'[j] = transfer[j + 1]
      /\ DOMAIN transfer = 1 .. n
  BY <1>0, Popped, TransferFacts
<1>2. /\ DOMAIN consumer' = DOMAIN consumer
      /\ \A k \in DOMAIN consumer :
            /\ consumer'[k].op = consumer[k].op
            /\ consumer[k].op = "Replay" => consumer'[k].items = consumer[k].items
      /\ \A k \in DOMAIN consumer : Reached(k)' = Passed(Reached(k))
      /\ \A k \in DOMAIN consumer : \A j \in 1 .. n - 1 :
            WaitsFor(j, k)' <=> WaitsFor(j + 1, k)
      /\ \A k \in DOMAIN consumer : ~WaitsFor(1, k)
  BY <1>0, TransferPasses
<1>3. /\ item_slot' = item_slot /\ slot_item' = slot_item /\ recency' = recency
      /\ pinned_round' = pinned_round /\ round' = round
      /\ pc' = pc /\ uploads' = uploads /\ plan' = plan /\ stalls' = stalls
      /\ poisoned' = poisoned /\ reclaims' = reclaims /\ current' = current
  BY DEF TransferStep, cache, call
<1>4. /\ \A s \in Slots : \A i : WillHold(s, i) => WillHold(s, i)'
      /\ \A i \in Items : \A s : WillLead(i, s) => WillLead(i, s)'
  BY <1>0, PoppedEnd
<1>5. TypeOK'  BY <1>0, TransferStepTypes
<1>6. CacheSound'  BY <1>0, <1>3 DEF CacheSound
<1>7. CallSound'
  <2>1. publication' = Passed(publication)  BY DEF TransferStep
  <2>2. publication = n => publication' = n - 1  BY <1>1, <2>1 DEF Passed
  <2> HIDE DEF n
  <2>3. pc' \in {"idle", "stall"} /\ ~poisoned' => publication' = Len(transfer')
    BY <1>0, <1>1, <1>3, <2>2 DEF CallSound, n
  <2>4. PlanSound(plan)' <=> PlanSound(plan)  BY <1>3 DEF PlanSound, Admissions
  <2>5. Admissions(plan)' = Admissions(plan) /\ Asked(plan)' = Asked(plan)
    BY <1>3 DEF Admissions, Asked
  <2> QED  BY <1>0, <1>3, <2>3, <2>4, <2>5 DEF CallSound
<1>8. SourcesHeld'
  <2>1. ASSUME NEW k \in 1 .. n - 1, transfer'[k].op = "Upload", transfer'[k].ring # Absent
        PROVE  /\ bounce'[transfer'[k].ring].item = transfer'[k].item
               /\ bounce'[transfer'[k].ring].fence >= k
    <3>1. k + 1 \in DOMAIN transfer /\ transfer'[k] = transfer[k + 1] /\ k \in Nat  BY <1>1
    <3> DEFINE b == transfer[k + 1].ring
    <3>2. b \in Bounces /\ bounce[b].item = transfer[k + 1].item /\ bounce[b].fence >= k + 1
      BY <1>0, <2>1, <3>1, TransferFacts DEF SourcesHeld
    <3>3. /\ bounce[b] \in [item : Items \cup {Absent}, fence : 0 .. n]
          /\ bounce'[b] = [bounce[b] EXCEPT !.fence = Passed(@)]
      BY <1>0, <3>2 DEF TypeOK, TransferStep
    <3>4. bounce'[b].item = bounce[b].item /\ bounce'[b].fence = Passed(bounce[b].fence)
          /\ bounce[b].fence \in Nat
      BY <1>1, <3>3
    <3>5. Passed(bounce[b].fence) >= k  BY <3>1, <3>2, <3>4 DEF Passed
    <3> QED  BY <3>1, <3>2, <3>4, <3>5
  <2>2. ASSUME NEW k \in 1 .. n - 1, transfer'[k].op = "Table"
        PROVE  /\ staging'[transfer'[k].stage].table = transfer'[k].table
               /\ staging'[transfer'[k].stage].fence >= k
    <3>1. k + 1 \in DOMAIN transfer /\ transfer'[k] = transfer[k + 1] /\ k \in Nat  BY <1>1
    <3> DEFINE g == transfer[k + 1].stage
    <3>2. g \in Stages /\ staging[g].table = transfer[k + 1].table /\ staging[g].fence >= k + 1
      BY <1>0, <2>2, <3>1, TransferFacts DEF SourcesHeld
    <3>3. /\ staging[g] \in [table : [Items -> Slots \cup {Absent}], fence : 0 .. n]
          /\ staging'[g] = [staging[g] EXCEPT !.fence = Passed(@)]
      BY <1>0, <3>2 DEF TypeOK, TransferStep
    <3>4. staging'[g].table = staging[g].table /\ staging'[g].fence = Passed(staging[g].fence)
          /\ staging[g].fence \in Nat
      BY <1>1, <3>3
    <3>5. Passed(staging[g].fence) >= k  BY <3>1, <3>2, <3>4 DEF Passed
    <3> QED  BY <3>1, <3>2, <3>4, <3>5
  <2> QED  BY <1>1, <2>1, <2>2 DEF SourcesHeld
<1>9. ClaimsHold'
  <2>1. \A s : Overwrites(s)' <=> Overwrites(s)
    BY <1>3 DEF Overwrites, Overwritten, Admissions
  <2>2. Admissions(plan)' = Admissions(plan)  BY <1>3 DEF Admissions
  <2> QED  BY <1>0, <1>3, <1>4, <2>1, <2>2 DEF ClaimsHold
<1>10. ReplaysSafe'
  <2> SUFFICES ASSUME NEW k \in DOMAIN consumer, consumer[k].op = "Replay",
                      NEW q \in Passed(Reached(k)) .. n - 1,
                      \A j \in 1 .. q : ~WaitsFor(j, k)',
                      NEW i \in consumer[k].items
               PROVE  \E s \in Slots : Leads(i, s, q)' /\ Holds(s, i, q)'
    BY <1>1, <1>2 DEF ReplaysSafe
  <2>1. Reached(k) \in 0 .. n /\ i \in Items  BY <1>0, ConsumerFacts
  <2>2. q \in 0 .. n - 1 /\ q + 1 \in Reached(k) .. n  BY <1>1, <2>1 DEF Passed
  <2>3. ASSUME NEW j \in 1 .. q + 1 PROVE ~WaitsFor(j, k)
    <3>1. CASE j = 1  BY <1>2, <3>1
    <3>2. CASE j # 1
      <4>1. j - 1 \in 1 .. q /\ j - 1 \in 1 .. n - 1 /\ (j - 1) + 1 = j  BY <1>1, <2>2, <3>2
      <4>2. ~WaitsFor(j - 1, k)'  BY <4>1
      <4> QED  BY <1>2, <4>1, <4>2
    <3> QED  BY <3>1, <3>2
  <2>4. PICK s \in Slots : Leads(i, s, q + 1) /\ Holds(s, i, q + 1)
    BY <1>0, <2>2, <2>3 DEF ReplaysSafe
  <2> QED  BY <1>0, <2>1, <2>2, <2>4, Popped
<1>11. ReplaysHeld'
  <2> SUFFICES ASSUME ~poisoned, NEW k \in DOMAIN consumer, consumer[k].op = "Replay"
               PROVE  Held(k)' \/ \E j \in DOMAIN transfer' : WaitsFor(j, k)'
    BY <1>2, <1>3 DEF ReplaysHeld
  <2>1. CASE Held(k)
    <3>1. consumer[k].items \subseteq Items /\ consumer'[k].items = consumer[k].items
      BY <1>0, <1>2, ConsumerFacts
    <3>2. \A s : Overwrites(s)' <=> Overwrites(s)
      BY <1>3 DEF Overwrites, Overwritten, Admissions
    <3> QED  BY <1>3, <1>4, <2>1, <3>1, <3>2 DEF Held
  <2>2. CASE \E j \in DOMAIN transfer : WaitsFor(j, k)
    <3>1. PICK j \in DOMAIN transfer : WaitsFor(j, k)  BY <2>2
    <3>2. j # 1  BY <1>2, <3>1
    <3>3. j - 1 \in 1 .. n - 1 /\ (j - 1) + 1 = j  BY <1>1, <3>2
    <3> QED  BY <1>1, <1>2, <3>1, <3>3
  <2> QED  BY <1>0, <2>1, <2>2 DEF ReplaysHeld
<1>12. CurrentHeld'  BY <1>0, <1>3 DEF CurrentHeld
<1> QED  BY <1>5, <1>6, <1>7, <1>8, <1>9, <1>10, <1>11, <1>12 DEF IInv

(* A step of the consumer stream.                                          *)
LEMMA ConsumerStepTypes ==
    ASSUME TypeOK, ConsumerStep
    PROVE  TypeOK'
<1> DEFINE m == Len(consumer)
<1>1. /\ m \in Nat \ {0} /\ Len(consumer') = m - 1 /\ consumer' \in Seq(Replays)
      /\ transfer' \in Seq(Transfers') /\ Len(transfer') = Len(transfer)
  BY ConsumerPasses
<1>2. Replays' = Replays  BY <1>1 DEF Replays, Waits
<1>3. \A f \in 0 .. m : Passed(f) \in 0 .. Len(consumer')  BY <1>1 DEF Passed
<1> HIDE DEF m
<1>4. UNCHANGED <<cache, call, poisoned, publication, rings, current, unreleased, device>>
  BY DEF ConsumerStep
<1>5. /\ item_slot' = item_slot /\ slot_item' = slot_item /\ recency' = recency
      /\ pinned_round' = pinned_round /\ round' = round
      /\ pc' = pc /\ uploads' = uploads /\ plan' = plan /\ stalls' = stalls
      /\ poisoned' = poisoned /\ unreleased' = unreleased /\ publication' = publication
      /\ stage' = stage /\ cursor' = cursor /\ current' = current
      /\ staging' = staging /\ bounce' = bounce /\ slots' = slots /\ table' = table
  BY <1>4 DEF cache, call, rings, device
<1>6. /\ reclaims' \in Seq([generation : 0 .. MaxRounds, fence : 0 .. Len(consumer')])
      /\ Len(reclaims') = Len(reclaims)
  <2> DEFINE R == [generation : 0 .. MaxRounds, fence : 0 .. Len(consumer')]
             next(k) == [reclaims[k] EXCEPT !.fence = Passed(@)]
  <2>1. /\ Len(reclaims) \in Nat /\ DOMAIN reclaims = 1 .. Len(reclaims)
        /\ \A k \in DOMAIN reclaims :
              reclaims[k] \in [generation : 0 .. MaxRounds, fence : 0 .. m]
    BY ReclaimShapes DEF m
  <2>2. reclaims' = [k \in DOMAIN reclaims |-> next(k)]  BY DEF ConsumerStep
  <2>3. \A k \in DOMAIN reclaims : next(k) \in R  BY <1>3, <2>1
  <2> HIDE DEF R, next
  <2>4. reclaims' \in [1 .. Len(reclaims) -> R]  BY <2>1, <2>2, <2>3
  <2>5. reclaims' \in Seq(R) /\ DOMAIN reclaims' = 1 .. Len(reclaims)  BY <2>1, <2>4, SeqDef
  <2>6. Len(reclaims') = Len(reclaims)  BY <2>1, <2>5, LenProperties
  <2> QED  BY <2>5, <2>6 DEF R
<1>7. {stalls', poisoned', unreleased'} \subseteq BOOLEAN  BY <1>5 DEF TypeOK
<1>8. Len(reclaims') <= RECLAIM_FENCE_GENERATIONS  BY <1>6 DEF TypeOK
<1>9. /\ publication' \in 0 .. Len(transfer')
      /\ staging' \in [Stages -> [table : [Items -> Slots \cup {Absent}], fence : 0 .. Len(transfer')]]
      /\ bounce' \in [Bounces -> [item : Items \cup {Absent}, fence : 0 .. Len(transfer')]]
  BY <1>1, <1>5 DEF TypeOK
<1> QED  BY <1>1, <1>2, <1>5, <1>6, <1>7, <1>8, <1>9 DEF TypeOK

LEMMA ConsumerStepKeeps ==
    ASSUME IInv, ConsumerStep
    PROVE  IInv'
<1> DEFINE m == Len(consumer)
<1>0. TypeOK /\ CacheSound /\ CallSound /\ SourcesHeld /\ ClaimsHold /\ ReplaysSafe
      /\ ReplaysHeld /\ CurrentHeld
  BY DEF IInv
<1>1. /\ m \in Nat \ {0} /\ DOMAIN consumer' = 1 .. m - 1 /\ DOMAIN consumer = 1 .. m
      /\ \A k \in 1 .. m - 1 : consumer'[k] = consumer[k + 1]
  BY <1>0, ConsumerPasses, ConsumerFacts
<1>2. /\ Len(transfer') = Len(transfer) /\ Len(transfer) \in Nat
      /\ DOMAIN transfer' = DOMAIN transfer /\ DOMAIN transfer = 1 .. Len(transfer)
      /\ \A j \in DOMAIN transfer :
            /\ transfer'[j].op = transfer[j].op
            /\ transfer[j].op # "Wait" => transfer'[j] = transfer[j]
      /\ \A k \in 1 .. m - 1 : Reached(k)' = Reached(k + 1)
      /\ \A k \in 1 .. m - 1 : \A j \in DOMAIN transfer :
            WaitsFor(j, k)' <=> WaitsFor(j, k + 1)
  BY <1>0, ConsumerPasses, TransferFacts
<1>3. \A s, i : \A q \in 0 .. Len(transfer) :
         /\ Holds(s, i, q)' <=> Holds(s, i, q)
         /\ Leads(i, s, q)' <=> Leads(i, s, q)
  BY <1>0, ConsumerPasses
<1>4. /\ item_slot' = item_slot /\ slot_item' = slot_item /\ recency' = recency
      /\ pinned_round' = pinned_round /\ round' = round
      /\ pc' = pc /\ uploads' = uploads /\ plan' = plan /\ stalls' = stalls
      /\ poisoned' = poisoned /\ publication' = publication /\ current' = current
      /\ staging' = staging /\ bounce' = bounce
  BY DEF ConsumerStep, cache, call, rings
<1>5. /\ reclaims' = [r \in DOMAIN reclaims |-> [reclaims[r] EXCEPT !.fence = Passed(@)]]
      /\ DOMAIN reclaims' = DOMAIN reclaims
  BY DEF ConsumerStep
<1>6. ASSUME NEW r \in DOMAIN reclaims
      PROVE  /\ reclaims'[r].generation = reclaims[r].generation
             /\ reclaims'[r].fence = Passed(reclaims[r].fence)
             /\ reclaims[r].fence \in Nat
  <2>1. reclaims[r] \in [generation : 0 .. MaxRounds, fence : 0 .. m]
    BY <1>0, ReclaimShapes
  <2> QED  BY <1>1, <1>5, <2>1
<1>7. /\ \A s, i : WillHold(s, i) => WillHold(s, i)'
      /\ \A i, s : WillLead(i, s) => WillLead(i, s)'
  BY <1>0, ConsumerPassesEnd
<1>8. \A s : Overwrites(s)' <=> Overwrites(s)
  BY <1>4 DEF Overwrites, Overwritten, Admissions
<1>9. /\ Admissions(plan)' = Admissions(plan) /\ Asked(plan)' = Asked(plan)
      /\ PlanSound(plan)' <=> PlanSound(plan)
  BY <1>4 DEF PlanSound, Admissions, Asked
<1>10. TypeOK'  BY <1>0, ConsumerStepTypes
<1>11. CacheSound'  BY <1>0, <1>4 DEF CacheSound
<1>12. CallSound'  BY <1>0, <1>2, <1>4, <1>9 DEF CallSound
<1>13. SourcesHeld'  BY <1>0, <1>2, <1>4 DEF SourcesHeld
<1>14. ClaimsHold'  BY <1>0, <1>4, <1>7, <1>8, <1>9 DEF ClaimsHold
<1>15. ReplaysSafe'
  <2> SUFFICES ASSUME NEW k \in 1 .. m - 1, consumer[k + 1].op = "Replay",
                      NEW q \in Reached(k + 1) .. Len(transfer),
                      \A j \in 1 .. q : ~WaitsFor(j, k)',
                      NEW i \in consumer[k + 1].items
               PROVE  \E s \in Slots : Leads(i, s, q)' /\ Holds(s, i, q)'
    BY <1>1, <1>2 DEF ReplaysSafe
  <2>1. k + 1 \in DOMAIN consumer  BY <1>1
  <2>2. q \in 0 .. Len(transfer) /\ \A j \in 1 .. q : j \in DOMAIN transfer
    BY <1>0, <1>2, <2>1, ConsumerFacts
  <2>3. PICK s \in Slots : Leads(i, s, q) /\ Holds(s, i, q)
    BY <1>0, <1>2, <2>1, <2>2 DEF ReplaysSafe
  <2> QED  BY <1>3, <2>2, <2>3
<1>16. ReplaysHeld'
  <2> SUFFICES ASSUME ~poisoned, NEW k \in 1 .. m - 1, consumer[k + 1].op = "Replay"
               PROVE  Held(k)' \/ \E j \in DOMAIN transfer : WaitsFor(j, k)'
    BY <1>1, <1>2, <1>4 DEF ReplaysHeld
  <2>1. k + 1 \in DOMAIN consumer /\ k \in Nat  BY <1>1
  <2>2. CASE Held(k + 1)
    <3>1. \A r \in DOMAIN reclaims : reclaims[r].fence >= k + 1 => reclaims'[r].fence >= k
      BY <1>6, <2>1 DEF Passed
    <3> QED  BY <1>1, <1>4, <1>5, <1>6, <1>7, <1>8, <2>2, <3>1 DEF Held
  <2>3. CASE \E j \in DOMAIN transfer : WaitsFor(j, k + 1)  BY <1>2, <2>3
  <2> QED  BY <1>0, <2>1, <2>2, <2>3 DEF ReplaysHeld
<1>17. CurrentHeld'  BY <1>0, <1>4, <1>5, <1>6 DEF CurrentHeld
<1> QED  BY <1>10, <1>11, <1>12, <1>13, <1>14, <1>15, <1>16, <1>17 DEF IInv

-----------------------------------------------------------------------------
(* What the host adds to the transfer stream is not read by a replay that  *)
(* it could harm.                                                          *)

LEMMA PushedFrame ==
    ASSUME TypeOK, NEW op \in Transfers, transfer' = Append(transfer, op),
           UNCHANGED consumer
    PROVE  /\ Len(transfer') = Len(transfer) + 1 /\ Len(transfer) \in Nat
           /\ DOMAIN transfer' = 1 .. Len(transfer) + 1 /\ DOMAIN transfer = 1 .. Len(transfer)
           /\ transfer' \in Seq(Transfers') /\ consumer' \in Seq(Replays')
           /\ transfer'[Len(transfer) + 1] = op
           /\ \A j \in DOMAIN transfer : transfer'[j] = transfer[j]
           /\ \A k : Reached(k)' = Reached(k)
           /\ \A k : \A j \in DOMAIN transfer : WaitsFor(j, k)' <=> WaitsFor(j, k)
           /\ \A k, j : j = Len(transfer) + 1 =>
                 (op.op = "Wait" /\ op.left >= k => WaitsFor(j, k)')
<1> DEFINE n == Len(transfer)
<1>1. n \in Nat /\ DOMAIN transfer = 1 .. n /\ transfer \in Seq(Transfers)
  BY TransferFacts DEF TypeOK
<1>2. /\ transfer' \in Seq(Transfers) /\ Len(transfer') = n + 1 /\ transfer'[n + 1] = op
      /\ \A j \in 1 .. n : transfer'[j] = transfer[j]
  BY <1>1, AppendProperties
<1>3. DOMAIN transfer' = 1 .. n + 1  BY <1>2, LenProperties
<1>4. Transfers' = Transfers  BY DEF Transfers, Waits
<1>5. consumer' \in Seq(Replays')
  <2> DEFINE R == Replays'
  <2>1. 0 .. n \subseteq 0 .. Len(transfer')  BY <1>1, <1>2
  <2>2. Replays \subseteq R  BY <2>1 DEF Replays, Waits
  <2>3. consumer \in Seq(Replays)  BY DEF TypeOK
  <2> HIDE DEF R
  <2>4. consumer \in Seq(R)  BY <2>2, <2>3, SeqWidens
  <2> QED  BY <2>4 DEF R
<1>6. \A k : Reached(k)' = Reached(k)  BY DEF Reached
<1>7. \A k : \A j \in DOMAIN transfer : WaitsFor(j, k)' <=> WaitsFor(j, k)
  BY <1>1, <1>2 DEF WaitsFor
<1>8. ASSUME NEW k, NEW j, j = n + 1, op.op = "Wait", op.left >= k PROVE WaitsFor(j, k)'
  BY <1>2, <1>8 DEF WaitsFor
<1> QED  BY <1>1, <1>2, <1>3, <1>4, <1>5, <1>6, <1>7, <1>8

LEMMA PushSafe ==
    ASSUME TypeOK, ReplaysSafe, NEW op \in Transfers, transfer' = Append(transfer, op),
           UNCHANGED <<consumer, device>>,
           \A k \in DOMAIN consumer : consumer[k].op = "Replay" =>
              \/ \E j \in DOMAIN transfer : WaitsFor(j, k)
              \/ op.op = "Wait" /\ op.left >= k
              \/ \A i \in consumer[k].items : \E s \in Slots : WillLead(i, s)' /\ WillHold(s, i)'
    PROVE  ReplaysSafe'
<1> DEFINE n == Len(transfer)
<1>0. UNCHANGED consumer /\ UNCHANGED device /\ consumer' = consumer  OBVIOUS
<1>1. /\ Len(transfer') = n + 1 /\ n \in Nat /\ DOMAIN transfer = 1 .. n
      /\ \A k : Reached(k)' = Reached(k)
      /\ \A k : \A j \in DOMAIN transfer : WaitsFor(j, k)' <=> WaitsFor(j, k)
      /\ \A k, j : j = n + 1 => (op.op = "Wait" /\ op.left >= k => WaitsFor(j, k)')
  BY <1>0, PushedFrame
<1>2. \A s, i : \A q \in 0 .. n :
         /\ Holds(s, i, q)' <=> Holds(s, i, q)
         /\ Leads(i, s, q)' <=> Leads(i, s, q)
  BY <1>0, Pushed
<1> SUFFICES ASSUME NEW k \in DOMAIN consumer, consumer[k].op = "Replay",
                    NEW q \in Reached(k) .. n + 1,
                    \A j \in 1 .. q : ~WaitsFor(j, k)',
                    NEW i \in consumer[k].items
             PROVE  \E s \in Slots : Leads(i, s, q)' /\ Holds(s, i, q)'
  BY <1>0, <1>1 DEF ReplaysSafe
<1>3. Reached(k) \in 0 .. n  BY ConsumerFacts
<1>4. CASE q \in 0 .. n
  <2>1. q \in Reached(k) .. n /\ \A j \in 1 .. q : j \in DOMAIN transfer  BY <1>1, <1>3, <1>4
  <2>2. \A j \in 1 .. q : ~WaitsFor(j, k)  BY <1>1, <2>1
  <2>3. PICK s \in Slots : Leads(i, s, q) /\ Holds(s, i, q)  BY <2>1, <2>2 DEF ReplaysSafe
  <2> QED  BY <1>2, <1>4, <2>3
<1>5. CASE q = n + 1
  <2>1. q \in 1 .. q /\ \A j \in DOMAIN transfer : j \in 1 .. q  BY <1>1, <1>5
  <2>2. ~(op.op = "Wait" /\ op.left >= k)  BY <1>1, <1>5, <2>1
  <2>3. ~\E j \in DOMAIN transfer : WaitsFor(j, k)  BY <1>1, <2>1
  <2>4. PICK s \in Slots : WillLead(i, s)' /\ WillHold(s, i)'  BY <2>2, <2>3
  <2>5. q = Len(transfer')  BY <1>1, <1>5
  <2> QED  BY <2>4, <2>5, AtEndNext
<1> QED  BY <1>1, <1>3, <1>4, <1>5

(* What a held replay reads will be there.                                 *)
LEMMA HeldIsThere ==
    ASSUME TypeOK, ClaimsHold, ~poisoned, NEW k \in DOMAIN consumer,
           consumer[k].op = "Replay", Held(k), NEW i \in consumer[k].items
    PROVE  /\ i \in Items
           /\ \E s \in Slots :
                 /\ item_slot[i] = s /\ ~Overwrites(s) /\ WillLead(i, s) /\ WillHold(s, i)
                 /\ \A r \in DOMAIN reclaims :
                       reclaims[r].generation >= pinned_round[s] => reclaims[r].fence >= k
<1>1. i \in Items  BY ConsumerFacts
<1>2. PICK s \in Slots :
        /\ item_slot[i] = s /\ ~Overwrites(s) /\ WillLead(i, s)
        /\ \A r \in DOMAIN reclaims :
              reclaims[r].generation >= pinned_round[s] => reclaims[r].fence >= k
  BY DEF Held
<1>3. WillHold(s, i)  BY <1>1, <1>2 DEF ClaimsHold
<1> QED  BY <1>1, <1>2, <1>3

(* wait_reclaim waits for every replay that all covering releases follow.  *)
LEMMA ReclaimIsWaited ==
    ASSUME TypeOK, NEW need \in Nat, need = 0 \/ Covering(need) # {},
           transfer' = transfer \o WaitReclaim(need)
    PROVE  \/ need = 0 /\ transfer' = transfer
           \/ \E op \in Transfers :
                 /\ op.op = "Wait" /\ transfer' = Append(transfer, op)
                 /\ \E r \in DOMAIN reclaims :
                       reclaims[r].generation >= need /\ op.left = reclaims[r].fence
<1>1. transfer \in Seq(Transfers)  BY DEF TypeOK
<1>2. CASE need = 0
  <2>1. transfer' = transfer \o << >>  BY <1>2 DEF WaitReclaim
  <2> QED  BY <1>1, <1>2, <2>1, ConcatEmptySeq
<1>3. CASE need # 0
  <2> DEFINE r == Min(Covering(need))  op == Wait(reclaims[r].fence)
  <2>1. /\ DOMAIN reclaims = 1 .. Len(reclaims) /\ Len(reclaims) \in Nat
        /\ \A k \in DOMAIN reclaims :
              reclaims[k] \in [generation : 0 .. MaxRounds, fence : 0 .. Len(consumer)]
    BY ReclaimShapes
  <2>2. Covering(need) \in SUBSET Nat /\ Covering(need) # {}  BY <1>3, <2>1 DEF Covering
  <2>3. r \in Covering(need)  BY <2>2, MinIsLeast
  <2> HIDE DEF r
  <2>4. r \in DOMAIN reclaims /\ reclaims[r].generation >= need  BY <2>3 DEF Covering
  <2>5. reclaims[r].fence \in 0 .. Len(consumer)  BY <2>1, <2>4
  <2>6. op \in Transfers /\ op.op = "Wait" /\ op.left = reclaims[r].fence
    BY <2>5 DEF Transfers, Waits, Wait
  <2>7. transfer' = transfer \o << op >>  BY <1>3 DEF WaitReclaim, r
  <2> HIDE DEF op
  <2>8. transfer' = Append(transfer, op)  BY <1>1, <2>6, <2>7, AppendIsConcat
  <2> QED  BY <2>4, <2>6, <2>8
<1> QED  BY <1>2, <1>3

(* After it, every replay is waited for, or held and reads only slots of   *)
(* younger readers.                                                        *)
LEMMA ReclaimKeeps ==
    ASSUME IInv, ~poisoned, NEW need \in Nat, need = 0 \/ Covering(need) # {},
           transfer' = transfer \o WaitReclaim(need),
           UNCHANGED <<reclaims, rings, consumer, device>>
    PROVE  /\ Len(transfer') \in {Len(transfer), Len(transfer) + 1} /\ Len(transfer) \in Nat
           /\ transfer' \in Seq(Transfers') /\ consumer' \in Seq(Replays')
           /\ \A i, s : /\ WillHold(s, i) => WillHold(s, i)'
                        /\ WillLead(i, s) => WillLead(i, s)'
           /\ SourcesHeld' /\ ReplaysSafe'
           /\ \A k \in DOMAIN consumer : consumer[k].op = "Replay" =>
                 \/ \E j \in DOMAIN transfer' : WaitsFor(j, k)'
                 \/ /\ Held(k)
                    /\ \A i \in consumer[k].items : \A s \in Slots :
                          item_slot[i] = s => need < pinned_round[s]
<1>0. TypeOK /\ CacheSound /\ SourcesHeld /\ ClaimsHold /\ ReplaysSafe /\ ReplaysHeld
  BY DEF IInv
<1>1. UNCHANGED consumer /\ UNCHANGED device /\ UNCHANGED reclaims
      /\ staging' = staging /\ bounce' = bounce
  BY DEF rings
<1>2. Len(transfer) \in Nat /\ DOMAIN transfer = 1 .. Len(transfer)  BY <1>0, TransferFacts
<1>3. ASSUME NEW k \in DOMAIN consumer, consumer[k].op = "Replay",
             ~\E j \in DOMAIN transfer : WaitsFor(j, k)
      PROVE  Held(k)
  BY <1>0, <1>3 DEF ReplaysHeld
<1>4. ASSUME NEW k \in DOMAIN consumer, consumer[k].op = "Replay", Held(k),
             NEW i \in consumer[k].items, NEW s \in Slots, item_slot[i] = s,
             ~(need < pinned_round[s])
      PROVE  /\ need # 0
             /\ \A r \in DOMAIN reclaims :
                   reclaims[r].generation >= need => reclaims[r].fence >= k
  <2>1. /\ i \in Items
        /\ \A r \in DOMAIN reclaims :
              reclaims[r].generation >= pinned_round[s] => reclaims[r].fence >= k
    BY <1>0, <1>4, HeldIsThere
  <2>2. i # Absent /\ s # Absent  BY <2>1, Constants
  <2>3. slot_item[s] = i  BY <1>0, <1>4, <2>1, <2>2 DEF CacheSound
  <2>4. pinned_round[s] > 0  BY <1>0, <2>2, <2>3 DEF CacheSound
  <2>5. pinned_round[s] \in Nat  BY <1>0 DEF TypeOK
  <2>6. pinned_round[s] <= need /\ need # 0  BY <1>4, <2>4, <2>5
  <2>7. \A r \in DOMAIN reclaims : reclaims[r].generation \in Nat
    <3>1. \A r \in DOMAIN reclaims :
            reclaims[r] \in [generation : 0 .. MaxRounds, fence : 0 .. Len(consumer)]
      BY <1>0, ReclaimShapes
    <3> QED  BY <3>1
  <2> QED  BY <2>1, <2>5, <2>6, <2>7
<1>5. CASE need = 0 /\ transfer' = transfer
  <2>1. slots' = slots /\ table' = table  BY <1>1 DEF device
  <2>2. \A s, i, q : /\ Holds(s, i, q)' <=> Holds(s, i, q)
                     /\ Leads(i, s, q)' <=> Leads(i, s, q)
    BY <1>5, <2>1, FrameHolds
  <2>3. \A i, s : /\ WillHold(s, i) => WillHold(s, i)'
                  /\ WillLead(i, s) => WillLead(i, s)'
    BY <1>5, <2>1 DEF WillHold, WillLead, Holds, Leads, Written
  <2>4. SourcesHeld'  BY <1>0, <1>1, <1>5 DEF SourcesHeld
  <2>5. /\ \A k : Reached(k)' = Reached(k)
        /\ \A j, k : WaitsFor(j, k)' <=> WaitsFor(j, k)
    BY <1>1, <1>5 DEF Reached, WaitsFor
  <2>6. ReplaysSafe'  BY <1>0, <1>1, <1>5, <2>2, <2>5 DEF ReplaysSafe
  <2>7. transfer' \in Seq(Transfers') /\ consumer' \in Seq(Replays')
    BY <1>0, <1>1, <1>5 DEF TypeOK, Transfers, Replays, Waits
  <2>8. ASSUME NEW k \in DOMAIN consumer, consumer[k].op = "Replay",
               ~\E j \in DOMAIN transfer' : WaitsFor(j, k)'
        PROVE  /\ Held(k)
               /\ \A i \in consumer[k].items : \A s \in Slots :
                     item_slot[i] = s => need < pinned_round[s]
    <3>1. Held(k)  BY <1>3, <1>5, <2>5, <2>8
    <3> QED  BY <1>4, <1>5, <2>8, <3>1
  <2> QED  BY <1>2, <1>5, <2>3, <2>4, <2>6, <2>7, <2>8
<1>6. CASE \E op \in Transfers :
             /\ op.op = "Wait" /\ transfer' = Append(transfer, op)
             /\ \E r \in DOMAIN reclaims :
                   reclaims[r].generation >= need /\ op.left = reclaims[r].fence
  <2>1. PICK op \in Transfers :
             /\ op.op = "Wait" /\ transfer' = Append(transfer, op)
             /\ \E r \in DOMAIN reclaims :
                   reclaims[r].generation >= need /\ op.left = reclaims[r].fence
    BY <1>6
  <2>2. /\ Len(transfer') = Len(transfer) + 1
        /\ DOMAIN transfer' = 1 .. Len(transfer) + 1
        /\ transfer' \in Seq(Transfers') /\ consumer' \in Seq(Replays')
        /\ transfer'[Len(transfer) + 1] = op
        /\ \A j \in DOMAIN transfer : transfer'[j] = transfer[j]
        /\ \A k : \A j \in DOMAIN transfer : WaitsFor(j, k)' <=> WaitsFor(j, k)
        /\ \A k, j : j = Len(transfer) + 1 =>
              (op.op = "Wait" /\ op.left >= k => WaitsFor(j, k)')
    BY <1>0, <1>1, <2>1, PushedFrame
  <2>3. \A i, s : /\ WillHold(s, i) => WillHold(s, i)'
                  /\ WillLead(i, s) => WillLead(i, s)'
    BY <1>0, <1>1, <2>1, PushedEnd
  <2>4. SourcesHeld'
    <3>1. \A k \in DOMAIN transfer' : k \in DOMAIN transfer \/ transfer'[k].op = "Wait"
      BY <1>2, <2>1, <2>2
    <3> QED  BY <1>0, <1>1, <2>2, <3>1 DEF SourcesHeld
  <2>5. ReplaysSafe'
    <3>1. ASSUME NEW k \in DOMAIN consumer, consumer[k].op = "Replay",
                 ~\E j \in DOMAIN transfer : WaitsFor(j, k), NEW i \in consumer[k].items
          PROVE  \E s \in Slots : WillLead(i, s)' /\ WillHold(s, i)'
      <4>1. Held(k)  BY <1>3, <3>1
      <4>2. PICK s \in Slots : WillLead(i, s) /\ WillHold(s, i)  BY <1>0, <3>1, <4>1, HeldIsThere
      <4> QED  BY <2>3, <4>2
    <3> QED  BY <1>0, <1>1, <2>1, <3>1, PushSafe
  <2>6. ASSUME NEW k \in DOMAIN consumer, consumer[k].op = "Replay",
               ~\E j \in DOMAIN transfer' : WaitsFor(j, k)'
        PROVE  /\ Held(k)
               /\ \A i \in consumer[k].items : \A s \in Slots :
                     item_slot[i] = s => need < pinned_round[s]
    <3>1. DOMAIN transfer \subseteq DOMAIN transfer' /\ Len(transfer) + 1 \in DOMAIN transfer'
      BY <1>2, <2>2
    <3>2. Held(k)  BY <1>3, <2>2, <2>6, <3>1
    <3>3. ~(op.left >= k)  BY <2>1, <2>2, <2>6, <3>1
    <3>4. PICK r \in DOMAIN reclaims :
            reclaims[r].generation >= need /\ op.left = reclaims[r].fence
      BY <2>1
    <3> QED  BY <1>4, <2>6, <3>2, <3>3, <3>4
  <2> QED  BY <1>2, <2>2, <2>3, <2>4, <2>5, <2>6
<1> QED  BY <1>0, <1>5, <1>6, ReclaimIsWaited

-----------------------------------------------------------------------------
(* The calls of the host keep the invariant.                               *)

(* A call that leaves streams and device alone.                            *)
LEMMA StreamsKept ==
    ASSUME TypeOK, SourcesHeld, ReplaysSafe, UNCHANGED <<transfer, consumer, rings, device>>
    PROVE  /\ transfer' \in Seq(Transfers') /\ consumer' \in Seq(Replays')
           /\ \A i, s : /\ WillHold(s, i) => WillHold(s, i)'
                        /\ WillLead(i, s) => WillLead(i, s)'
           /\ \A j, k : WaitsFor(j, k)' <=> WaitsFor(j, k)
           /\ SourcesHeld' /\ ReplaysSafe'
<1>1. /\ transfer' = transfer /\ consumer' = consumer /\ staging' = staging
      /\ bounce' = bounce /\ slots' = slots /\ table' = table
  BY DEF rings, device
<1>2. \A s, i, q : /\ Holds(s, i, q)' <=> Holds(s, i, q)
                   /\ Leads(i, s, q)' <=> Leads(i, s, q)
  BY <1>1, FrameHolds
<1>3. \A i, s : /\ WillHold(s, i) => WillHold(s, i)'
                /\ WillLead(i, s) => WillLead(i, s)'
  BY <1>1 DEF WillHold, WillLead, Holds, Leads, Written
<1>4. \A j, k : WaitsFor(j, k)' <=> WaitsFor(j, k)  BY <1>1 DEF WaitsFor
<1>5. \A k : Reached(k)' = Reached(k)  BY <1>1 DEF Reached
<1>6. SourcesHeld'  BY <1>1 DEF SourcesHeld
<1>7. ReplaysSafe'  BY <1>1, <1>2, <1>4, <1>5 DEF ReplaysSafe
<1>8. transfer' \in Seq(Transfers') /\ consumer' \in Seq(Replays')
  BY <1>1 DEF TypeOK, Transfers, Replays, Waits
<1> QED  BY <1>3, <1>4, <1>6, <1>7, <1>8

(* The fences of the transfer stream as it grows.                          *)
LEMMA FencesKept ==
    ASSUME TypeOK, Len(transfer') \in {Len(transfer), Len(transfer) + 1},
           UNCHANGED <<publication, rings>>
    PROVE  /\ publication' \in 0 .. Len(transfer')
           /\ stage' \in Stages /\ (BounceSlots > 0 => cursor' \in Bounces)
           /\ staging' \in [Stages -> [table : [Items -> Slots \cup {Absent}],
                                       fence : 0 .. Len(transfer')]]
           /\ bounce' \in [Bounces -> [item : Items \cup {Absent}, fence : 0 .. Len(transfer')]]
<1>1. Len(transfer) \in Nat  BY TransferFacts
<1>2. 0 .. Len(transfer) \subseteq 0 .. Len(transfer')  BY <1>1
<1>3. /\ publication' = publication /\ stage' = stage /\ staging' = staging
      /\ cursor' = cursor /\ bounce' = bounce
  BY DEF rings
<1>4. publication' \in 0 .. Len(transfer')  BY <1>2, <1>3 DEF TypeOK
<1>5. stage' \in Stages /\ (BounceSlots > 0 => cursor' \in Bounces)  BY <1>3 DEF TypeOK
<1>6. staging' \in [Stages -> [table : [Items -> Slots \cup {Absent}], fence : 0 .. Len(transfer')]]
  <2>1. staging \in [Stages -> [table : [Items -> Slots \cup {Absent}], fence : 0 .. Len(transfer)]]
    BY DEF TypeOK
  <2>2. [table : [Items -> Slots \cup {Absent}], fence : 0 .. Len(transfer)] \subseteq
           [table : [Items -> Slots \cup {Absent}], fence : 0 .. Len(transfer')]
    BY <1>2
  <2> QED  BY <1>3, <2>1, <2>2
<1>7. bounce' \in [Bounces -> [item : Items \cup {Absent}, fence : 0 .. Len(transfer')]]
  <2>1. bounce \in [Bounces -> [item : Items \cup {Absent}, fence : 0 .. Len(transfer)]]
    BY DEF TypeOK
  <2>2. [item : Items \cup {Absent}, fence : 0 .. Len(transfer)] \subseteq
           [item : Items \cup {Absent}, fence : 0 .. Len(transfer')]
    BY <1>2
  <2> QED  BY <1>3, <2>1, <2>2
<1> QED  BY <1>4, <1>5, <1>6, <1>7

LEMMA ReclaimGenerationCovers ==
    ASSUME TypeOK, NEW steps \in Seq(Steps)
    PROVE  /\ ReclaimGeneration(steps) \in Nat
           /\ \A s \in Overwritten(steps) : pinned_round[s] <= ReclaimGeneration(steps)
<1> DEFINE S == {0} \cup { pinned_round[steps[k].slot] : k \in Admissions(steps) }
<1>1. \A k \in Admissions(steps) : steps[k].slot \in Slots  BY StepFacts DEF Admissions
<1>9. pinned_round \in [Slots -> 0 .. MaxRounds] /\ 0 \in 0 .. MaxRounds
  BY Constants DEF TypeOK
<1>10. \A k \in Admissions(steps) : pinned_round[steps[k].slot] \in 0 .. MaxRounds
  BY <1>1, <1>9
<1>2. S \in SUBSET (0 .. MaxRounds) /\ S # {}  BY <1>9, <1>10
<1>3. ReclaimGeneration(steps) = Max(S)  BY DEF ReclaimGeneration
<1>4. \A s \in Overwritten(steps) : pinned_round[s] \in S  BY DEF Overwritten
<1> HIDE DEF S
<1>5. MaxRounds \in Nat  BY Constants
<1>6. Max(S) \in S /\ \A n \in S : n <= Max(S)  BY <1>2, <1>5, MaxIsGreatest
<1>8. Max(S) \in 0 .. MaxRounds  BY <1>2, <1>6
<1>7. Max(S) \in Nat  BY <1>5, <1>8
<1> QED  BY <1>3, <1>4, <1>6, <1>7

LEMMA RoundPlan ==
    ASSUME TypeOK, CacheSound, NEW items \in Requests, NEW stall \in BOOLEAN,
           Round(items, stall), NEW steps, steps = PlanRound(items)
    PROVE  /\ pc = "idle" /\ ~poisoned /\ round < MaxRounds
           /\ steps \in Seq(Steps) /\ PlanSound(steps)
           /\ uploads' = Admissions(steps) /\ plan' = steps /\ stalls' = stall
           /\ current' = Asked(steps) /\ current' \subseteq Items
           /\ UNCHANGED <<poisoned, publication, reclaims, rings, unreleased, consumer, device>>
           /\ Admissions(steps) = {} =>
                 Commit(steps) /\ pc' \in {"idle", "stall"} /\ transfer' = transfer
           /\ Admissions(steps) # {} =>
                 /\ ReclaimGeneration(steps) = 0 \/ Covering(ReclaimGeneration(steps)) # {}
                 /\ transfer' = transfer \o WaitReclaim(ReclaimGeneration(steps))
                 /\ pc' = "upload" /\ UNCHANGED cache
<1>1. items \in Seq(Items)  BY Constants
<1>2. pc = "idle" /\ ~poisoned /\ round < MaxRounds /\ Cardinality(ToSet(items)) <= SlotCount
  BY DEF Round, Ready, Admissible
<1>3. steps \in Seq(Steps) /\ PlanSound(steps) /\ Asked(steps) = ToSet(items)
  BY <1>1, <1>2, PlanRoundIsSound
<1>4. /\ uploads' = Admissions(steps) /\ plan' = steps /\ stalls' = stall
      /\ current' = ToSet(items)
      /\ UNCHANGED <<poisoned, publication, reclaims, rings, unreleased, consumer, device>>
  BY DEF Round
<1>5. Admissions(steps) = {} =>
         Commit(steps) /\ pc' \in {"idle", "stall"} /\ transfer' = transfer
  BY DEF Round
<1>6. Admissions(steps) # {} =>
         /\ ReclaimGeneration(steps) = 0 \/ Covering(ReclaimGeneration(steps)) # {}
         /\ transfer' = transfer \o WaitReclaim(ReclaimGeneration(steps))
         /\ pc' = "upload" /\ UNCHANGED cache
  BY DEF Round
<1>7. current' \subseteq Items  BY <1>3, <1>4, StepFacts DEF Asked
<1> QED  BY <1>2, <1>3, <1>4, <1>5, <1>6, <1>7

(* A round whose items are all resident.                                   *)
LEMMA HitRoundKeeps ==
    ASSUME IInv, NEW items \in Requests, NEW stall \in BOOLEAN, Round(items, stall),
           NEW steps, steps = PlanRound(items), Admissions(steps) = {}
    PROVE  IInv'
<1>0. TypeOK /\ CacheSound /\ CallSound /\ SourcesHeld /\ ClaimsHold /\ ReplaysSafe
      /\ ReplaysHeld /\ CurrentHeld
  BY DEF IInv
<1>1. /\ pc = "idle" /\ ~poisoned /\ round < MaxRounds
      /\ steps \in Seq(Steps) /\ PlanSound(steps)
      /\ uploads' = {} /\ plan' = steps /\ stalls' = stall
      /\ current' = Asked(steps) /\ current' \subseteq Items
      /\ poisoned' = poisoned /\ publication' = publication /\ reclaims' = reclaims
      /\ unreleased' = unreleased /\ consumer' = consumer /\ transfer' = transfer
      /\ UNCHANGED rings /\ UNCHANGED device
      /\ Commit(steps) /\ pc' \in {"idle", "stall"}
  BY <1>0, RoundPlan
<1>2. Overwritten(steps) = {}  BY DEF Overwritten
<1>3. /\ transfer' \in Seq(Transfers') /\ consumer' \in Seq(Replays')
      /\ \A i, s : /\ WillHold(s, i) => WillHold(s, i)'
                   /\ WillLead(i, s) => WillLead(i, s)'
      /\ \A j, k : WaitsFor(j, k)' <=> WaitsFor(j, k)
      /\ SourcesHeld' /\ ReplaysSafe'
  BY <1>0, <1>1, StreamsKept
<1>4. /\ item_slot' \in [Items -> Slots \cup {Absent}]
      /\ slot_item' \in [Slots -> Items \cup {Absent}]
      /\ recency' \in Seq(Slots)
      /\ pinned_round' \in [Slots -> 0 .. MaxRounds]
      /\ round \in Nat /\ round' = round + 1 /\ round' \in 0 .. MaxRounds
  BY <1>0, <1>1, CommitTypes
<1>5. \A i \in Items : item_slot'[i] = item_slot[i]
  <2> SUFFICES ASSUME NEW i \in Items PROVE item_slot'[i] = item_slot[i]  OBVIOUS
  <2>1. item_slot[i] # Absent => item_slot'[i] = item_slot[i]
    BY <1>0, <1>1, <1>2, CommitMoves
  <2>2. item_slot'[i] # Absent => item_slot'[i] = item_slot[i]
    BY <1>0, <1>1, CommitMoves
  <2> QED  BY <2>1, <2>2
<1>6. /\ \A k \in DOMAIN steps :
            /\ item_slot'[steps[k].item] = steps[k].slot
            /\ pinned_round'[steps[k].slot] = round'
      /\ \A s \in Slots : pinned_round'[s] >= pinned_round[s]
  BY <1>0, <1>1, CommitMoves
<1>7. TypeOK'
  <2>1. {stalls', poisoned', unreleased'} \subseteq BOOLEAN  BY <1>0, <1>1 DEF TypeOK
  <2>2. /\ publication' \in 0 .. Len(transfer')
        /\ stage' \in Stages /\ (BounceSlots > 0 => cursor' \in Bounces)
        /\ staging' \in [Stages -> [table : [Items -> Slots \cup {Absent}],
                                    fence : 0 .. Len(transfer')]]
        /\ bounce' \in [Bounces -> [item : Items \cup {Absent}, fence : 0 .. Len(transfer')]]
    BY <1>0, <1>1, FencesKept
  <2>3. /\ reclaims' \in Seq([generation : 0 .. MaxRounds, fence : 0 .. Len(consumer')])
        /\ Len(reclaims') <= RECLAIM_FENCE_GENERATIONS
        /\ slots' \in [Slots -> Items \cup {Absent}]
        /\ table' \in [Items -> Slots \cup {Absent}]
    BY <1>0, <1>1 DEF TypeOK, device
  <2> QED  BY <1>1, <1>3, <1>4, <2>1, <2>2, <2>3 DEF TypeOK
<1>8. CacheSound'  BY <1>0, <1>1, CommitSound
<1>9. CallSound'
  <2>1. publication = Len(transfer)  BY <1>0, <1>1 DEF CallSound
  <2> QED  BY <1>1, <2>1 DEF CallSound
<1>10. \A s : ~Overwrites(s) /\ ~Overwrites(s)'  BY <1>1 DEF Overwrites
<1>11. ClaimsHold'  BY <1>0, <1>1, <1>3, <1>5, <1>10 DEF ClaimsHold
<1>12. ReplaysHeld'
  <2> SUFFICES ASSUME NEW k \in DOMAIN consumer, consumer[k].op = "Replay", Held(k)
               PROVE  Held(k)'
    BY <1>0, <1>1, <1>3 DEF ReplaysHeld
  <2>1. ASSUME NEW i \in consumer[k].items
        PROVE  \E s \in Slots :
                  /\ item_slot'[i] = s /\ ~Overwrites(s)' /\ WillLead(i, s)'
                  /\ \A r \in DOMAIN reclaims' :
                        reclaims'[r].generation >= pinned_round'[s] => reclaims'[r].fence >= k
    <3>1. i \in Items  BY <1>0, <2>1, ConsumerFacts
    <3>2. PICK s \in Slots :
            /\ item_slot[i] = s /\ ~Overwrites(s) /\ WillLead(i, s)
            /\ \A r \in DOMAIN reclaims :
                  reclaims[r].generation >= pinned_round[s] => reclaims[r].fence >= k
      BY <2>1 DEF Held
    <3>3. pinned_round[s] \in Nat /\ pinned_round'[s] \in Nat /\ pinned_round'[s] >= pinned_round[s]
      BY <1>0, <1>4, <1>6 DEF TypeOK
    <3>4. \A r \in DOMAIN reclaims : reclaims[r].generation \in Nat  BY <1>0, ReclaimFacts
    <3>5. \A r \in DOMAIN reclaims :
            reclaims[r].generation >= pinned_round'[s] => reclaims[r].fence >= k
      BY <3>2, <3>3, <3>4
    <3> QED  BY <1>1, <1>3, <1>5, <1>10, <3>1, <3>2, <3>5
  <2> QED  BY <1>1, <2>1 DEF Held
<1>13. CurrentHeld'
  <2>1. \A r \in DOMAIN reclaims : reclaims[r].generation \in Nat /\ reclaims[r].generation <= round
    BY <1>0, ReclaimFacts DEF CurrentHeld
  <2>2. \A r \in DOMAIN reclaims' :
           reclaims'[r].generation <= round' /\ reclaims'[r].generation < round'
    BY <1>1, <1>4, <2>1
  <2>3. \A i \in current' : item_slot'[i] \in Slots /\ pinned_round'[item_slot'[i]] = round'
    BY <1>1, <1>6, StepFacts DEF Asked
  <2> QED  BY <2>2, <2>3, Constants DEF CurrentHeld
<1> QED  BY <1>3, <1>7, <1>8, <1>9, <1>11, <1>12, <1>13 DEF IInv

(* A round that has to upload.                                             *)
LEMMA MissRoundKeeps ==
    ASSUME IInv, NEW items \in Requests, NEW stall \in BOOLEAN, Round(items, stall),
           NEW steps, steps = PlanRound(items), Admissions(steps) # {}
    PROVE  IInv'
<1> DEFINE need == ReclaimGeneration(steps)
<1>0. TypeOK /\ CacheSound /\ CallSound /\ SourcesHeld /\ ClaimsHold /\ ReplaysSafe
      /\ ReplaysHeld /\ CurrentHeld
  BY DEF IInv
<1>1. /\ pc = "idle" /\ ~poisoned /\ round < MaxRounds
      /\ steps \in Seq(Steps) /\ PlanSound(steps)
      /\ uploads' = Admissions(steps) /\ plan' = steps /\ stalls' = stall
      /\ current' = Asked(steps) /\ current' \subseteq Items
      /\ UNCHANGED <<poisoned, publication, reclaims, rings, unreleased, consumer, device>>
      /\ need = 0 \/ Covering(need) # {}
      /\ transfer' = transfer \o WaitReclaim(need)
      /\ pc' = "upload" /\ UNCHANGED cache
  BY <1>0, RoundPlan
<1>2. /\ poisoned' = poisoned /\ publication' = publication /\ reclaims' = reclaims
      /\ unreleased' = unreleased /\ consumer' = consumer /\ slots' = slots /\ table' = table
      /\ item_slot' = item_slot /\ slot_item' = slot_item /\ recency' = recency
      /\ pinned_round' = pinned_round /\ round' = round
  BY <1>1 DEF cache, device
<1>3. need \in Nat /\ \A s \in Overwritten(steps) : pinned_round[s] <= need
  BY <1>0, <1>1, ReclaimGenerationCovers
<1> HIDE DEF need
<1>4. UNCHANGED <<reclaims, rings, consumer, device>>  BY <1>1
<1>5. /\ Len(transfer') \in {Len(transfer), Len(transfer) + 1} /\ Len(transfer) \in Nat
      /\ transfer' \in Seq(Transfers') /\ consumer' \in Seq(Replays')
      /\ \A i, s : /\ WillHold(s, i) => WillHold(s, i)'
                   /\ WillLead(i, s) => WillLead(i, s)'
      /\ SourcesHeld' /\ ReplaysSafe'
      /\ \A k \in DOMAIN consumer : consumer[k].op = "Replay" =>
            \/ \E j \in DOMAIN transfer' : WaitsFor(j, k)'
            \/ /\ Held(k)
               /\ \A i \in consumer[k].items : \A s \in Slots :
                     item_slot[i] = s => need < pinned_round[s]
  BY <1>1, <1>3, <1>4, ReclaimKeeps
<1>6. TypeOK'
  <2>1. {stalls', poisoned', unreleased'} \subseteq BOOLEAN  BY <1>0, <1>1, <1>2 DEF TypeOK
  <2>2. /\ publication' \in 0 .. Len(transfer')
        /\ stage' \in Stages /\ (BounceSlots > 0 => cursor' \in Bounces)
        /\ staging' \in [Stages -> [table : [Items -> Slots \cup {Absent}],
                                    fence : 0 .. Len(transfer')]]
        /\ bounce' \in [Bounces -> [item : Items \cup {Absent}, fence : 0 .. Len(transfer')]]
    BY <1>0, <1>1, <1>5, FencesKept
  <2>3. /\ reclaims' \in Seq([generation : 0 .. MaxRounds, fence : 0 .. Len(consumer')])
        /\ Len(reclaims') <= RECLAIM_FENCE_GENERATIONS
        /\ slots' \in [Slots -> Items \cup {Absent}]
        /\ table' \in [Items -> Slots \cup {Absent}]
        /\ item_slot' \in [Items -> Slots \cup {Absent}]
        /\ slot_item' \in [Slots -> Items \cup {Absent}]
        /\ recency' \in Seq(Slots)
        /\ pinned_round' \in [Slots -> 0 .. MaxRounds] /\ round' \in 0 .. MaxRounds
    BY <1>0, <1>2 DEF TypeOK
  <2>4. uploads' \subseteq DOMAIN plan'  BY <1>1 DEF Admissions
  <2> QED  BY <1>1, <1>5, <2>1, <2>2, <2>3, <2>4 DEF TypeOK
<1>7. CacheSound'  BY <1>0, <1>2 DEF CacheSound
<1>8. CallSound'
  <2>1. PlanSound(plan)'  BY <1>1, <1>2 DEF PlanSound, Admissions
  <2>2. Admissions(plan)' = Admissions(steps) /\ Asked(plan)' = Asked(steps)
    BY <1>1 DEF Admissions, Asked
  <2> QED  BY <1>1, <1>2, <2>1, <2>2 DEF CallSound
<1>9. \A s : /\ ~Overwrites(s)
             /\ Overwrites(s)' => s \in Overwritten(steps)
  BY <1>1 DEF Overwrites, Overwritten, Admissions
<1>10. ClaimsHold'
  <2>1. Admissions(plan)' \ uploads' = {}  BY <1>1 DEF Admissions
  <2> QED  BY <1>0, <1>1, <1>2, <1>5, <1>9, <2>1 DEF ClaimsHold
<1>11. ReplaysHeld'
  <2> SUFFICES ASSUME NEW k \in DOMAIN consumer, consumer[k].op = "Replay", Held(k),
                      \A i \in consumer[k].items : \A s \in Slots :
                         item_slot[i] = s => need < pinned_round[s]
               PROVE  Held(k)'
    BY <1>2, <1>5 DEF ReplaysHeld
  <2>1. ASSUME NEW i \in consumer[k].items
        PROVE  \E s \in Slots :
                  /\ item_slot[i] = s /\ ~Overwrites(s)' /\ WillLead(i, s)'
                  /\ \A r \in DOMAIN reclaims :
                        reclaims[r].generation >= pinned_round[s] => reclaims[r].fence >= k
    <3>1. PICK s \in Slots :
            /\ item_slot[i] = s /\ ~Overwrites(s) /\ WillLead(i, s)
            /\ \A r \in DOMAIN reclaims :
                  reclaims[r].generation >= pinned_round[s] => reclaims[r].fence >= k
      BY <2>1 DEF Held
    <3>4. pinned_round \in [Slots -> 0 .. MaxRounds]  BY <1>0 DEF TypeOK
    <3>5. need < pinned_round[s]  BY <2>1, <3>1
    <3>2. pinned_round[s] \in Nat  BY <3>1, <3>4
    <3>3. s \notin Overwritten(steps)  BY <1>3, <3>2, <3>5
    <3> QED  BY <1>5, <1>9, <3>1, <3>3
  <2> QED  BY <1>2, <2>1 DEF Held
<1>12. CurrentHeld'  BY <1>0, <1>1, <1>2 DEF CurrentHeld
<1> QED  BY <1>5, <1>6, <1>7, <1>8, <1>10, <1>11, <1>12 DEF IInv

(* enqueue_assignment: the upload and its step.                            *)
IsUpload(u, op) ==
    /\ u \in Admissions(plan) /\ u = Min(uploads) /\ uploads' = uploads \ {u}
    /\ plan[u] \in Steps /\ op.op = "Upload"
    /\ op.slot = plan[u].slot /\ op.item = plan[u].item
    /\ transfer' = Append(transfer, op)
    /\ \/ BounceSlots = 0 /\ op.ring = Absent /\ UNCHANGED rings
       \/ /\ BounceSlots > 0 /\ cursor \in Bounces /\ bounce[cursor].fence = 0
          /\ op.ring = cursor
          /\ bounce' = [bounce EXCEPT ![cursor] =
                           [item |-> op.item, fence |-> Len(transfer')]]
          /\ cursor' = (cursor + 1) % BounceSlots
          /\ stage' = stage /\ staging' = staging
LEMMA UploadOf ==
    ASSUME TypeOK, CallSound, EnqueueUpload
    PROVE  \E u \in uploads : \E op \in Transfers : IsUpload(u, op)
<1> DEFINE u == Min(uploads)
<1>1. pc = "upload" /\ uploads # {} /\ uploads \subseteq Admissions(plan)
  BY DEF EnqueueUpload, CallSound
<1>2. plan \in Seq(Steps) /\ Admissions(plan) \subseteq DOMAIN plan
  BY DEF TypeOK, Admissions
<1>3. DOMAIN plan = 1 .. Len(plan)  BY <1>2, LenProperties
<1>4. uploads \in SUBSET Nat  BY <1>1, <1>2, <1>3
<1>5. u \in uploads  BY <1>1, <1>4, MinIsLeast
<1>6. NextUpload = plan[u] /\ uploads' = uploads \ {u}  BY DEF NextUpload, EnqueueUpload
<1> HIDE DEF u
<1>7. plan[u] \in Steps /\ plan[u].slot \in Slots /\ plan[u].item \in Items
  BY <1>1, <1>2, <1>5, StepFacts
<1>8. u \in Admissions(plan) /\ u = Min(uploads)  BY <1>1, <1>5 DEF u
<1>9. CASE BounceSlots = 0
  <2> DEFINE op == Upload(plan[u], Absent)
  <2>1. /\ op \in Transfers /\ op.op = "Upload" /\ op.slot = plan[u].slot
        /\ op.item = plan[u].item /\ op.ring = Absent
    BY <1>7 DEF Upload, Transfers
  <2>2. transfer' = Append(transfer, op) /\ UNCHANGED rings
    BY <1>6, <1>9 DEF EnqueueUpload
  <2> HIDE DEF op
  <2> QED  BY <1>5, <1>6, <1>7, <1>8, <1>9, <2>1, <2>2 DEF IsUpload
<1>10. CASE BounceSlots # 0
  <2> DEFINE op == Upload(plan[u], cursor)
  <2>1. BounceSlots > 0 /\ cursor \in Bounces  BY <1>10, Constants DEF TypeOK
  <2>2. /\ op \in Transfers /\ op.op = "Upload" /\ op.slot = plan[u].slot
        /\ op.item = plan[u].item /\ op.ring = cursor
    BY <1>7, <2>1 DEF Upload, Transfers
  <2>3. /\ transfer' = Append(transfer, op) /\ bounce[cursor].fence = 0
        /\ bounce' = [bounce EXCEPT ![cursor] =
                         [item |-> plan[u].item, fence |-> Len(transfer')]]
        /\ cursor' = (cursor + 1) % BounceSlots
        /\ stage' = stage /\ staging' = staging
    BY <1>6, <1>10 DEF EnqueueUpload, BounceFree
  <2> HIDE DEF op
  <2>4. bounce' = [bounce EXCEPT ![cursor] = [item |-> op.item, fence |-> Len(transfer')]]
    BY <2>2, <2>3
  <2> QED  BY <1>5, <1>6, <1>7, <1>8, <2>1, <2>2, <2>3, <2>4 DEF IsUpload
<1> QED  BY <1>9, <1>10

LEMMA UploadFrame ==
    ASSUME IInv, EnqueueUpload, NEW u \in uploads, NEW op \in Transfers, IsUpload(u, op)
    PROVE  /\ pc = "upload" /\ ~poisoned /\ op.slot \in Overwritten(plan)
           /\ transfer' \in Seq(Transfers') /\ consumer' \in Seq(Replays')
           /\ \A i, s : s # op.slot /\ WillHold(s, i) => WillHold(s, i)'
           /\ WillHold(op.slot, op.item)'
           /\ \A i, s : WillLead(i, s) => WillLead(i, s)'
           /\ DOMAIN transfer \subseteq DOMAIN transfer'
           /\ \A k : \A j \in DOMAIN transfer : WaitsFor(j, k)' <=> WaitsFor(j, k)
           /\ SourcesHeld' /\ ReplaysSafe'
<1>0. TypeOK /\ CacheSound /\ CallSound /\ SourcesHeld /\ ClaimsHold /\ ReplaysSafe
      /\ ReplaysHeld
  BY DEF IInv
<1>1. pc = "upload" /\ ~poisoned  BY <1>0 DEF EnqueueUpload, CallSound
<1>2. /\ op.op = "Upload" /\ op.slot = plan[u].slot /\ op.item = plan[u].item
      /\ transfer' = Append(transfer, op)
  BY DEF IsUpload
<1>3. op.slot \in Overwritten(plan)  BY <1>2 DEF IsUpload, Overwritten
<1>4. UNCHANGED consumer /\ UNCHANGED device /\ UNCHANGED reclaims /\ consumer' = consumer
  BY DEF EnqueueUpload
<1>5. /\ Len(transfer') = Len(transfer) + 1 /\ Len(transfer) \in Nat
      /\ DOMAIN transfer' = 1 .. Len(transfer) + 1 /\ DOMAIN transfer = 1 .. Len(transfer)
      /\ transfer' \in Seq(Transfers') /\ consumer' \in Seq(Replays')
      /\ transfer'[Len(transfer) + 1] = op
      /\ \A j \in DOMAIN transfer : transfer'[j] = transfer[j]
      /\ \A k : \A j \in DOMAIN transfer : WaitsFor(j, k)' <=> WaitsFor(j, k)
  BY <1>0, <1>2, <1>4, PushedFrame
<1>6. \A i, s : s # op.slot /\ WillHold(s, i) => WillHold(s, i)'
  BY <1>0, <1>2, <1>4, PushedEnd
<1>7. ASSUME NEW s, NEW i, s = op.slot, i = op.item PROVE WillHold(s, i)'
  BY <1>0, <1>2, <1>4, <1>7, PushedEnd
<1>8. WillHold(op.slot, op.item)'  BY <1>7
<1>9. \A i, s : WillLead(i, s) => WillLead(i, s)'
  BY <1>0, <1>2, <1>4, PushedEnd
<1>10. DOMAIN transfer \subseteq DOMAIN transfer'  BY <1>5
<1>11. SourcesHeld'
  <2>1. CASE BounceSlots = 0 /\ op.ring = Absent /\ UNCHANGED rings
    <3>1. bounce' = bounce /\ staging' = staging  BY <2>1 DEF rings
    <3>2. \A k \in DOMAIN transfer' : k \in DOMAIN transfer \/ transfer'[k] = op  BY <1>5
    <3> QED  BY <1>0, <1>2, <1>5, <2>1, <3>1, <3>2 DEF SourcesHeld
  <2>2. CASE /\ BounceSlots > 0 /\ cursor \in Bounces /\ bounce[cursor].fence = 0
             /\ op.ring = cursor
             /\ bounce' = [bounce EXCEPT ![cursor] =
                              [item |-> op.item, fence |-> Len(transfer')]]
             /\ stage' = stage /\ staging' = staging
    <3>1. bounce \in [Bounces -> [item : Items \cup {Absent}, fence : 0 .. Len(transfer)]]
      BY <1>0 DEF TypeOK
    <3>2. /\ bounce'[cursor] = [item |-> op.item, fence |-> Len(transfer')]
          /\ \A b \in Bounces : b # cursor => bounce'[b] = bounce[b]
      BY <2>2, <3>1
    <3>3. ASSUME NEW k \in DOMAIN transfer, transfer[k].op = "Upload", transfer[k].ring # Absent
          PROVE  /\ transfer[k].ring \in Bounces /\ transfer[k].ring # cursor
                 /\ bounce[transfer[k].ring].item = transfer[k].item
                 /\ bounce[transfer[k].ring].fence >= k
      <4>1. /\ bounce[transfer[k].ring].item = transfer[k].item
            /\ bounce[transfer[k].ring].fence >= k /\ k \in Nat \ {0}
        BY <1>0, <1>5, <3>3 DEF SourcesHeld
      <4>2. transfer[k].ring \in Bounces  BY <1>0, <3>3, TransferFacts
      <4>3. transfer[k].ring # cursor
        <5>1. SUFFICES ASSUME transfer[k].ring = cursor PROVE FALSE  OBVIOUS
        <5>2. 0 >= k /\ k \in Nat \ {0}  BY <2>2, <4>1, <5>1
        <5> QED  BY <5>2
      <4> QED  BY <4>1, <4>2, <4>3
    <3>4. ASSUME NEW k \in DOMAIN transfer', transfer'[k].op = "Upload", transfer'[k].ring # Absent
          PROVE  /\ bounce'[transfer'[k].ring].item = transfer'[k].item
                 /\ bounce'[transfer'[k].ring].fence >= k
      <4>1. CASE k \in DOMAIN transfer  BY <1>5, <3>2, <3>3, <3>4, <4>1
      <4>2. CASE k = Len(transfer) + 1  BY <1>5, <2>2, <3>2, <4>2
      <4> QED  BY <1>5, <4>1, <4>2
    <3>5. ASSUME NEW k \in DOMAIN transfer', transfer'[k].op = "Table"
          PROVE  /\ staging'[transfer'[k].stage].table = transfer'[k].table
                 /\ staging'[transfer'[k].stage].fence >= k
      <4>1. k \in DOMAIN transfer  BY <1>2, <1>5, <3>5
      <4> QED  BY <1>0, <1>5, <2>2, <3>5, <4>1 DEF SourcesHeld
    <3> QED  BY <3>4, <3>5 DEF SourcesHeld
  <2> QED  BY <2>1, <2>2 DEF IsUpload
<1>12. ReplaysSafe'
  <2>1. ASSUME NEW k \in DOMAIN consumer, consumer[k].op = "Replay",
               ~\E j \in DOMAIN transfer : WaitsFor(j, k), NEW i \in consumer[k].items
        PROVE  \E s \in Slots : WillLead(i, s)' /\ WillHold(s, i)'
    <3>1. Held(k)  BY <1>0, <1>1, <2>1 DEF ReplaysHeld
    <3>2. PICK s \in Slots : ~Overwrites(s) /\ WillLead(i, s) /\ WillHold(s, i)
      BY <1>0, <1>1, <2>1, <3>1, HeldIsThere
    <3>3. s # op.slot  BY <1>1, <1>3, <3>2 DEF Overwrites
    <3> QED  BY <1>6, <1>9, <3>2, <3>3
  <2> QED  BY <1>0, <1>2, <1>4, <2>1, PushSafe
<1> QED  BY <1>1, <1>3, <1>5, <1>6, <1>8, <1>9, <1>10, <1>11, <1>12

LEMMA UploadTypes ==
    ASSUME TypeOK, NEW u \in uploads, NEW op \in Transfers, IsUpload(u, op),
           publication' = publication
    PROVE  /\ publication' \in 0 .. Len(transfer')
           /\ stage' \in Stages /\ (BounceSlots > 0 => cursor' \in Bounces)
           /\ staging' \in [Stages -> [table : [Items -> Slots \cup {Absent}],
                                       fence : 0 .. Len(transfer')]]
           /\ bounce' \in [Bounces -> [item : Items \cup {Absent}, fence : 0 .. Len(transfer')]]
<1>1. Len(transfer') = Len(transfer) + 1 /\ Len(transfer) \in Nat
  <2>1. transfer \in Seq(Transfers) /\ transfer' = Append(transfer, op)
    BY DEF TypeOK, IsUpload
  <2> QED  BY <2>1, AppendProperties, LenProperties
<1>2. CASE BounceSlots = 0 /\ UNCHANGED rings  BY <1>1, <1>2, FencesKept
<1>3. CASE /\ BounceSlots > 0 /\ cursor \in Bounces
           /\ bounce' = [bounce EXCEPT ![cursor] =
                            [item |-> op.item, fence |-> Len(transfer')]]
           /\ cursor' = (cursor + 1) % BounceSlots
           /\ stage' = stage /\ staging' = staging
  <2>1. 0 .. Len(transfer) \subseteq 0 .. Len(transfer') /\ Len(transfer') \in 0 .. Len(transfer')
    BY <1>1
  <2>2. publication' \in 0 .. Len(transfer')  BY <2>1 DEF TypeOK
  <2>3. cursor' \in Bounces  BY <1>3, Constants DEF Bounces
  <2>4. staging' \in [Stages -> [table : [Items -> Slots \cup {Absent}],
                                 fence : 0 .. Len(transfer')]]
    <3>1. staging \in [Stages -> [table : [Items -> Slots \cup {Absent}], fence : 0 .. Len(transfer)]]
      BY DEF TypeOK
    <3>2. [table : [Items -> Slots \cup {Absent}], fence : 0 .. Len(transfer)] \subseteq
             [table : [Items -> Slots \cup {Absent}], fence : 0 .. Len(transfer')]
      BY <2>1
    <3> QED  BY <1>3, <3>1, <3>2
  <2>5. bounce' \in [Bounces -> [item : Items \cup {Absent}, fence : 0 .. Len(transfer')]]
    <3>1. bounce \in [Bounces -> [item : Items \cup {Absent}, fence : 0 .. Len(transfer)]]
      BY DEF TypeOK
    <3>2. [item : Items \cup {Absent}, fence : 0 .. Len(transfer)] \subseteq
             [item : Items \cup {Absent}, fence : 0 .. Len(transfer')]
      BY <2>1
    <3>3. op.item \in Items  BY DEF IsUpload, Steps
    <3>4. [item |-> op.item, fence |-> Len(transfer')] \in
             [item : Items \cup {Absent}, fence : 0 .. Len(transfer')]
      BY <2>1, <3>3
    <3> QED  BY <1>3, <3>1, <3>2, <3>4
  <2>6. stage' \in Stages  BY <1>3 DEF TypeOK
  <2> QED  BY <2>2, <2>3, <2>4, <2>5, <2>6
<1> QED  BY <1>2, <1>3 DEF IsUpload

(* What the call has uploaded is there.                                    *)
LEMMA UploadedHold ==
    ASSUME IInv, EnqueueUpload, NEW u \in uploads, NEW op \in Transfers, IsUpload(u, op),
           NEW s \in Slots, NEW i \in Items, NEW k \in Admissions(plan) \ uploads',
           plan[k].slot = s, plan[k].item = i
    PROVE  WillHold(s, i)'
<1>0. TypeOK /\ CallSound /\ ClaimsHold  BY DEF IInv
<1>1. /\ pc = "upload" /\ ~poisoned
      /\ \A t, e : e # op.slot /\ WillHold(e, t) => WillHold(e, t)'
      /\ WillHold(op.slot, op.item)'
  BY UploadFrame
<1>2. /\ op.slot = plan[u].slot /\ op.item = plan[u].item /\ uploads' = uploads \ {u}
      /\ u \in Admissions(plan)
  BY DEF IsUpload
<1>3. CASE k = u
  <2>1. op.slot = s /\ op.item = i  BY <1>2, <1>3
  <2>2. ASSUME NEW e, NEW t, e = op.slot, t = op.item PROVE WillHold(e, t)'
    BY <1>1, <2>2
  <2> QED  BY <2>1, <2>2
<1>4. CASE k # u
  <2>1. k \in Admissions(plan) \ uploads  BY <1>2, <1>4
  <2>2. WillHold(s, i)  BY <1>0, <1>1, <2>1 DEF ClaimsHold
  <2>3. plan[k].slot # plan[u].slot
    <3>1. PlanSound(plan)  BY <1>0, <1>1 DEF CallSound
    <3>2. k \in DOMAIN plan /\ u \in DOMAIN plan  BY <1>2 DEF Admissions
    <3> QED  BY <1>4, <3>1, <3>2 DEF PlanSound
  <2> QED  BY <1>1, <1>2, <2>2, <2>3
<1> QED  BY <1>3, <1>4

(* An upload that is not the last of its call.                             *)
LEMMA NextUploadKeeps ==
    ASSUME IInv, EnqueueUpload, NEW u \in uploads, NEW op \in Transfers, IsUpload(u, op),
           uploads' # {}
    PROVE  IInv'
<1>0. TypeOK /\ CacheSound /\ CallSound /\ SourcesHeld /\ ClaimsHold /\ ReplaysSafe
      /\ ReplaysHeld /\ CurrentHeld
  BY DEF IInv
<1>1. /\ pc = "upload" /\ ~poisoned /\ op.slot \in Overwritten(plan)
      /\ transfer' \in Seq(Transfers') /\ consumer' \in Seq(Replays')
      /\ \A i, s : s # op.slot /\ WillHold(s, i) => WillHold(s, i)'
      /\ \A i, s : WillLead(i, s) => WillLead(i, s)'
      /\ DOMAIN transfer \subseteq DOMAIN transfer'
      /\ \A k : \A j \in DOMAIN transfer : WaitsFor(j, k)' <=> WaitsFor(j, k)
      /\ SourcesHeld' /\ ReplaysSafe'
  BY UploadFrame
<1>2. /\ item_slot' = item_slot /\ slot_item' = slot_item /\ recency' = recency
      /\ pinned_round' = pinned_round /\ round' = round /\ pc' = pc
      /\ plan' = plan /\ stalls' = stalls /\ poisoned' = poisoned
      /\ publication' = publication /\ reclaims' = reclaims /\ current' = current
      /\ unreleased' = unreleased /\ consumer' = consumer /\ slots' = slots /\ table' = table
  BY DEF EnqueueUpload, cache, device
<1>3. uploads' = uploads \ {u}  BY DEF IsUpload
<1>4. TypeOK'
  <2>1. /\ publication' \in 0 .. Len(transfer')
        /\ stage' \in Stages /\ (BounceSlots > 0 => cursor' \in Bounces)
        /\ staging' \in [Stages -> [table : [Items -> Slots \cup {Absent}],
                                    fence : 0 .. Len(transfer')]]
        /\ bounce' \in [Bounces -> [item : Items \cup {Absent}, fence : 0 .. Len(transfer')]]
    BY <1>0, <1>2, UploadTypes
  <2>2. {stalls', poisoned', unreleased'} \subseteq BOOLEAN  BY <1>0, <1>2 DEF TypeOK
  <2>3. /\ reclaims' \in Seq([generation : 0 .. MaxRounds, fence : 0 .. Len(consumer')])
        /\ Len(reclaims') <= RECLAIM_FENCE_GENERATIONS
        /\ slots' \in [Slots -> Items \cup {Absent}]
        /\ table' \in [Items -> Slots \cup {Absent}]
        /\ item_slot' \in [Items -> Slots \cup {Absent}]
        /\ slot_item' \in [Slots -> Items \cup {Absent}]
        /\ recency' \in Seq(Slots)
        /\ pinned_round' \in [Slots -> 0 .. MaxRounds] /\ round' \in 0 .. MaxRounds
        /\ pc' \in {"idle", "upload", "publish", "stall"}
        /\ plan' \in Seq(Steps) /\ uploads' \subseteq DOMAIN plan'
        /\ current' \subseteq Items
    BY <1>0, <1>2, <1>3 DEF TypeOK
  <2> QED  BY <1>1, <2>1, <2>2, <2>3 DEF TypeOK
<1>5. CacheSound'  BY <1>0, <1>2 DEF CacheSound
<1>6. /\ Admissions(plan)' = Admissions(plan) /\ Asked(plan)' = Asked(plan)
      /\ PlanSound(plan)' <=> PlanSound(plan)
      /\ \A s : Overwrites(s)' <=> Overwrites(s)
  BY <1>2 DEF PlanSound, Admissions, Asked, Overwrites, Overwritten
<1>7. CallSound'
  <2>1. /\ uploads \subseteq Admissions(plan) /\ PlanSound(plan) /\ current = Asked(plan)
        /\ round < MaxRounds
    BY <1>0, <1>1 DEF CallSound
  <2> QED  BY <1>1, <1>2, <1>3, <1>6, <2>1 DEF CallSound
<1>8. ClaimsHold'
  <2>1. ASSUME NEW i \in Items, NEW s \in Slots, item_slot[i] = s, ~Overwrites(s)
        PROVE  WillHold(s, i)'
    <3>1. WillHold(s, i)  BY <1>0, <1>1, <2>1 DEF ClaimsHold
    <3>2. s # op.slot  BY <1>1, <2>1 DEF Overwrites
    <3> QED  BY <1>1, <3>1, <3>2
  <2>2. \A s \in Slots, i \in Items :
           (\E k \in Admissions(plan) \ uploads' : plan[k].slot = s /\ plan[k].item = i) =>
              WillHold(s, i)'
    BY UploadedHold
  <2> QED  BY <1>1, <1>2, <1>6, <2>1, <2>2 DEF ClaimsHold
<1>9. ReplaysHeld'
  <2> SUFFICES ASSUME NEW k \in DOMAIN consumer, consumer[k].op = "Replay"
               PROVE  Held(k)' \/ \E j \in DOMAIN transfer' : WaitsFor(j, k)'
    BY <1>2 DEF ReplaysHeld
  <2>1. CASE Held(k)  BY <1>1, <1>2, <1>6, <2>1 DEF Held
  <2>2. CASE \E j \in DOMAIN transfer : WaitsFor(j, k)  BY <1>1, <2>2
  <2> QED  BY <1>0, <1>1, <2>1, <2>2 DEF ReplaysHeld
<1>10. CurrentHeld'  BY <1>0, <1>1, <1>2 DEF CurrentHeld
<1> QED  BY <1>1, <1>4, <1>5, <1>7, <1>8, <1>9, <1>10 DEF IInv

(* The last upload of a call commits its plan.                             *)
LEMMA LastUploadKeeps ==
    ASSUME IInv, EnqueueUpload, NEW u \in uploads, NEW op \in Transfers, IsUpload(u, op),
           uploads' = {}
    PROVE  IInv'
<1>0. TypeOK /\ CacheSound /\ CallSound /\ SourcesHeld /\ ClaimsHold /\ ReplaysSafe
      /\ ReplaysHeld /\ CurrentHeld
  BY DEF IInv
<1>1. /\ pc = "upload" /\ ~poisoned /\ op.slot \in Overwritten(plan)
      /\ transfer' \in Seq(Transfers') /\ consumer' \in Seq(Replays')
      /\ \A i, s : s # op.slot /\ WillHold(s, i) => WillHold(s, i)'
      /\ \A i, s : WillLead(i, s) => WillLead(i, s)'
      /\ DOMAIN transfer \subseteq DOMAIN transfer'
      /\ \A k : \A j \in DOMAIN transfer : WaitsFor(j, k)' <=> WaitsFor(j, k)
      /\ SourcesHeld' /\ ReplaysSafe'
  BY UploadFrame
<1>2. /\ pc' = "publish" /\ Commit(plan)
      /\ plan' = plan /\ stalls' = stalls /\ poisoned' = poisoned
      /\ publication' = publication /\ reclaims' = reclaims /\ current' = current
      /\ unreleased' = unreleased /\ consumer' = consumer /\ slots' = slots /\ table' = table
  BY DEF EnqueueUpload, device
<1>3. plan \in Seq(Steps) /\ PlanSound(plan) /\ current = Asked(plan) /\ round < MaxRounds
  BY <1>0, <1>1 DEF CallSound, TypeOK
<1>4. /\ item_slot' \in [Items -> Slots \cup {Absent}]
      /\ slot_item' \in [Slots -> Items \cup {Absent}]
      /\ recency' \in Seq(Slots)
      /\ pinned_round' \in [Slots -> 0 .. MaxRounds]
      /\ round \in Nat /\ round' = round + 1 /\ round' \in 0 .. MaxRounds
  BY <1>0, <1>2, <1>3, CommitTypes
<1>5. /\ \A k \in DOMAIN plan :
            /\ item_slot'[plan[k].item] = plan[k].slot
            /\ pinned_round'[plan[k].slot] = round'
      /\ \A i \in Items :
            item_slot[i] # Absent /\ item_slot[i] \notin Overwritten(plan) =>
               item_slot'[i] = item_slot[i]
      /\ \A i \in Items : item_slot'[i] # Absent =>
            \/ item_slot'[i] = item_slot[i] /\ item_slot[i] \notin Overwritten(plan)
            \/ \E k \in Admissions(plan) :
                  plan[k].item = i /\ item_slot'[i] = plan[k].slot
      /\ \A s \in Slots : pinned_round'[s] >= pinned_round[s]
  BY <1>0, <1>2, <1>3, CommitMoves
<1>6. TypeOK'
  <2>1. /\ publication' \in 0 .. Len(transfer')
        /\ stage' \in Stages /\ (BounceSlots > 0 => cursor' \in Bounces)
        /\ staging' \in [Stages -> [table : [Items -> Slots \cup {Absent}],
                                    fence : 0 .. Len(transfer')]]
        /\ bounce' \in [Bounces -> [item : Items \cup {Absent}, fence : 0 .. Len(transfer')]]
    BY <1>0, <1>2, UploadTypes
  <2>2. {stalls', poisoned', unreleased'} \subseteq BOOLEAN  BY <1>0, <1>2 DEF TypeOK
  <2>3. /\ reclaims' \in Seq([generation : 0 .. MaxRounds, fence : 0 .. Len(consumer')])
        /\ Len(reclaims') <= RECLAIM_FENCE_GENERATIONS
        /\ slots' \in [Slots -> Items \cup {Absent}]
        /\ table' \in [Items -> Slots \cup {Absent}]
        /\ plan' \in Seq(Steps) /\ current' \subseteq Items
    BY <1>0, <1>2 DEF TypeOK
  <2>4. pc' \in {"idle", "upload", "publish", "stall"} /\ uploads' \subseteq DOMAIN plan'
    BY <1>2
  <2> QED  BY <1>1, <1>4, <2>1, <2>2, <2>3, <2>4 DEF TypeOK
<1>7. CacheSound'  BY <1>0, <1>2, <1>3, CommitSound
<1>8. CallSound'  BY <1>1, <1>2 DEF CallSound
<1>9. \A s : ~Overwrites(s)'  BY <1>2 DEF Overwrites
<1>10. ClaimsHold'
  <2>1. ASSUME NEW i \in Items, NEW s \in Slots, item_slot'[i] = s
        PROVE  WillHold(s, i)'
    <3>1. item_slot'[i] # Absent  BY <2>1, Constants
    <3>2. CASE item_slot[i] = s /\ s \notin Overwritten(plan)
      <4>1. ~Overwrites(s) /\ s # op.slot  BY <1>1, <3>2 DEF Overwrites
      <4>2. WillHold(s, i)  BY <1>0, <1>1, <3>2, <4>1 DEF ClaimsHold
      <4> QED  BY <1>1, <4>1, <4>2
    <3>3. CASE \E k \in Admissions(plan) : plan[k].item = i /\ plan[k].slot = s
      <4>1. PICK k \in Admissions(plan) : plan[k].item = i /\ plan[k].slot = s  BY <3>3
      <4>2. k \in Admissions(plan) \ uploads'  BY <4>1
      <4> QED  BY <4>1, <4>2, UploadedHold
    <3> QED  BY <1>5, <2>1, <3>1, <3>2, <3>3
  <2> QED  BY <1>2, <1>9, <2>1 DEF ClaimsHold
<1>11. ReplaysHeld'
  <2> SUFFICES ASSUME NEW k \in DOMAIN consumer, consumer[k].op = "Replay"
               PROVE  Held(k)' \/ \E j \in DOMAIN transfer' : WaitsFor(j, k)'
    BY <1>2 DEF ReplaysHeld
  <2>1. CASE Held(k)
    <3>1. ASSUME NEW i \in consumer[k].items
          PROVE  \E s \in Slots :
                    /\ item_slot'[i] = s /\ ~Overwrites(s)' /\ WillLead(i, s)'
                    /\ \A r \in DOMAIN reclaims' :
                          reclaims'[r].generation >= pinned_round'[s] => reclaims'[r].fence >= k
      <4>1. i \in Items  BY <1>0, <3>1, ConsumerFacts
      <4>2. PICK s \in Slots :
              /\ item_slot[i] = s /\ ~Overwrites(s) /\ WillLead(i, s)
              /\ \A r \in DOMAIN reclaims :
                    reclaims[r].generation >= pinned_round[s] => reclaims[r].fence >= k
        BY <2>1, <3>1 DEF Held
      <4>3. item_slot'[i] = s  BY <1>1, <1>5, <4>1, <4>2, Constants DEF Overwrites
      <4>4. pinned_round \in [Slots -> 0 .. MaxRounds]  BY <1>0 DEF TypeOK
      <4>5. pinned_round[s] \in Nat /\ pinned_round'[s] \in Nat
            /\ pinned_round'[s] >= pinned_round[s]
        BY <1>4, <1>5, <4>4
      <4>6. \A r \in DOMAIN reclaims : reclaims[r].generation \in Nat  BY <1>0, ReclaimFacts
      <4>7. \A r \in DOMAIN reclaims :
              reclaims[r].generation >= pinned_round'[s] => reclaims[r].fence >= k
        BY <4>2, <4>5, <4>6
      <4> QED  BY <1>1, <1>2, <1>9, <4>2, <4>3, <4>7
    <3> QED  BY <1>2, <3>1 DEF Held
  <2>2. CASE \E j \in DOMAIN transfer : WaitsFor(j, k)  BY <1>1, <2>2
  <2> QED  BY <1>0, <1>1, <2>1, <2>2 DEF ReplaysHeld
<1>12. CurrentHeld'
  <2>1. \A r \in DOMAIN reclaims : reclaims[r].generation \in Nat /\ reclaims[r].generation <= round
    BY <1>0, ReclaimFacts DEF CurrentHeld
  <2>2. \A r \in DOMAIN reclaims' :
           reclaims'[r].generation <= round' /\ reclaims'[r].generation < round'
    BY <1>2, <1>4, <2>1
  <2>3. \A i \in current' : item_slot'[i] \in Slots /\ pinned_round'[item_slot'[i]] = round'
    BY <1>2, <1>3, <1>5, StepFacts DEF Asked
  <2> QED  BY <2>2, <2>3, Constants DEF CurrentHeld
<1> QED  BY <1>1, <1>6, <1>7, <1>8, <1>10, <1>11, <1>12 DEF IInv

(* publish_table: the committed table, uploaded after its items.           *)
LEMMA PublishKeeps ==
    ASSUME IInv, Publish
    PROVE  IInv'
<1> DEFINE op == TableCopy(stage, item_slot)
<1>0. TypeOK /\ CacheSound /\ CallSound /\ SourcesHeld /\ ClaimsHold /\ ReplaysSafe
      /\ ReplaysHeld /\ CurrentHeld
  BY DEF IInv
<1>1. /\ pc = "publish" /\ staging[stage].fence = 0
      /\ transfer' = Append(transfer, op)
      /\ staging' = [staging EXCEPT ![stage] = [table |-> item_slot, fence |-> Len(transfer')]]
      /\ stage' = (stage + 1) % TABLE_GENERATIONS /\ publication' = Len(transfer')
      /\ pc' \in {"idle", "stall"}
  BY DEF Publish, StageFree
<1>2. /\ item_slot' = item_slot /\ slot_item' = slot_item /\ recency' = recency
      /\ pinned_round' = pinned_round /\ round' = round /\ uploads' = uploads
      /\ plan' = plan /\ stalls' = stalls /\ poisoned' = poisoned
      /\ reclaims' = reclaims /\ current' = current /\ cursor' = cursor /\ bounce' = bounce
      /\ unreleased' = unreleased /\ consumer' = consumer /\ slots' = slots /\ table' = table
  BY DEF Publish, cache, device
<1>3. UNCHANGED consumer /\ UNCHANGED device /\ UNCHANGED reclaims
  BY <1>2 DEF device
<1>4. ~poisoned /\ uploads = {}  BY <1>0, <1>1 DEF CallSound
<1>5. /\ stage \in Stages /\ item_slot \in [Items -> Slots \cup {Absent}]
      /\ staging \in [Stages -> [table : [Items -> Slots \cup {Absent}],
                                 fence : 0 .. Len(transfer)]]
  BY <1>0 DEF TypeOK
<1>6. op \in Transfers /\ op.op = "Table" /\ op.stage = stage /\ op.table = item_slot
  BY <1>5 DEF TableCopy, Transfers
<1> HIDE DEF op
<1>7. /\ Len(transfer') = Len(transfer) + 1 /\ Len(transfer) \in Nat
      /\ DOMAIN transfer' = 1 .. Len(transfer) + 1 /\ DOMAIN transfer = 1 .. Len(transfer)
      /\ transfer' \in Seq(Transfers') /\ consumer' \in Seq(Replays')
      /\ transfer'[Len(transfer) + 1] = op
      /\ \A j \in DOMAIN transfer : transfer'[j] = transfer[j]
      /\ \A k : \A j \in DOMAIN transfer : WaitsFor(j, k)' <=> WaitsFor(j, k)
  BY <1>0, <1>1, <1>3, <1>6, PushedFrame
<1>8. \A i, s : /\ WillHold(s, i) => WillHold(s, i)'
                /\ item_slot[i] = s => WillLead(i, s)'
  BY <1>0, <1>1, <1>3, <1>6, PushedEnd
<1>9. \A s : ~Overwrites(s) /\ ~Overwrites(s)'  BY <1>1 DEF Overwrites
<1>10. 0 .. Len(transfer) \subseteq 0 .. Len(transfer') /\ Len(transfer') \in 0 .. Len(transfer')
  BY <1>7
<1>11. TypeOK'
  <2>1. stage' \in Stages  BY <1>1, <1>5, Constants DEF Stages
  <2>2. staging' \in [Stages -> [table : [Items -> Slots \cup {Absent}],
                                 fence : 0 .. Len(transfer')]]
    <3>1. [table : [Items -> Slots \cup {Absent}], fence : 0 .. Len(transfer)] \subseteq
             [table : [Items -> Slots \cup {Absent}], fence : 0 .. Len(transfer')]
      BY <1>10
    <3>2. [table |-> item_slot, fence |-> Len(transfer')] \in
             [table : [Items -> Slots \cup {Absent}], fence : 0 .. Len(transfer')]
      BY <1>5, <1>10
    <3> QED  BY <1>1, <1>5, <3>1, <3>2
  <2>3. bounce' \in [Bounces -> [item : Items \cup {Absent}, fence : 0 .. Len(transfer')]]
    <3>1. bounce \in [Bounces -> [item : Items \cup {Absent}, fence : 0 .. Len(transfer)]]
      BY <1>0 DEF TypeOK
    <3>2. [item : Items \cup {Absent}, fence : 0 .. Len(transfer)] \subseteq
             [item : Items \cup {Absent}, fence : 0 .. Len(transfer')]
      BY <1>10
    <3> QED  BY <1>2, <3>1, <3>2
  <2>4. {stalls', poisoned', unreleased'} \subseteq BOOLEAN  BY <1>0, <1>2 DEF TypeOK
  <2>5. publication' \in 0 .. Len(transfer')  BY <1>1, <1>10
  <2>6. /\ reclaims' \in Seq([generation : 0 .. MaxRounds, fence : 0 .. Len(consumer')])
        /\ Len(reclaims') <= RECLAIM_FENCE_GENERATIONS
        /\ (BounceSlots > 0 => cursor' \in Bounces)
        /\ slots' \in [Slots -> Items \cup {Absent}]
        /\ table' \in [Items -> Slots \cup {Absent}]
        /\ item_slot' \in [Items -> Slots \cup {Absent}]
        /\ slot_item' \in [Slots -> Items \cup {Absent}]
        /\ recency' \in Seq(Slots)
        /\ pinned_round' \in [Slots -> 0 .. MaxRounds] /\ round' \in 0 .. MaxRounds
        /\ plan' \in Seq(Steps) /\ uploads' \subseteq DOMAIN plan'
        /\ current' \subseteq Items
    BY <1>0, <1>2 DEF TypeOK
  <2>7. pc' \in {"idle", "upload", "publish", "stall"}  BY <1>1
  <2> QED  BY <1>7, <2>1, <2>2, <2>3, <2>4, <2>5, <2>6, <2>7 DEF TypeOK
<1>12. CacheSound'  BY <1>0, <1>2 DEF CacheSound
<1>13. CallSound'  BY <1>1, <1>2, <1>4 DEF CallSound
<1>14. SourcesHeld'
  <2>1. /\ staging'[stage] = [table |-> item_slot, fence |-> Len(transfer')]
        /\ \A g \in Stages : g # stage => staging'[g] = staging[g]
    BY <1>1, <1>5
  <2>2. ASSUME NEW k \in DOMAIN transfer, transfer[k].op = "Table"
        PROVE  /\ transfer[k].stage \in Stages /\ transfer[k].stage # stage
               /\ staging[transfer[k].stage].table = transfer[k].table
               /\ staging[transfer[k].stage].fence >= k
    <3>1. /\ staging[transfer[k].stage].table = transfer[k].table
          /\ staging[transfer[k].stage].fence >= k /\ k \in Nat \ {0}
      BY <1>0, <1>7, <2>2 DEF SourcesHeld
    <3>2. transfer[k].stage \in Stages  BY <1>0, <2>2, TransferFacts
    <3>3. transfer[k].stage # stage
      <4>1. SUFFICES ASSUME transfer[k].stage = stage PROVE FALSE  OBVIOUS
      <4>2. 0 >= k /\ k \in Nat \ {0}  BY <1>1, <3>1, <4>1
      <4> QED  BY <4>2
    <3> QED  BY <3>1, <3>2, <3>3
  <2>3. ASSUME NEW k \in DOMAIN transfer', transfer'[k].op = "Table"
        PROVE  /\ staging'[transfer'[k].stage].table = transfer'[k].table
               /\ staging'[transfer'[k].stage].fence >= k
    <3>1. CASE k \in DOMAIN transfer  BY <1>7, <2>1, <2>2, <2>3, <3>1
    <3>2. CASE k = Len(transfer) + 1  BY <1>6, <1>7, <2>1, <3>2
    <3> QED  BY <1>7, <3>1, <3>2
  <2>4. ASSUME NEW k \in DOMAIN transfer', transfer'[k].op = "Upload", transfer'[k].ring # Absent
        PROVE  /\ bounce'[transfer'[k].ring].item = transfer'[k].item
               /\ bounce'[transfer'[k].ring].fence >= k
    <3>1. k \in DOMAIN transfer  BY <1>6, <1>7, <2>4
    <3> QED  BY <1>0, <1>2, <1>7, <2>4, <3>1 DEF SourcesHeld
  <2> QED  BY <2>3, <2>4 DEF SourcesHeld
<1>15. ClaimsHold'  BY <1>0, <1>1, <1>2, <1>4, <1>8, <1>9 DEF ClaimsHold
<1>16. ReplaysSafe'
  <2>1. ASSUME NEW k \in DOMAIN consumer, consumer[k].op = "Replay",
               ~\E j \in DOMAIN transfer : WaitsFor(j, k), NEW i \in consumer[k].items
        PROVE  \E s \in Slots : WillLead(i, s)' /\ WillHold(s, i)'
    <3>1. Held(k)  BY <1>0, <1>4, <2>1 DEF ReplaysHeld
    <3>2. PICK s \in Slots : item_slot[i] = s /\ WillHold(s, i)
      BY <1>0, <1>4, <2>1, <3>1, HeldIsThere
    <3> QED  BY <1>8, <3>2
  <2> QED  BY <1>0, <1>1, <1>3, <1>6, <2>1, PushSafe
<1>17. ReplaysHeld'
  <2> SUFFICES ASSUME NEW k \in DOMAIN consumer, consumer[k].op = "Replay"
               PROVE  Held(k)' \/ \E j \in DOMAIN transfer' : WaitsFor(j, k)'
    BY <1>2 DEF ReplaysHeld
  <2>1. CASE Held(k)  BY <1>2, <1>8, <1>9, <2>1 DEF Held
  <2>2. CASE \E j \in DOMAIN transfer : WaitsFor(j, k)  BY <1>7, <2>2
  <2> QED  BY <1>0, <1>4, <2>1, <2>2 DEF ReplaysHeld
<1>18. CurrentHeld'  BY <1>0, <1>1, <1>2 DEF CurrentHeld
<1> QED  BY <1>11, <1>12, <1>13, <1>14, <1>15, <1>16, <1>17, <1>18 DEF IInv

(* A call that ends, or the end of a round: what has been queued stays.    *)
LEMMA EndKeeps ==
    ASSUME IInv, pc \in {"idle", "stall"} \/ poisoned',
           pc' = "idle", uploads' = {}, plan' = << >> \/ plan' = plan,
           {stalls', unreleased'} \subseteq BOOLEAN, poisoned' \in BOOLEAN,
           poisoned => poisoned', (current' = current /\ pc # "upload") \/ current' = {},
           UNCHANGED <<cache, publication, reclaims, rings, transfer, consumer, device>>
    PROVE  IInv'
<1>0. TypeOK /\ CacheSound /\ CallSound /\ SourcesHeld /\ ClaimsHold /\ ReplaysSafe
      /\ ReplaysHeld /\ CurrentHeld
  BY DEF IInv
<1>1. /\ item_slot' = item_slot /\ slot_item' = slot_item /\ recency' = recency
      /\ pinned_round' = pinned_round /\ round' = round
      /\ publication' = publication /\ reclaims' = reclaims
      /\ transfer' = transfer /\ consumer' = consumer /\ slots' = slots /\ table' = table
      /\ UNCHANGED rings /\ UNCHANGED device
  BY DEF cache, device
<1>2. /\ transfer' \in Seq(Transfers') /\ consumer' \in Seq(Replays')
      /\ \A i, s : /\ WillHold(s, i) => WillHold(s, i)'
                   /\ WillLead(i, s) => WillLead(i, s)'
      /\ \A j, k : WaitsFor(j, k)' <=> WaitsFor(j, k)
      /\ SourcesHeld' /\ ReplaysSafe'
  BY <1>0, <1>1, StreamsKept
<1>3. TypeOK'
  <2>1. plan' \in Seq(Steps) /\ current' \subseteq Items
    <3>1. << >> \in Seq(Steps)  BY EmptySeq
    <3>2. plan \in Seq(Steps) /\ current \subseteq Items  BY <1>0 DEF TypeOK
    <3> QED  BY <3>1, <3>2
  <2>2. /\ publication' \in 0 .. Len(transfer')
        /\ stage' \in Stages /\ (BounceSlots > 0 => cursor' \in Bounces)
        /\ staging' \in [Stages -> [table : [Items -> Slots \cup {Absent}],
                                    fence : 0 .. Len(transfer')]]
        /\ bounce' \in [Bounces -> [item : Items \cup {Absent}, fence : 0 .. Len(transfer')]]
    BY <1>0, <1>1, FencesKept
  <2>3. /\ reclaims' \in Seq([generation : 0 .. MaxRounds, fence : 0 .. Len(consumer')])
        /\ Len(reclaims') <= RECLAIM_FENCE_GENERATIONS
        /\ slots' \in [Slots -> Items \cup {Absent}]
        /\ table' \in [Items -> Slots \cup {Absent}]
        /\ item_slot' \in [Items -> Slots \cup {Absent}]
        /\ slot_item' \in [Slots -> Items \cup {Absent}]
        /\ recency' \in Seq(Slots)
        /\ pinned_round' \in [Slots -> 0 .. MaxRounds] /\ round' \in 0 .. MaxRounds
    BY <1>0, <1>1 DEF TypeOK
  <2>4. {stalls', poisoned', unreleased'} \subseteq BOOLEAN  OBVIOUS
  <2>5. pc' \in {"idle", "upload", "publish", "stall"} /\ uploads' \subseteq DOMAIN plan'
    OBVIOUS
  <2> QED  BY <1>2, <2>1, <2>2, <2>3, <2>4, <2>5 DEF TypeOK
<1>4. CacheSound'  BY <1>0, <1>1 DEF CacheSound
<1>5. CallSound'  BY <1>0, <1>1 DEF CallSound
<1>6. \A s : ~Overwrites(s)' /\ (~poisoned' => ~Overwrites(s))  BY DEF Overwrites
<1>7. ClaimsHold'  BY <1>0, <1>1, <1>2, <1>6 DEF ClaimsHold
<1>8. ReplaysHeld'
  <2> SUFFICES ASSUME ~poisoned', NEW k \in DOMAIN consumer, consumer[k].op = "Replay"
               PROVE  Held(k)' \/ \E j \in DOMAIN transfer' : WaitsFor(j, k)'
    BY <1>1 DEF ReplaysHeld
  <2>1. CASE Held(k)  BY <1>1, <1>2, <1>6, <2>1 DEF Held
  <2>2. CASE \E j \in DOMAIN transfer : WaitsFor(j, k)  BY <1>1, <1>2, <2>2
  <2> QED  BY <1>0, <2>1, <2>2 DEF ReplaysHeld
<1>9. CurrentHeld'  BY <1>0, <1>1 DEF CurrentHeld
<1> QED  BY <1>2, <1>3, <1>4, <1>5, <1>7, <1>8, <1>9 DEF IInv

LEMMA StallKeeps ==
    ASSUME IInv, Stall PROVE IInv'
<1>1. poisoned \in BOOLEAN /\ unreleased \in BOOLEAN  BY DEF IInv, TypeOK
<1> QED  BY <1>1, EndKeeps DEF Stall, Return

LEMMA CallFailsKeeps ==
    ASSUME IInv, CallFails PROVE IInv'
<1>1. poisoned \in BOOLEAN /\ unreleased \in BOOLEAN /\ pc \in {"idle", "upload", "publish", "stall"}
  BY DEF IInv, TypeOK
<1>2. ~poisoned  BY DEF IInv, CallSound, CallFails
<1>3. poisoned' \in BOOLEAN /\ (pc # "stall" => poisoned')  BY <1>1 DEF CallFails, Poisons
<1> QED  BY <1>1, <1>2, <1>3, EndKeeps DEF CallFails, Return

LEMMA ForwardFailsKeeps ==
    ASSUME IInv, ForwardFails PROVE IInv'
<1>1. /\ poisoned \in BOOLEAN /\ stalls \in BOOLEAN /\ (pc = "idle" => uploads = {})
  BY DEF IInv, TypeOK, CallSound
<1> QED  BY <1>1, EndKeeps DEF ForwardFails, call

(* reset: every reader is waited for, then nothing is resident.            *)
LEMMA ResetKeeps ==
    ASSUME IInv, Reset
    PROVE  IInv'
<1> DEFINE S == {0} \cup { pinned_round[s] : s \in Slots }  need == Max(S)
<1>0. TypeOK /\ CacheSound /\ CallSound /\ SourcesHeld /\ ClaimsHold /\ ReplaysSafe
      /\ ReplaysHeld /\ CurrentHeld
  BY DEF IInv
<1>1. /\ pc = "idle" /\ ~poisoned /\ (need = 0 \/ Covering(need) # {})
      /\ transfer' = transfer \o WaitReclaim(need)
      /\ item_slot' = [i \in Items |-> Absent] /\ slot_item' = [s \in Slots |-> Absent]
      /\ recency' = << >> /\ pinned_round' = [s \in Slots |-> 0]
      /\ pc' = "publish" /\ uploads' = {} /\ plan' = << >> /\ stalls' = TRUE
      /\ current' = {}
      /\ UNCHANGED <<round, poisoned, publication, reclaims, rings, unreleased, consumer, device>>
  BY DEF Reset, Ready
<1>2. /\ poisoned' = poisoned /\ publication' = publication /\ reclaims' = reclaims
      /\ unreleased' = unreleased /\ consumer' = consumer /\ slots' = slots /\ table' = table
      /\ round' = round /\ UNCHANGED <<reclaims, rings, consumer, device>>
  BY <1>1 DEF device
<1>3. need \in Nat /\ \A s \in Slots : pinned_round[s] <= need
  <2>1. S \in SUBSET (0 .. MaxRounds) /\ S # {} /\ \A s \in Slots : pinned_round[s] \in S
    BY <1>0, Constants DEF TypeOK
  <2>2. MaxRounds \in Nat  BY Constants
  <2> HIDE DEF S
  <2>3. Max(S) \in S /\ \A n \in S : n <= Max(S)  BY <2>1, <2>2, MaxIsGreatest
  <2>4. Max(S) \in 0 .. MaxRounds  BY <2>1, <2>3
  <2>5. Max(S) \in Nat  BY <2>2, <2>4
  <2>6. \A s \in Slots : pinned_round[s] <= Max(S)  BY <2>1, <2>3
  <2> QED  BY <2>5, <2>6
<1> HIDE DEF need
<1>4. /\ Len(transfer') \in {Len(transfer), Len(transfer) + 1} /\ Len(transfer) \in Nat
      /\ transfer' \in Seq(Transfers') /\ consumer' \in Seq(Replays')
      /\ SourcesHeld' /\ ReplaysSafe'
      /\ \A k \in DOMAIN consumer : consumer[k].op = "Replay" =>
            \/ \E j \in DOMAIN transfer' : WaitsFor(j, k)'
            \/ /\ Held(k)
               /\ \A i \in consumer[k].items : \A s \in Slots :
                     item_slot[i] = s => need < pinned_round[s]
  BY <1>1, <1>2, <1>3, ReclaimKeeps
<1>5. << >> \in Seq(Slots) /\ << >> \in Seq(Steps) /\ DOMAIN << >> = {}
  BY EmptySeq
<1>6. TypeOK'
  <2>1. {stalls', poisoned', unreleased'} \subseteq BOOLEAN  BY <1>0, <1>1, <1>2 DEF TypeOK
  <2>2. /\ publication' \in 0 .. Len(transfer')
        /\ stage' \in Stages /\ (BounceSlots > 0 => cursor' \in Bounces)
        /\ staging' \in [Stages -> [table : [Items -> Slots \cup {Absent}],
                                    fence : 0 .. Len(transfer')]]
        /\ bounce' \in [Bounces -> [item : Items \cup {Absent}, fence : 0 .. Len(transfer')]]
    BY <1>0, <1>1, <1>4, FencesKept
  <2>3. /\ reclaims' \in Seq([generation : 0 .. MaxRounds, fence : 0 .. Len(consumer')])
        /\ Len(reclaims') <= RECLAIM_FENCE_GENERATIONS
        /\ slots' \in [Slots -> Items \cup {Absent}]
        /\ table' \in [Items -> Slots \cup {Absent}]
        /\ round' \in 0 .. MaxRounds
    BY <1>0, <1>2 DEF TypeOK
  <2>4. /\ item_slot' \in [Items -> Slots \cup {Absent}]
        /\ slot_item' \in [Slots -> Items \cup {Absent}]
        /\ recency' \in Seq(Slots) /\ pinned_round' \in [Slots -> 0 .. MaxRounds]
        /\ pc' \in {"idle", "upload", "publish", "stall"}
        /\ plan' \in Seq(Steps) /\ uploads' \subseteq DOMAIN plan' /\ current' \subseteq Items
    BY <1>1, <1>5, Constants
  <2> QED  BY <1>4, <2>1, <2>2, <2>3, <2>4 DEF TypeOK
<1>7. CacheSound'
  <2>1. round \in Nat  BY <1>0, Constants DEF TypeOK
  <2>2. ToSet(recency') = {} /\ DOMAIN recency' = {}  BY <1>1, <1>5 DEF ToSet
  <2> QED  BY <1>1, <1>2, <2>1, <2>2 DEF CacheSound, Distinct
<1>8. CallSound'  BY <1>1, <1>2 DEF CallSound
<1>9. ClaimsHold'
  <2>1. \A i \in Items : item_slot'[i] = Absent  BY <1>1
  <2> QED  BY <1>1, <2>1, Constants DEF ClaimsHold
<1>10. ReplaysHeld'
  <2> SUFFICES ASSUME NEW k \in DOMAIN consumer, consumer[k].op = "Replay", Held(k),
                      \A i \in consumer[k].items : \A s \in Slots :
                         item_slot[i] = s => need < pinned_round[s]
               PROVE  Held(k)'
    BY <1>2, <1>4 DEF ReplaysHeld
  <2>1. ASSUME NEW i \in consumer[k].items PROVE FALSE
    <3>1. PICK s \in Slots : item_slot[i] = s  BY <2>1 DEF Held
    <3>2. need < pinned_round[s]  BY <2>1, <3>1
    <3>3. pinned_round \in [Slots -> 0 .. MaxRounds]  BY <1>0 DEF TypeOK
    <3>4. pinned_round[s] \in Nat /\ pinned_round[s] <= need  BY <1>3, <3>1, <3>3
    <3> QED  BY <1>3, <3>2, <3>4
  <2> QED  BY <1>2, <2>1 DEF Held
<1>11. CurrentHeld'  BY <1>0, <1>1, <1>2 DEF CurrentHeld
<1> QED  BY <1>4, <1>6, <1>7, <1>8, <1>9, <1>10, <1>11 DEF IInv

(* The consumer's side: fence_replay and a replay.                         *)
LEMMA LaunchReplayKeeps ==
    ASSUME IInv, LaunchReplay
    PROVE  IInv'
<1> DEFINE m == Len(consumer)  wait == Wait(publication)  replay == Replay(current)
<1>0. TypeOK /\ CacheSound /\ CallSound /\ SourcesHeld /\ ClaimsHold /\ ReplaysSafe
      /\ ReplaysHeld /\ CurrentHeld
  BY DEF IInv
<1>1. /\ pc = "idle" /\ ~poisoned
      /\ consumer' = consumer \o << wait >> \o << replay >>
      /\ unreleased' = TRUE
      /\ UNCHANGED <<cache, call, poisoned, publication, reclaims, rings, current, transfer, device>>
  BY DEF LaunchReplay, FenceReplay
<1>2. /\ item_slot' = item_slot /\ slot_item' = slot_item /\ recency' = recency
      /\ pinned_round' = pinned_round /\ round' = round
      /\ pc' = pc /\ uploads' = uploads /\ plan' = plan /\ stalls' = stalls
      /\ poisoned' = poisoned /\ publication' = publication /\ reclaims' = reclaims
      /\ stage' = stage /\ cursor' = cursor /\ current' = current
      /\ staging' = staging /\ bounce' = bounce /\ slots' = slots /\ table' = table
      /\ transfer' = transfer
  BY <1>1 DEF cache, call, rings, device
<1>3. m \in Nat /\ DOMAIN consumer = 1 .. m /\ consumer \in Seq(Replays)
  BY <1>0, ConsumerFacts DEF TypeOK
<1>4. publication = Len(transfer) /\ Len(transfer) \in Nat
  BY <1>0, <1>1, TransferFacts DEF CallSound
<1>5. wait \in Replays /\ wait.op = "Wait" /\ wait.left = publication
  BY <1>4 DEF Replays, Waits, Wait
<1>6. replay \in Replays /\ replay.op = "Replay" /\ replay.items = current
  BY <1>0 DEF Replays, Replay, TypeOK
<1> HIDE DEF m, wait, replay
<1>7. /\ consumer' \in Seq(Replays) /\ Len(consumer') = m + 2
      /\ \A k \in 1 .. m : consumer'[k] = consumer[k]
      /\ consumer'[m + 1] = wait /\ consumer'[m + 2] = replay
  <2> DEFINE c == Append(consumer, wait)
  <2>1. /\ c \in Seq(Replays) /\ Len(c) = m + 1 /\ c[m + 1] = wait
        /\ \A k \in 1 .. m : c[k] = consumer[k]
    BY <1>3, <1>5, AppendProperties DEF m
  <2>2. c = consumer \o << wait >>  BY <1>3, <1>5, AppendIsConcat
  <2> HIDE DEF c
  <2>3. consumer' = Append(c, replay)  BY <1>1, <1>6, <2>1, <2>2, AppendIsConcat
  <2>4. /\ consumer' \in Seq(Replays) /\ Len(consumer') = (m + 1) + 1
        /\ consumer'[(m + 1) + 1] = replay /\ \A k \in 1 .. m + 1 : consumer'[k] = c[k]
    BY <1>6, <2>1, <2>3, AppendProperties
  <2>5. (m + 1) + 1 = m + 2 /\ m + 1 \in 1 .. m + 1 /\ 1 .. m \subseteq 1 .. m + 1  BY <1>3
  <2> QED  BY <2>1, <2>4, <2>5
<1>8. DOMAIN consumer' = 1 .. m + 2  BY <1>7, LenProperties
<1>9. transfer' \in Seq(Transfers')
  <2> DEFINE R == Transfers'
  <2>1. 0 .. m \subseteq 0 .. Len(consumer')  BY <1>3, <1>7
  <2>2. Transfers \subseteq R  BY <2>1 DEF Transfers, Waits, m
  <2>3. transfer \in Seq(Transfers)  BY <1>0 DEF TypeOK
  <2> HIDE DEF R
  <2>4. transfer \in Seq(R)  BY <2>2, <2>3, SeqWidens
  <2> QED  BY <1>2, <2>4 DEF R
<1>10. reclaims' \in Seq([generation : 0 .. MaxRounds, fence : 0 .. Len(consumer')])
  <2> DEFINE Q == [generation : 0 .. MaxRounds, fence : 0 .. m]
             R == [generation : 0 .. MaxRounds, fence : 0 .. Len(consumer')]
  <2>1. 0 .. m \subseteq 0 .. Len(consumer')  BY <1>3, <1>7
  <2>2. Q \subseteq R  BY <2>1
  <2>3. reclaims \in Seq(Q)  BY <1>0 DEF TypeOK, m
  <2> HIDE DEF Q, R
  <2>4. reclaims \in Seq(R)  BY <2>2, <2>3, SeqWidens
  <2> QED  BY <1>2, <2>4 DEF R
<1>11. TypeOK'
  <2>1. consumer' \in Seq(Replays')  BY <1>2, <1>7 DEF Replays, Waits
  <2>2. {stalls', poisoned', unreleased'} \subseteq BOOLEAN  BY <1>0, <1>1, <1>2 DEF TypeOK
  <2> QED  BY <1>0, <1>2, <1>9, <1>10, <2>1, <2>2 DEF TypeOK
<1>12. CacheSound'  BY <1>0, <1>2 DEF CacheSound
<1>13. CallSound'  BY <1>0, <1>1, <1>2 DEF CallSound
<1>14. SourcesHeld'  BY <1>0, <1>2 DEF SourcesHeld
<1>15. /\ \A s, i, q : /\ Holds(s, i, q)' <=> Holds(s, i, q)
                       /\ Leads(i, s, q)' <=> Leads(i, s, q)
       /\ \A s, i : /\ WillHold(s, i)' <=> WillHold(s, i)
                    /\ WillLead(i, s)' <=> WillLead(i, s)
       /\ \A s : ~Overwrites(s) /\ ~Overwrites(s)'
       /\ \A j, k : WaitsFor(j, k)' <=> WaitsFor(j, k)
  <2>1. \A s, i, q : /\ Holds(s, i, q)' <=> Holds(s, i, q)
                     /\ Leads(i, s, q)' <=> Leads(i, s, q)
    BY <1>2, FrameHolds
  <2>2. \A s, i : /\ WillHold(s, i)' <=> WillHold(s, i)
                  /\ WillLead(i, s)' <=> WillLead(i, s)
    BY <1>2 DEF WillHold, WillLead, Holds, Leads, Written
  <2>3. \A s : ~Overwrites(s) /\ ~Overwrites(s)'  BY <1>1, <1>2 DEF Overwrites
  <2>4. \A j, k : WaitsFor(j, k)' <=> WaitsFor(j, k)  BY <1>2 DEF WaitsFor
  <2> QED  BY <2>1, <2>2, <2>3, <2>4
<1>16. ClaimsHold'  BY <1>0, <1>1, <1>2, <1>15 DEF ClaimsHold
<1>17. \A k \in DOMAIN consumer' : consumer'[k].op = "Replay" => k \in 1 .. m \/ k = m + 2
  BY <1>3, <1>5, <1>7, <1>8
<1>18. ReplaysSafe'
  <2> SUFFICES ASSUME NEW k \in DOMAIN consumer', consumer'[k].op = "Replay",
                      NEW q \in Reached(k)' .. Len(transfer),
                      \A j \in 1 .. q : ~WaitsFor(j, k),
                      NEW i \in consumer'[k].items
               PROVE  \E s \in Slots : Leads(i, s, q) /\ Holds(s, i, q)
    BY <1>2, <1>15 DEF ReplaysSafe
  <2>1. CASE k \in 1 .. m
    <3>1. k > 1 => consumer'[k - 1] = consumer[k - 1]  BY <1>3, <1>7, <2>1
    <3>2. Reached(k)' = Reached(k)  BY <3>1 DEF Reached
    <3> QED  BY <1>0, <1>3, <1>7, <2>1, <3>2 DEF ReplaysSafe
  <2>2. CASE k = m + 2
    <3>1. k > 1 /\ k - 1 = m + 1  BY <1>3, <2>2
    <3>2. Reached(k)' = publication  BY <1>5, <1>7, <3>1 DEF Reached
    <3>3. q = Len(transfer)  BY <1>4, <3>2
    <3>4. i \in current /\ i \in Items  BY <1>0, <1>6, <1>7, <2>2 DEF TypeOK
    <3>5. item_slot[i] # Absent  BY <1>0, <1>1, <3>4 DEF CurrentHeld
    <3>6. item_slot[i] \in Slots  BY <1>0, <3>4, <3>5 DEF TypeOK
    <3>7. WillLead(i, item_slot[i]) /\ WillHold(item_slot[i], i)
      BY <1>0, <1>1, <1>15, <3>4, <3>6 DEF ClaimsHold
    <3> QED  BY <3>3, <3>6, <3>7 DEF WillLead, WillHold
  <2> QED  BY <1>17, <2>1, <2>2
<1>19. ReplaysHeld'
  <2> SUFFICES ASSUME NEW k \in DOMAIN consumer', consumer'[k].op = "Replay"
               PROVE  Held(k)' \/ \E j \in DOMAIN transfer : WaitsFor(j, k)
    BY <1>2, <1>15 DEF ReplaysHeld
  <2>1. CASE k \in 1 .. m
    <3>1. consumer'[k] = consumer[k] /\ k \in DOMAIN consumer  BY <1>3, <1>7, <2>1
    <3>2. CASE Held(k)  BY <1>2, <1>15, <3>1, <3>2 DEF Held
    <3>3. CASE \E j \in DOMAIN transfer : WaitsFor(j, k)  BY <3>3
    <3> QED  BY <1>0, <1>1, <3>1, <3>2, <3>3 DEF ReplaysHeld
  <2>2. CASE k = m + 2
    <3>1. ASSUME NEW i \in current
          PROVE  \E s \in Slots :
                    /\ item_slot'[i] = s /\ ~Overwrites(s)' /\ WillLead(i, s)'
                    /\ \A r \in DOMAIN reclaims' :
                          reclaims'[r].generation >= pinned_round'[s] => reclaims'[r].fence >= k
      <4>1. i \in Items /\ item_slot[i] # Absent /\ pinned_round[item_slot[i]] = round
            /\ \A r \in DOMAIN reclaims : reclaims[r].generation < round
        BY <1>0, <1>1, <3>1 DEF CurrentHeld, TypeOK
      <4>2. item_slot[i] \in Slots  BY <1>0, <4>1 DEF TypeOK
      <4>3. WillLead(i, item_slot[i])  BY <1>0, <1>1, <4>1, <4>2 DEF ClaimsHold
      <4>4. MaxRounds \in Nat /\ round \in 0 .. MaxRounds  BY <1>0, Constants DEF TypeOK
      <4>5. \A r \in DOMAIN reclaims : reclaims[r].generation \in Nat  BY <1>0, ReclaimFacts
      <4>6. \A r \in DOMAIN reclaims : ~(reclaims[r].generation >= round)
        BY <4>1, <4>4, <4>5
      <4>7. PICK s \in Slots : s = item_slot[i]  BY <4>2
      <4>8. pinned_round[s] = round /\ WillLead(i, s) /\ item_slot[i] = s
        BY <4>1, <4>3, <4>7
      <4>9. item_slot'[i] = s /\ ~Overwrites(s)'  BY <1>2, <1>15, <4>7
      <4>10. WillLead(i, s)'  BY <1>15, <4>8
      <4> QED  BY <1>2, <4>6, <4>8, <4>9, <4>10
    <3>2. consumer'[k].items = current  BY <1>6, <1>7, <2>2
    <3> QED  BY <3>1, <3>2 DEF Held
  <2> QED  BY <1>17, <2>1, <2>2
<1>20. CurrentHeld'  BY <1>0, <1>2 DEF CurrentHeld
<1> QED  BY <1>11, <1>12, <1>13, <1>14, <1>16, <1>18, <1>19, <1>20 DEF IInv

(* record_replay_release: the newest fence follows every replay there is.  *)
LEMMA NewestAre ==
    ASSUME NEW T, NEW seq \in Seq(T), NEW e \in T, NEW n \in Nat \ {0}
    PROVE  /\ Newest(Append(seq, e), n) \in Seq(T)
           /\ Len(Newest(Append(seq, e), n)) <= n
           /\ ToSet(Newest(Append(seq, e), n)) \subseteq ToSet(seq) \cup {e}
<1> DEFINE l == Append(seq, e)  first == Max({1, Len(l) - n + 1})
           new == SubSeq(l, first, Len(l))
<1>1. Len(seq) \in Nat /\ DOMAIN seq = 1 .. Len(seq)  BY LenProperties
<1>2. /\ l \in Seq(T) /\ Len(l) = Len(seq) + 1 /\ l[Len(seq) + 1] = e
      /\ \A k \in 1 .. Len(seq) : l[k] = seq[k]
  BY <1>1, AppendProperties
<1> HIDE DEF l
<1>3. first \in 1 .. Len(l) /\ first >= Len(l) - n + 1
  <2> DEFINE a == Len(l) - n + 1
  <2>1. a \in Int /\ a <= Len(l) /\ Len(l) >= 1 /\ Len(l) \in Nat  BY <1>1, <1>2
  <2> HIDE DEF a
  <2>2. \E x \in {1, a} : \A y \in {1, a} : y <= x
    <3>1. CASE a <= 1  BY <2>1, <3>1
    <3>2. CASE ~(a <= 1)  BY <2>1, <3>2
    <3> QED  BY <3>1, <3>2
  <2>3. Max({1, a}) \in {1, a} /\ \A y \in {1, a} : y <= Max({1, a})
    BY <2>2 DEF Max
  <2>4. first = Max({1, a})  BY DEF a
  <2> HIDE DEF first
  <2>5. first \in {1, a} /\ 1 <= first /\ a <= first  BY <2>3, <2>4
  <2>6. first \in 1 .. Len(l)  BY <2>1, <2>5
  <2> QED  BY <2>1, <2>5, <2>6 DEF a
<1> HIDE DEF first
<1>4. first \in Int /\ Len(l) \in Nat /\ first - 1 <= Len(l)  BY <1>1, <1>2, <1>3
<1>5. \A k \in first .. Len(l) : l[k] \in T
  <2>1. \A k \in 1 .. Len(l) : l[k] \in T  BY <1>2, ElementOfSeq
  <2> QED  BY <1>3, <1>4, <2>1
<1>6. /\ new \in Seq(T) /\ Len(new) = Len(l) - first + 1
      /\ \A k \in 1 .. Len(l) - first + 1 : new[k] = l[first + k - 1]
  BY <1>2, <1>3, <1>4, <1>5, SubSeqProperties
<1>7. DOMAIN new = 1 .. Len(l) - first + 1  BY <1>6, LenProperties
<1>8. new = Newest(Append(seq, e), n)  BY DEF Newest, new, first, l
<1> HIDE DEF new
<1>9. ASSUME NEW r \in DOMAIN new PROVE new[r] = e \/ \E q \in DOMAIN seq : new[r] = seq[q]
  <2> DEFINE k == first + r - 1
  <2>1. k \in 1 .. Len(seq) + 1  BY <1>1, <1>2, <1>3, <1>7
  <2>2. new[r] = l[k]  BY <1>6, <1>7
  <2> HIDE DEF k
  <2>3. CASE k = Len(seq) + 1  BY <1>2, <2>2, <2>3
  <2>4. CASE k \in 1 .. Len(seq)  BY <1>1, <1>2, <2>2, <2>4
  <2> QED  BY <1>1, <2>1, <2>3, <2>4
<1>10. Len(new) <= n  BY <1>2, <1>3, <1>4, <1>6
<1>11. ToSet(new) \subseteq ToSet(seq) \cup {e}  BY <1>9 DEF ToSet
<1> QED  BY <1>6, <1>8, <1>10, <1>11

LEMMA RecordReleaseKeeps ==
    ASSUME IInv, RecordRelease
    PROVE  IInv'
<1> DEFINE release == [generation |-> round, fence |-> Len(consumer)]
           T == [generation : 0 .. MaxRounds, fence : 0 .. Len(consumer)]
<1>0. TypeOK /\ CacheSound /\ CallSound /\ SourcesHeld /\ ClaimsHold /\ ReplaysSafe
      /\ ReplaysHeld /\ CurrentHeld
  BY DEF IInv
<1>1. /\ pc = "idle"
      /\ reclaims' = Newest(Append(reclaims, release), RECLAIM_FENCE_GENERATIONS)
      /\ unreleased' = FALSE /\ current' = {}
      /\ UNCHANGED <<cache, call, poisoned, publication, rings, transfer, consumer, device>>
  BY DEF RecordRelease
<1>2. /\ item_slot' = item_slot /\ slot_item' = slot_item /\ recency' = recency
      /\ pinned_round' = pinned_round /\ round' = round
      /\ pc' = pc /\ uploads' = uploads /\ plan' = plan /\ stalls' = stalls
      /\ poisoned' = poisoned /\ publication' = publication
      /\ stage' = stage /\ cursor' = cursor /\ staging' = staging /\ bounce' = bounce
      /\ slots' = slots /\ table' = table /\ transfer' = transfer /\ consumer' = consumer
      /\ UNCHANGED rings /\ UNCHANGED device
  BY <1>1 DEF cache, call, rings, device
<1>3. Len(consumer) \in Nat /\ DOMAIN consumer = 1 .. Len(consumer)  BY <1>0, ConsumerFacts
<1>4. release \in T  BY <1>0, <1>3 DEF TypeOK
<1>5. reclaims \in Seq(T) /\ RECLAIM_FENCE_GENERATIONS \in Nat \ {0}
  BY <1>0, Constants DEF TypeOK
<1>6. release.generation = round /\ release.fence = Len(consumer)  OBVIOUS
<1> HIDE DEF release, T
<1>7. /\ reclaims' \in Seq(T) /\ Len(reclaims') <= RECLAIM_FENCE_GENERATIONS
      /\ \A r \in DOMAIN reclaims' :
            reclaims'[r] = release \/ \E q \in DOMAIN reclaims : reclaims'[r] = reclaims[q]
  <2> DEFINE n == RECLAIM_FENCE_GENERATIONS  seq == reclaims
             new == Newest(Append(seq, release), n)
  <2>1. n \in Nat \ {0} /\ seq \in Seq(T) /\ reclaims' = new  BY <1>1, <1>5
  <2> HIDE DEF n, seq
  <2>2. new \in Seq(T)  BY <1>4, <2>1, NewestAre
  <2>3. Len(new) <= n  BY <1>4, <2>1, NewestAre
  <2>4. ToSet(new) \subseteq ToSet(seq) \cup {release}  BY <1>4, <2>1, NewestAre
  <2> HIDE DEF new
  <2>5. \A r \in DOMAIN new : new[r] = release \/ \E q \in DOMAIN seq : new[r] = seq[q]
    BY <2>4 DEF ToSet
  <2> QED  BY <2>1, <2>2, <2>3, <2>5 DEF n, seq
<1>8. /\ transfer' \in Seq(Transfers') /\ consumer' \in Seq(Replays')
      /\ \A i, s : /\ WillHold(s, i) => WillHold(s, i)'
                   /\ WillLead(i, s) => WillLead(i, s)'
      /\ \A j, k : WaitsFor(j, k)' <=> WaitsFor(j, k)
      /\ SourcesHeld' /\ ReplaysSafe'
  BY <1>0, <1>2, StreamsKept
<1>9. TypeOK'
  <2>1. reclaims' \in Seq([generation : 0 .. MaxRounds, fence : 0 .. Len(consumer')])
    BY <1>2, <1>7 DEF T
  <2>2. {stalls', poisoned', unreleased'} \subseteq BOOLEAN  BY <1>0, <1>1, <1>2 DEF TypeOK
  <2>3. current' \subseteq Items  BY <1>1
  <2> QED  BY <1>0, <1>2, <1>7, <1>8, <2>1, <2>2, <2>3 DEF TypeOK
<1>10. CacheSound'  BY <1>0, <1>2 DEF CacheSound
<1>11. CallSound'  BY <1>0, <1>1, <1>2 DEF CallSound
<1>12. \A s : ~Overwrites(s) /\ ~Overwrites(s)'  BY <1>1, <1>2 DEF Overwrites
<1>13. ClaimsHold'  BY <1>0, <1>1, <1>2, <1>8, <1>12 DEF ClaimsHold
<1>14. ReplaysHeld'
  <2> SUFFICES ASSUME ~poisoned, NEW k \in DOMAIN consumer, consumer[k].op = "Replay"
               PROVE  Held(k)' \/ \E j \in DOMAIN transfer' : WaitsFor(j, k)'
    BY <1>2 DEF ReplaysHeld
  <2>1. CASE Held(k)
    <3>1. release.fence >= k  BY <1>3, <1>6
    <3>2. ASSUME NEW i \in consumer[k].items
          PROVE  \E s \in Slots :
                    /\ item_slot[i] = s /\ ~Overwrites(s)' /\ WillLead(i, s)'
                    /\ \A r \in DOMAIN reclaims' :
                          reclaims'[r].generation >= pinned_round[s] => reclaims'[r].fence >= k
      <4>1. PICK s \in Slots :
              /\ item_slot[i] = s /\ ~Overwrites(s) /\ WillLead(i, s)
              /\ \A r \in DOMAIN reclaims :
                    reclaims[r].generation >= pinned_round[s] => reclaims[r].fence >= k
        BY <2>1, <3>2 DEF Held
      <4>2. \A r \in DOMAIN reclaims' :
               reclaims'[r].generation >= pinned_round[s] => reclaims'[r].fence >= k
        BY <1>7, <3>1, <4>1
      <4> QED  BY <1>8, <1>12, <4>1, <4>2
    <3> QED  BY <1>2, <3>2 DEF Held
  <2>2. CASE \E j \in DOMAIN transfer : WaitsFor(j, k)  BY <1>2, <1>8, <2>2
  <2> QED  BY <1>0, <2>1, <2>2 DEF ReplaysHeld
<1>15. CurrentHeld'
  <2>1. MaxRounds \in Nat /\ round \in 0 .. MaxRounds  BY <1>0, Constants DEF TypeOK
  <2>2. \A r \in DOMAIN reclaims' : reclaims'[r].generation <= round'
    BY <1>0, <1>2, <1>6, <1>7, <2>1 DEF CurrentHeld
  <2> QED  BY <1>1, <2>2 DEF CurrentHeld
<1> QED  BY <1>8, <1>9, <1>10, <1>11, <1>13, <1>14, <1>15 DEF IInv

-----------------------------------------------------------------------------
(* The invariant holds of every state, and what follows from it.           *)

LEMMA NothingKeeps ==
    ASSUME IInv, UNCHANGED vars
    PROVE  IInv'
<1>1. /\ item_slot' = item_slot /\ slot_item' = slot_item /\ recency' = recency
      /\ pinned_round' = pinned_round /\ round' = round
      /\ pc' = pc /\ uploads' = uploads /\ plan' = plan /\ stalls' = stalls
      /\ poisoned' = poisoned /\ publication' = publication /\ reclaims' = reclaims
      /\ stage' = stage /\ cursor' = cursor /\ current' = current
      /\ unreleased' = unreleased /\ staging' = staging /\ bounce' = bounce
      /\ slots' = slots /\ table' = table /\ transfer' = transfer /\ consumer' = consumer
      /\ UNCHANGED rings /\ UNCHANGED device
  BY DEF vars, cache, call, rings, device
<1>0. TypeOK /\ CacheSound /\ CallSound /\ SourcesHeld /\ ClaimsHold /\ ReplaysSafe
      /\ ReplaysHeld /\ CurrentHeld
  BY DEF IInv
<1>2. /\ transfer' \in Seq(Transfers') /\ consumer' \in Seq(Replays')
      /\ \A i, s : /\ WillHold(s, i) => WillHold(s, i)'
                   /\ WillLead(i, s) => WillLead(i, s)'
      /\ \A j, k : WaitsFor(j, k)' <=> WaitsFor(j, k)
      /\ SourcesHeld' /\ ReplaysSafe'
  BY <1>0, <1>1, StreamsKept
<1>3. TypeOK'  BY <1>0, <1>1, <1>2 DEF TypeOK
<1>4. CacheSound'  BY <1>0, <1>1 DEF CacheSound
<1>5. /\ Admissions(plan)' = Admissions(plan) /\ Asked(plan)' = Asked(plan)
      /\ PlanSound(plan)' <=> PlanSound(plan)
      /\ \A s : Overwrites(s)' <=> Overwrites(s)
  BY <1>1 DEF PlanSound, Admissions, Asked, Overwrites, Overwritten
<1>6. CallSound'  BY <1>0, <1>1, <1>5 DEF CallSound
<1>7. ClaimsHold'  BY <1>0, <1>1, <1>2, <1>5 DEF ClaimsHold
<1>8. ReplaysHeld'  BY <1>0, <1>1, <1>2, <1>5 DEF ReplaysHeld, Held
<1>9. CurrentHeld'  BY <1>0, <1>1 DEF CurrentHeld
<1> QED  BY <1>2, <1>3, <1>4, <1>6, <1>7, <1>8, <1>9 DEF IInv

LEMMA StepHolds ==
    IInv /\ [Next]_vars => IInv'
<1> SUFFICES ASSUME IInv, [Next]_vars PROVE IInv'  OBVIOUS
<1>1. ASSUME NEW items \in Requests, RoundRefused(items) PROVE IInv'
  BY <1>1, NothingKeeps DEF RoundRefused
<1>2. ASSUME NEW items \in Requests, NEW stall \in BOOLEAN, Round(items, stall) PROVE IInv'
  <2>1. PICK steps : steps = PlanRound(items)  OBVIOUS
  <2>2. CASE Admissions(steps) = {}  BY <1>2, <2>1, <2>2, HitRoundKeeps
  <2>3. CASE Admissions(steps) # {}  BY <1>2, <2>1, <2>3, MissRoundKeeps
  <2> QED  BY <2>2, <2>3
<1>3. ASSUME EnqueueUpload PROVE IInv'
  <2>1. PICK u \in uploads, op \in Transfers : IsUpload(u, op)
    BY <1>3, UploadOf DEF IInv
  <2>2. CASE uploads' = {}  BY <1>3, <2>1, <2>2, LastUploadKeeps
  <2>3. CASE uploads' # {}  BY <1>3, <2>1, <2>3, NextUploadKeeps
  <2> QED  BY <2>2, <2>3
<1>4. CASE Publish  BY <1>4, PublishKeeps
<1>5. CASE Stall  BY <1>5, StallKeeps
<1>6. CASE CallFails  BY <1>6, CallFailsKeeps
<1>7. CASE Reset  BY <1>7, ResetKeeps
<1>8. CASE LaunchReplay  BY <1>8, LaunchReplayKeeps
<1>9. CASE RecordRelease  BY <1>9, RecordReleaseKeeps
<1>10. CASE ForwardFails  BY <1>10, ForwardFailsKeeps
<1>11. CASE TransferStep  BY <1>11, TransferStepKeeps
<1>12. CASE ConsumerStep  BY <1>12, ConsumerStepKeeps
<1>13. CASE Stopped  BY <1>13, NothingKeeps DEF Stopped
<1>14. CASE UNCHANGED vars  BY <1>14, NothingKeeps
<1> QED
  BY <1>1, <1>2, <1>3, <1>4, <1>5, <1>6, <1>7, <1>8, <1>9, <1>10, <1>11, <1>12, <1>13, <1>14
  DEF Next

LEMMA Invariance == Spec => []IInv
<1>1. Init => IInv  BY InitHolds
<1>2. IInv /\ [Next]_vars => IInv'  BY StepHolds
<1> QED  BY <1>1, <1>2, PTL DEF Spec

(* The variables have their types: slots and items where the code indexes  *)
(* with them, no fence beyond its stream, no more reclaim fences than are  *)
(* kept.                                                                   *)
THEOREM TypeCorrect == Spec => []TypeOK
<1>1. IInv => TypeOK  BY DEF IInv
<1> QED  BY <1>1, Invariance, PTL

(* However the host and the two streams interleave, a replay that reaches  *)
(* the head of the consumer stream finds the table leading every item of   *)
(* its round to the item's bytes (fence_replay, wait_reclaim and           *)
(* record_replay_release of StreamingWeightPool).                          *)
THEOREM ReplaysReadTheirItems == Spec => []ReplayReadsItsItems
<1>1. ASSUME IInv PROVE ReplayReadsItsItems
  <2> SUFFICES ASSUME consumer # << >>, Head(consumer).op = "Replay",
                      NEW i \in Head(consumer).items
               PROVE  table[i] \in Slots /\ slots[table[i]] = i
    BY DEF ReplayReadsItsItems
  <2>0. TypeOK /\ ReplaysSafe  BY <1>1 DEF IInv
  <2>1. consumer \in Seq(Replays) /\ Len(consumer) \in Nat /\ DOMAIN consumer = 1 .. Len(consumer)
        /\ Len(transfer) \in Nat
    BY <2>0, ConsumerFacts, TransferFacts DEF TypeOK
  <2>2. 1 \in DOMAIN consumer /\ Head(consumer) = consumer[1]
    BY <2>1, EmptySeq, HeadTailProperties
  <2>3. Reached(1) = 0  BY DEF Reached
  <2>4. 0 \in Reached(1) .. Len(transfer) /\ \A j \in 1 .. 0 : ~WaitsFor(j, 1)
    BY <2>1, <2>3
  <2>5. PICK s \in Slots : Leads(i, s, 0) /\ Holds(s, i, 0)
    BY <2>0, <2>2, <2>4 DEF ReplaysSafe
  <2>6. table[i] = s /\ slots[s] = i  BY <2>5 DEF Leads, Holds
  <2> QED  BY <2>6
<1> QED  BY <1>1, Invariance, PTL

(* No bounce slot and no staging copy of the table is rewritten before the *)
(* copy that reads it has run (PinnedBounceRing, publish_table).           *)
THEOREM SourcesStayStable == Spec => []SourcesStable
<1>1. IInv => SourcesStable  BY DEF IInv, SourcesHeld, SourcesStable
<1> QED  BY <1>1, Invariance, PTL

(* Between calls of a pool that is not poisoned, what the cache claims is  *)
(* what the device holds once the uploads have run.                        *)
THEOREM ResidencyHolds == Spec => []ResidencyIsReal
<1>1. ASSUME IInv PROVE ResidencyIsReal
  <2> SUFFICES ASSUME ~poisoned, pc = "idle", transfer = << >>
               PROVE  /\ table = item_slot
                      /\ \A i \in Items : item_slot[i] # Absent => slots[item_slot[i]] = i
    BY DEF ResidencyIsReal
  <2>0. TypeOK /\ ClaimsHold  BY <1>1 DEF IInv
  <2>1. Len(transfer) = 0 /\ DOMAIN transfer = {}  BY EmptySeq
  <2>2. item_slot \in [Items -> Slots \cup {Absent}] /\ table \in [Items -> Slots \cup {Absent}]
    BY <2>0 DEF TypeOK
  <2>3. ASSUME NEW i \in Items PROVE table[i] = item_slot[i]
    <3>1. PICK s \in Slots \cup {Absent} : item_slot[i] = s  BY <2>2
    <3>2. WillLead(i, s)  BY <2>0, <3>1 DEF ClaimsHold
    <3> QED  BY <2>1, <3>1, <3>2 DEF WillLead, Leads
  <2>4. ASSUME NEW i \in Items, item_slot[i] # Absent PROVE slots[item_slot[i]] = i
    <3>1. PICK s \in Slots : item_slot[i] = s  BY <2>2, <2>4
    <3>2. ~Overwrites(s)  BY DEF Overwrites
    <3>3. WillHold(s, i)  BY <2>0, <3>1, <3>2 DEF ClaimsHold
    <3> QED  BY <2>1, <3>1, <3>3 DEF WillHold, Holds
  <2> QED  BY <2>2, <2>3, <2>4
<1> QED  BY <1>1, Invariance, PTL

(* The two tables of the cache are each other's inverse, the recency list  *)
(* has each occupied slot once, its readers in order (ResidencyCache).     *)
THEOREM CacheAlwaysAgrees == Spec => []CacheAgrees
<1>1. ASSUME IInv PROVE CacheAgrees
  <2>0. TypeOK /\ CacheSound  BY <1>1 DEF IInv
  <2>1. recency \in Seq(Slots) /\ Len(recency) \in Nat /\ DOMAIN recency = 1 .. Len(recency)
    BY <2>0, LenProperties DEF TypeOK
  <2>2. Len(recency) = Cardinality(ToSet(recency))
    BY <2>0, <2>1, DistinctCounts DEF CacheSound
  <2>3. ASSUME NEW k \in 1 .. Len(recency) - 1
        PROVE  pinned_round[recency[k]] <= pinned_round[recency[k + 1]]
    <3>1. k \in DOMAIN recency /\ k + 1 \in DOMAIN recency /\ k <= k + 1  BY <2>1
    <3> QED  BY <2>0, <3>1 DEF CacheSound
  <2> QED  BY <2>0, <2>2, <2>3 DEF CacheSound, CacheAgrees
<1> QED  BY <1>1, Invariance, PTL

(* A committed round holds every item it asked for, also one that an       *)
(* earlier miss of the same round evicted (plan_round and                  *)
(* commit_planned_round).                                                  *)
THEOREM RoundsAreResident == Spec => RoundIsResident
<1>1. ASSUME IInv, [Next]_vars
      PROVE  [round' # round => \A i \in current' : item_slot'[i] # Absent]_vars
  <2> SUFFICES ASSUME round' # round, NEW i \in current' PROVE item_slot'[i] # Absent
    OBVIOUS
  <2>0. TypeOK /\ CacheSound /\ CallSound  BY <1>1 DEF IInv
  <2>1. ASSUME NEW steps \in Seq(Steps), PlanSound(steps), round < MaxRounds, Commit(steps),
               current' = Asked(steps)
        PROVE  item_slot'[i] # Absent
    <3>1. \A k \in DOMAIN steps : item_slot'[steps[k].item] = steps[k].slot
      BY <2>0, <2>1, CommitMoves
    <3>2. PICK k \in DOMAIN steps : steps[k].item = i  BY <2>1 DEF Asked
    <3>3. steps[k].slot \in Slots  BY StepFacts
    <3> QED  BY <3>1, <3>2, <3>3, Constants
  <2>2. ASSUME NEW items \in Requests, NEW stall \in BOOLEAN, Round(items, stall)
        PROVE  item_slot'[i] # Absent
    <3>1. PICK steps : steps = PlanRound(items)  OBVIOUS
    <3>2. /\ round < MaxRounds /\ steps \in Seq(Steps) /\ PlanSound(steps)
          /\ current' = Asked(steps)
          /\ Admissions(steps) = {} => Commit(steps)
          /\ Admissions(steps) # {} => UNCHANGED cache
      BY <2>0, <2>2, <3>1, RoundPlan
    <3>3. Admissions(steps) = {}  BY <3>2 DEF cache
    <3> QED  BY <2>1, <3>2, <3>3
  <2>3. ASSUME EnqueueUpload PROVE item_slot'[i] # Absent
    <3>1. pc = "upload" /\ current' = current  BY <2>3 DEF EnqueueUpload
    <3>2. plan \in Seq(Steps) /\ PlanSound(plan) /\ current = Asked(plan) /\ round < MaxRounds
      BY <2>0, <3>1 DEF CallSound, TypeOK
    <3>3. Commit(plan)  BY <2>3 DEF EnqueueUpload, cache
    <3> QED  BY <2>1, <3>1, <3>2, <3>3
  <2>4. CASE \/ Publish \/ Stall \/ CallFails \/ LaunchReplay \/ RecordRelease \/ ForwardFails
             \/ TransferStep \/ ConsumerStep
    BY <2>4 DEF Publish, Stall, CallFails, LaunchReplay, RecordRelease, ForwardFails,
                TransferStep, ConsumerStep, cache
  <2>5. CASE Reset  BY <2>5 DEF Reset
  <2>6. CASE Stopped \/ UNCHANGED vars \/ \E items \in Requests : RoundRefused(items)
    BY <2>6 DEF Stopped, RoundRefused, vars, cache
  <2> QED  BY <1>1, <2>2, <2>3, <2>4, <2>5, <2>6 DEF Next
<1> QED  BY <1>1, Invariance, PTL DEF Spec, RoundIsResident

=============================================================================
