--------------------------- MODULE FlashMtp_proofs ---------------------------
(***************************************************************************)
(* Proofs about FlashMtp for any prompts, budgets, pages, draft window and *)
(* tile, and for whatever the model generates and the draft proposes.      *)
(***************************************************************************)
EXTENDS FlashMtp, FiniteSetTheorems, SequenceTheorems, TLAPS

-----------------------------------------------------------------------------
(* The inductive invariant.                                                *)

Letters == Token \cup {Garbage} \cup UNION { Range(r.prompt) : r \in Requests }
Said == request.prompt \o generated

(* The pool and the device are records of what the model gives them.       *)
IsPool(p) ==
    /\ p = [free |-> p.free, pages |-> p.pages, tokens |-> p.tokens,
            active |-> p.active, epoch |-> p.epoch]
    /\ p.free \in Seq(Pages) /\ p.pages \in Seq(Pages)
    /\ p.tokens \in Nat /\ p.active \in BOOLEAN /\ p.epoch \in Nat
IsDevice(d) ==
    d = [table |-> d.table, kv |-> d.kv, keys |-> d.keys, mirror |-> d.mirror,
         ring |-> d.ring, recurrent |-> d.recurrent, carry |-> d.carry,
         published |-> d.published]

(* Every funded page is free or mapped, and only once.                     *)
Partition(p) ==
    /\ Len(p.free) + Len(p.pages) = FundedPages
    /\ ToSet(p.free) \cup ToSet(p.pages) = Pages

(* The K/V rows, and the draft's rows, of the first n tokens of a text.    *)
Rows(d, text, n) ==
    \A p \in 0 .. n - 1 : d.kv[Cell(d, p)] = SubSeq(text, 1, p + 1)
Mirrored(d, text, n) ==
    \A p \in 0 .. n - 1 :
        d.mirror[Cell(d, p)] = [stream |-> SubSeq(text, 1, p), token |-> text[p + 1]]

(* The recurrent state, and with it the carry, of n tokens of a text.      *)
Ran(d, text, n) == d.recurrent = SubSeq(text, 1, n) /\ Rows(d, text, n)
Primed(d, text, n) ==
    Ran(d, text, n) /\ d.carry = SubSeq(text, 1, n) /\ Mirrored(d, text, n)

(* A span that ended behind n rows from position first on.                 *)
Spanned(d, text, first, n) ==
    /\ Ran(d, text, first + n)
    /\ \A i \in 1 .. n : d.published[i] = SubSeq(text, 1, first + i)

Shapes ==
    /\ IsPool(pool) /\ Partition(pool) /\ IsDevice(device)
    /\ pool.tokens <= Mapped(pool) /\ pool.epoch <= MaxEpoch + 1
    /\ device.recurrent \in Seq(Letters) /\ device.carry \in Seq(Letters)
    /\ pc \in {"idle", "primed", "ready", "verify", "decide", "restore", "replay", "realign"}
    /\ request \in Requests \cup {None} /\ (request = None <=> pc = "idle")
    /\ generated \in Seq(Token) /\ served \in 0 .. Len(generated)

(* Without a request the slot is recycled.                                 *)
IdleSound ==
    pc = "idle" =>
        /\ generated = << >> /\ pool.pages = << >> /\ pool.tokens = 0 /\ ~pool.active

(* With one it has the pages the request reserved, and the block table     *)
(* leads to them.                                                          *)
SlotSound ==
    pc # "idle" =>
        /\ pool.active /\ pool.epoch <= MaxEpoch
        /\ Required(request) <= Capacity /\ Len(generated) <= request.budget
        /\ Len(pool.pages) = PagesFor(Reserved(request))
        /\ device.table = pool.pages

(* Between rounds, with tokens left to generate.                           *)
SteadySound ==
    /\ pc = "primed" => generated = << >>
    /\ pc = "ready" => generated # << >>
    /\ Steady => pool.tokens = Position /\ Primed(device, Said, Position)

(* A round: its inputs fit, its restore point is that of its position, and *)
(* the draft has mirrored its anchor.                                      *)
InRound == pc \in {"verify", "decide", "restore", "replay", "realign"}
RoundSound ==
    InRound =>
        /\ round = [position |-> round.position, inputs |-> round.inputs,
                    accepted |-> round.accepted]
        /\ round.position \in Nat /\ Len(request.prompt) <= round.position
        /\ round.inputs \in Seq(Token) /\ Len(round.inputs) > 1
        /\ round.accepted \in 0 .. Len(round.inputs) - 1
        /\ round.position + Len(round.inputs) <= Required(request)
        /\ round.position < Len(Said) /\ Said[round.position + 1] = round.inputs[1]
        /\ saved = [epoch |-> pool.epoch, tokens |-> round.position,
                    recurrent |-> SubSeq(Said, 1, round.position)]
        /\ Mirrored(device, Said, round.position + 1)

(* Before the decision nothing of the round is committed; after it, the    *)
(* accepted inputs are, and the request ends or one more token follows.    *)
DecisionSound ==
    /\ pc \in {"verify", "decide"} =>
          /\ Drained /\ generated # << >> /\ ~Finished
          /\ round.position = Position /\ Len(round.inputs) <= Remaining
    /\ pc \in {"restore", "replay", "realign"} =>
          /\ ~Drained /\ round.position + round.accepted + 1 <= Len(Said)
          /\ \A i \in 1 .. round.accepted + 1 : Said[round.position + i] = round.inputs[i]
          /\ Finished \/ Position = round.position + round.accepted + 1

(* How far the target is in a round.                                       *)
Verified == SubSeq(Said, 1, round.position) \o round.inputs
TargetSound ==
    /\ pc \in {"verify", "replay"} =>
          pool.tokens = round.position /\ Ran(device, Said, round.position)
    /\ pc = "decide" =>
          /\ pool.tokens = round.position + Len(round.inputs)
          /\ Spanned(device, Verified, round.position, Len(round.inputs))
    /\ pc = "restore" =>
          round.position <= pool.tokens /\ Rows(device, Said, round.position)
    /\ pc = "realign" =>
          /\ pool.tokens = round.position + round.accepted + 1
          /\ Spanned(device, Said, round.position, round.accepted + 1)

IInv ==
    /\ Shapes /\ IdleSound /\ SlotSound /\ SteadySound
    /\ RoundSound /\ DecisionSound /\ TargetSound

-----------------------------------------------------------------------------
(* Numbers.                                                                *)

LEMMA Constants ==
    /\ FundedPages \in Nat \ {0} /\ SLOT_PAGE_TOKENS \in Nat \ {0}
    /\ COMPRESS_RATIO \in Nat \ {0} /\ Tile \in Nat /\ Tile > 1
    /\ DRAFT_WINDOW \in Nat \ {0} /\ MaxEpoch \in Nat
    /\ None \notin Requests
    /\ \A r \in Requests : /\ r.prompt \in Seq(Letters) /\ Len(r.prompt) \in Nat \ {0}
                           /\ r.budget \in Nat \ {0}
<1>1. ASSUME NEW r \in Requests
      PROVE  r.prompt \in Seq(Letters) /\ Len(r.prompt) \in Nat \ {0}
  <2>1. r.prompt \in Seq(Range(r.prompt)) /\ r.prompt # << >>  BY FlashAssumption
  <2>2. Range(r.prompt) \subseteq Letters  BY DEF Letters
  <2>3. r.prompt \in Seq(Letters)  BY <2>1, <2>2, SeqMonotonic
  <2> QED  BY <2>1, <2>3, EmptySeq
<1> QED  BY <1>1, FlashAssumption

LEMMA MinOfTwo ==
    ASSUME NEW a \in Int, NEW b \in Int
    PROVE  Min({a, b}) = IF a <= b THEN a ELSE b
BY DEF Min

LEMMA MaxOfTwo ==
    ASSUME NEW a \in Int, NEW b \in Int
    PROVE  Max({a, b}) = IF a >= b THEN a ELSE b
BY DEF Max

LEMMA DivMod ==
    ASSUME NEW a \in Nat, NEW b \in Nat \ {0}
    PROVE  a \div b \in Nat /\ a % b \in 0 .. b - 1 /\ a = b * (a \div b) + (a % b)
<1>1. a \div b \in Nat  OBVIOUS
<1>2. a % b \in 0 .. b - 1  OBVIOUS
<1>3. a % b = a - b * (a \div b)  OBVIOUS
<1> DEFINE q == a \div b
           r == a % b
<1> HIDE DEF q, r
<1>4. q \in Nat /\ r \in Nat /\ b * q \in Nat /\ r = a - b * q  BY <1>1, <1>2, <1>3 DEF q, r
<1>5. a = b * q + r  BY <1>4
<1> QED  BY <1>1, <1>2, <1>5 DEF q, r

(* PagesFor is the least number of pages that hold so many tokens.         *)
LEMMA PagesForBounds ==
    ASSUME NEW n \in Nat
    PROVE  /\ PagesFor(n) \in Nat
           /\ n <= PagesFor(n) * SLOT_PAGE_TOKENS
           /\ \A k \in Nat : n <= k * SLOT_PAGE_TOKENS => PagesFor(n) <= k
<1> DEFINE B == SLOT_PAGE_TOKENS
           a == n + B - 1
           q == a \div B
<1>1. B \in Nat \ {0} /\ a \in Nat  BY Constants
<1>2. PagesFor(n) = q  BY DEF PagesFor
<1>3. q \in Nat /\ B * q <= a /\ a < B * q + B  BY <1>1
<1>4. ASSUME NEW k \in Nat, n <= k * B PROVE q <= k
  <2> SUFFICES ASSUME q >= k + 1 PROVE FALSE  BY <1>3
  <2>1. B * q >= B * (k + 1)  BY <1>1, <1>3
  <2>2. B * (k + 1) = k * B + B  BY <1>1
  <2> HIDE DEF q, B
  <2> QED  BY <1>1, <1>3, <1>4, <2>1, <2>2 DEF B
<1>5. n <= q * B
  <2>1. B * q = q * B  BY <1>1, <1>3
  <2> HIDE DEF q
  <2> QED  BY <1>1, <1>3, <2>1
<1> QED  BY <1>2, <1>3, <1>4, <1>5

LEMMA PagesForMonotone ==
    ASSUME NEW m \in Nat, NEW n \in Nat, m <= n
    PROVE  PagesFor(m) <= PagesFor(n)
<1>1. PagesFor(n) \in Nat /\ n <= PagesFor(n) * SLOT_PAGE_TOKENS  BY PagesForBounds
<1>2. m <= PagesFor(n) * SLOT_PAGE_TOKENS  BY <1>1, Constants
<1> QED  BY <1>1, <1>2, PagesForBounds

LEMMA NoPages == PagesFor(0) = 0
<1>1. 0 \in Nat /\ 0 <= 0 * SLOT_PAGE_TOKENS  BY Constants
<1> QED  BY <1>1, PagesForBounds

-----------------------------------------------------------------------------
(* Sequences.                                                              *)

LEMMA ReverseFacts ==
    ASSUME NEW T, NEW s \in Seq(T)
    PROVE  /\ Reverse(s) \in Seq(T) /\ Len(Reverse(s)) = Len(s)
           /\ \A i \in 1 .. Len(s) : Reverse(s)[i] = s[Len(s) - i + 1]
<1>1. Len(s) \in Nat /\ \A i \in 1 .. Len(s) : s[i] \in T
  BY LenProperties, ElementOfSeq
<1>2. \A i \in 1 .. Len(s) : s[Len(s) - i + 1] \in T  BY <1>1
<1> QED  BY <1>1, <1>2 DEF Reverse

LEMMA PartFacts ==
    ASSUME NEW T, NEW s \in Seq(T), NEW m \in Nat \ {0}, NEW n \in Nat,
           m <= n + 1, n <= Len(s)
    PROVE  /\ SubSeq(s, m, n) \in Seq(T) /\ Len(SubSeq(s, m, n)) = n - m + 1
           /\ \A i \in 1 .. n - m + 1 : SubSeq(s, m, n)[i] = s[m + i - 1]
<1>1. Len(s) \in Nat  BY LenProperties
<1>2. \A i \in m .. n : s[i] \in T  BY <1>1, ElementOfSeq
<1>3. m \in Int /\ n \in Int  OBVIOUS
<1>4. /\ SubSeq(s, m, n) \in Seq(T)
      /\ Len(SubSeq(s, m, n)) = IF m <= n THEN n - m + 1 ELSE 0
      /\ \A i \in 1 .. n - m + 1 : SubSeq(s, m, n)[i] = s[m + i - 1]
  BY <1>2, <1>3, SubSeqProperties
<1> QED  BY <1>4

LEMMA PrefixFacts ==
    ASSUME NEW T, NEW s \in Seq(T), NEW n \in Nat, n <= Len(s)
    PROVE  /\ SubSeq(s, 1, n) \in Seq(T) /\ Len(SubSeq(s, 1, n)) = n
           /\ \A i \in 1 .. n : SubSeq(s, 1, n)[i] = s[i]
<1>1. /\ SubSeq(s, 1, n) \in Seq(T) /\ Len(SubSeq(s, 1, n)) = n - 1 + 1
      /\ \A i \in 1 .. n - 1 + 1 : SubSeq(s, 1, n)[i] = s[1 + i - 1]
  BY PartFacts
<1> QED  BY <1>1

LEMMA SamePrefix ==
    ASSUME NEW T, NEW s \in Seq(T), NEW t \in Seq(T), NEW n \in Nat,
           n <= Len(s), n <= Len(t), \A i \in 1 .. n : s[i] = t[i]
    PROVE  SubSeq(s, 1, n) = SubSeq(t, 1, n)
<1>1. SubSeq(s, 1, n) \in Seq(T) /\ SubSeq(t, 1, n) \in Seq(T)
      /\ Len(SubSeq(s, 1, n)) = n /\ Len(SubSeq(t, 1, n)) = n
      /\ \A i \in 1 .. n : SubSeq(s, 1, n)[i] = SubSeq(t, 1, n)[i]
  BY PrefixFacts
<1> QED  BY <1>1, SeqEqual

(* A prefix followed by tokens that come next is a longer prefix.          *)
LEMMA PrefixGrows ==
    ASSUME NEW T, NEW s \in Seq(T), NEW q \in Nat, NEW tokens \in Seq(T),
           q + Len(tokens) <= Len(s), \A i \in 1 .. Len(tokens) : tokens[i] = s[q + i],
           NEW n \in Nat, n <= Len(tokens)
    PROVE  SubSeq(s, 1, q) \o SubSeq(tokens, 1, n) = SubSeq(s, 1, q + n)
<1> DEFINE a == SubSeq(s, 1, q)
           b == SubSeq(tokens, 1, n)
           c == SubSeq(s, 1, q + n)
<1>1. Len(s) \in Nat /\ Len(tokens) \in Nat  BY LenProperties
<1>2. a \in Seq(T) /\ Len(a) = q /\ \A i \in 1 .. q : a[i] = s[i]
  BY <1>1, PrefixFacts
<1>3. b \in Seq(T) /\ Len(b) = n /\ \A i \in 1 .. n : b[i] = tokens[i]
  BY <1>1, PrefixFacts
<1>4. c \in Seq(T) /\ Len(c) = q + n /\ \A i \in 1 .. q + n : c[i] = s[i]
  BY <1>1, PrefixFacts
<1> HIDE DEF a, b, c
<1>5. /\ a \o b \in Seq(T) /\ Len(a \o b) = q + n
      /\ \A i \in 1 .. q + n : (a \o b)[i] = IF i <= q THEN a[i] ELSE b[i - q]
  <2>1. /\ a \o b \in Seq(T) /\ Len(a \o b) = Len(a) + Len(b)
        /\ \A i \in 1 .. Len(a) + Len(b) :
              (a \o b)[i] = IF i <= Len(a) THEN a[i] ELSE b[i - Len(a)]
    <3>1. a \in Seq(T) /\ b \in Seq(T)  BY <1>2, <1>3
    <3> QED  BY ONLY <3>1, ConcatProperties
  <2> QED  BY <1>2, <1>3, <2>1
<1>6. ASSUME NEW i \in 1 .. q + n PROVE (a \o b)[i] = c[i]
  <2>0. i \in Nat /\ 1 <= i /\ i <= q + n  OBVIOUS
  <2>1. CASE i <= q
    <3>1. i \in 1 .. q  BY <2>0, <2>1
    <3> QED  BY <1>2, <1>4, <1>5, <2>1, <3>1
  <2>2. CASE i > q
    <3>1. i - q \in 1 .. n /\ i - q \in 1 .. Len(tokens)  BY <1>1, <2>2
    <3>2. b[i - q] = tokens[i - q] /\ tokens[i - q] = s[q + (i - q)]  BY <1>3, <3>1
    <3>3. q + (i - q) = i  OBVIOUS
    <3>4. (a \o b)[i] = b[i - q]  BY <1>5, <2>2
    <3>5. c[i] = s[i]  BY <1>4
    <3> QED  BY ONLY <3>2, <3>3, <3>4, <3>5
  <2>3. i <= q \/ i > q  BY <2>0
  <2> QED  BY <2>1, <2>2, <2>3
<1>7. a \o b = c  BY <1>4, <1>5, <1>6, SeqEqual
<1> QED  BY <1>7 DEF a, b, c

-----------------------------------------------------------------------------
(* The slot pool.                                                          *)

(* A page is mapped at one place: there are as many places, free or        *)
(* mapped, as funded pages, and each of these is at one of them.           *)
LEMMA MappedOnce ==
    ASSUME NEW p, IsPool(p), Partition(p)
    PROVE  \A j, k \in 1 .. Len(p.pages) : p.pages[j] = p.pages[k] => j = k
<1> DEFINE m == Len(p.free)
           n == Len(p.pages)
           f == [i \in 1 .. FundedPages |-> IF i <= m THEN p.free[i] ELSE p.pages[i - m]]
<1>1. p.free \in Seq(Pages) /\ p.pages \in Seq(Pages)  BY DEF IsPool
<1>2. /\ m \in Nat /\ n \in Nat /\ m + n = FundedPages
      /\ DOMAIN p.free = 1 .. m /\ DOMAIN p.pages = 1 .. n
  BY <1>1, LenProperties DEF Partition
<1>3. /\ \A i \in 1 .. m : p.free[i] \in Pages
      /\ \A i \in 1 .. n : p.pages[i] \in Pages
  BY <1>1, ElementOfSeq
<1>4. ToSet(p.free) \cup ToSet(p.pages) = Pages  BY DEF Partition
<1> HIDE DEF m, n
<1>5. ASSUME NEW i \in 1 .. FundedPages PROVE f[i] \in Pages
  <2>1. CASE i <= m  BY <1>2, <1>3, <2>1
  <2>2. CASE i > m
    <3>1. i - m \in 1 .. n  BY <1>2, <2>2
    <3> QED  BY <1>2, <1>3, <2>2, <3>1
  <2>3. i <= m \/ i > m  BY <1>2
  <2> QED  BY <2>1, <2>2, <2>3
<1>6. ASSUME NEW e \in Pages PROVE \E i \in 1 .. FundedPages : f[i] = e
  <2>1. CASE e \in ToSet(p.free)
    <3>1. PICK i \in 1 .. m : p.free[i] = e  BY <1>2, <2>1 DEF ToSet
    <3>2. i \in 1 .. FundedPages /\ f[i] = e  BY <1>2, <3>1
    <3> QED  BY <3>2
  <2>2. CASE e \in ToSet(p.pages)
    <3>1. PICK k \in 1 .. n : p.pages[k] = e  BY <1>2, <2>2 DEF ToSet
    <3>2. k + m \in 1 .. FundedPages /\ ~(k + m <= m) /\ (k + m) - m = k  BY <1>2
    <3>3. f[k + m] = e  BY <3>1, <3>2
    <3> QED  BY <3>2, <3>3
  <2> QED  BY <1>4, <2>1, <2>2
<1>7. f \in Surjection(1 .. FundedPages, Pages)
  <2>1. f \in [1 .. FundedPages -> Pages]  BY <1>5
  <2> QED  BY <1>6, <2>1 DEF Surjection
<1>8. f \in Injection(1 .. FundedPages, Pages)
  <2>1. IsFiniteSet(1 .. FundedPages)  BY Constants, FS_Interval
  <2>2. Cardinality(Pages) = Cardinality(1 .. FundedPages)  BY DEF Pages
  <2> QED  BY <1>7, <2>1, <2>2, FS_Surjection
<1>9. ASSUME NEW j \in 1 .. n, NEW k \in 1 .. n, p.pages[j] = p.pages[k] PROVE j = k
  <2>1. /\ j + m \in 1 .. FundedPages /\ ~(j + m <= m) /\ (j + m) - m = j
        /\ k + m \in 1 .. FundedPages /\ ~(k + m <= m) /\ (k + m) - m = k
    BY <1>2
  <2>2. f[j + m] = p.pages[j] /\ f[k + m] = p.pages[k]  BY <2>1
  <2>3. f[j + m] = f[k + m]  BY <1>9, <2>2
  <2> HIDE DEF f
  <2>4. j + m = k + m  BY <1>8, <2>1, <2>3 DEF Injection, IsInjective
  <2> QED  BY <1>2, <2>4
<1> QED  BY <1>9 DEF n

-----------------------------------------------------------------------------
(* The block table leads positions to cells, each to its own.              *)

TableSound(d) ==
    /\ d.table \in Seq(Pages)
    /\ \A j, k \in 1 .. Len(d.table) : d.table[j] = d.table[k] => j = k
Room(d) == Len(d.table) * SLOT_PAGE_TOKENS

LEMMA RoomIsNat ==
    ASSUME NEW d, TableSound(d)
    PROVE  Len(d.table) \in Nat /\ Room(d) \in Nat
<1>1. Len(d.table) \in Nat  BY LenProperties DEF TableSound
<1> QED  BY <1>1, Constants DEF Room

LEMMA CellFacts ==
    ASSUME NEW d, TableSound(d), NEW p \in Nat, p < Room(d)
    PROVE  /\ Cell(d, p) \in Cells
           /\ \A o \in Nat : o < Room(d) /\ Cell(d, o) = Cell(d, p) => o = p
<1> DEFINE B == SLOT_PAGE_TOKENS
           L == Len(d.table)
<1>1. B \in Nat \ {0} /\ L \in Nat  BY Constants, RoomIsNat
<1>2. ASSUME NEW o \in Nat, o < Room(d)
      PROVE  /\ o \div B + 1 \in 1 .. L /\ o % B \in 0 .. B - 1
             /\ o = B * (o \div B) + (o % B) /\ o \div B \in Nat
  <2> DEFINE q == o \div B
             r == o % B
  <2>1. q \in Nat /\ r \in 0 .. B - 1 /\ o = B * q + r  BY <1>1, DivMod
  <2> HIDE DEF q, r
  <2>2. o < L * B  BY <1>2 DEF Room
  <2>3. q < L
    <3> SUFFICES ASSUME q >= L PROVE FALSE  BY <1>1, <2>1
    <3> HIDE DEF B, L
    <3>1. B * q >= B * L  BY <1>1, <2>1
    <3>2. B * L = L * B /\ B * q \in Nat /\ B * L \in Nat  BY <1>1, <2>1
    <3> QED  BY <1>1, <2>1, <2>2, <3>1, <3>2
  <2>4. q + 1 \in 1 .. L  BY <1>1, <2>1, <2>3
  <2> QED  BY <2>1, <2>4 DEF q, r
<1>3. Cell(d, p) \in Cells
  <2>1. d.table[p \div B + 1] \in Pages  BY <1>2, ElementOfSeq DEF TableSound
  <2> QED  BY <1>2, <2>1 DEF Cell, Cells
<1>4. ASSUME NEW o \in Nat, o < Room(d), Cell(d, o) = Cell(d, p) PROVE o = p
  <2>1. d.table[o \div B + 1] = d.table[p \div B + 1] /\ o % B = p % B
    BY <1>4 DEF Cell
  <2>2. o \div B + 1 = p \div B + 1  BY <1>2, <1>4, <2>1 DEF TableSound
  <2>3. o \div B = p \div B
    <3> DEFINE x == o \div B
               y == p \div B
    <3>1. x \in Nat /\ y \in Nat  BY <1>2, <1>4
    <3> HIDE DEF x, y
    <3>2. x + 1 = y + 1  BY <2>2 DEF x, y
    <3>3. x = y  BY <3>1, <3>2
    <3> QED  BY <3>3 DEF x, y
  <2>4. o = B * (o \div B) + (o % B) /\ p = B * (p \div B) + (p % B)  BY <1>2, <1>4
  <2> QED  BY <2>1, <2>3, <2>4
<1> QED  BY <1>3, <1>4

(* A write changes the cells of its positions and nothing below them.      *)
CanWrite(d, first, rows, n) ==
    /\ TableSound(d) /\ first \in Nat /\ n \in Nat /\ first + n <= Room(d)
    /\ DOMAIN rows = 1 .. n

LEMMA WriteFacts ==
    ASSUME NEW d, NEW first, NEW rows, NEW n, CanWrite(d, first, rows, n), NEW plane
    PROVE  /\ \A i \in 1 .. n : Write(plane, d, first, rows)[Cell(d, first + i - 1)] = rows[i]
           /\ \A p \in 0 .. first - 1 :
                 Write(plane, d, first, rows)[Cell(d, p)] = plane[Cell(d, p)]
<1>0. /\ TableSound(d) /\ first \in Nat /\ n \in Nat /\ first + n <= Room(d)
      /\ DOMAIN rows = 1 .. n /\ Room(d) \in Nat
  BY RoomIsNat DEF CanWrite
<1>1. ASSUME NEW i \in 1 .. n, NEW j \in 1 .. n,
             Cell(d, first + i - 1) = Cell(d, first + j - 1)
      PROVE  i = j
  <2>1. /\ first + i - 1 \in Nat /\ first + i - 1 < Room(d)
        /\ first + j - 1 \in Nat /\ first + j - 1 < Room(d)
    BY <1>0
  <2>2. first + i - 1 = first + j - 1  BY <1>0, <1>1, <2>1, CellFacts
  <2> QED  BY <1>0, <2>2
<1>2. ASSUME NEW i \in 1 .. n
      PROVE  Write(plane, d, first, rows)[Cell(d, first + i - 1)] = rows[i]
  <2> DEFINE c == Cell(d, first + i - 1)
             j == CHOOSE k \in DOMAIN rows : Cell(d, first + k - 1) = c
  <2>1. first + i - 1 \in Nat /\ first + i - 1 < Room(d)  BY <1>0
  <2>2. c \in Cells  BY <1>0, <2>1, CellFacts
  <2>3. i \in DOMAIN rows /\ Cell(d, first + i - 1) = c  BY <1>0
  <2>4. j \in DOMAIN rows /\ Cell(d, first + j - 1) = c
    <3> HIDE DEF c
    <3> QED  BY <2>3
  <2>5. i = j  BY <1>0, <1>1, <2>3, <2>4
  <2>6. Write(plane, d, first, rows)[c] = rows[j]
    <3> HIDE DEF c
    <3> QED  BY <2>2, <2>3 DEF Write
  <2> QED  BY <2>5, <2>6
<1>3. ASSUME NEW p \in 0 .. first - 1
      PROVE  Write(plane, d, first, rows)[Cell(d, p)] = plane[Cell(d, p)]
  <2>1. p \in Nat /\ p < Room(d)  BY <1>0
  <2>2. Cell(d, p) \in Cells  BY <1>0, <2>1, CellFacts
  <2>3. ASSUME NEW i \in DOMAIN rows, Cell(d, first + i - 1) = Cell(d, p) PROVE FALSE
    <3>1. i \in 1 .. n /\ first + i - 1 \in Nat /\ first + i - 1 < Room(d)  BY <1>0
    <3>2. first + i - 1 = p  BY <1>0, <2>1, <2>3, <3>1, CellFacts
    <3> QED  BY <1>0, <3>1, <3>2
  <2> QED  BY <2>2, <2>3 DEF Write
<1> QED  BY <1>2, <1>3

-----------------------------------------------------------------------------
(* What the pool's operations do.                                          *)

LEMMA ToSetOfConcat ==
    ASSUME NEW T, NEW s \in Seq(T), NEW t \in Seq(T)
    PROVE  ToSet(s \o t) = ToSet(s) \cup ToSet(t)
<1>1. /\ s \o t \in Seq(T) /\ Len(s \o t) = Len(s) + Len(t)
      /\ \A i \in 1 .. Len(s) + Len(t) :
            (s \o t)[i] = IF i <= Len(s) THEN s[i] ELSE t[i - Len(s)]
  BY ConcatProperties
<1>2. /\ Len(s) \in Nat /\ Len(t) \in Nat
      /\ DOMAIN s = 1 .. Len(s) /\ DOMAIN t = 1 .. Len(t)
      /\ DOMAIN (s \o t) = 1 .. Len(s) + Len(t)
  BY <1>1, LenProperties
<1> DEFINE u == s \o t
           m == Len(s)
           n == Len(t)
<1> HIDE DEF u, m, n
<1>3. /\ m \in Nat /\ n \in Nat /\ DOMAIN s = 1 .. m /\ DOMAIN t = 1 .. n
      /\ DOMAIN u = 1 .. m + n
      /\ \A i \in 1 .. m + n : u[i] = IF i <= m THEN s[i] ELSE t[i - m]
  BY <1>1, <1>2 DEF u, m, n
<1>4. ASSUME NEW i \in 1 .. m + n PROVE u[i] \in ToSet(s) \cup ToSet(t)
  <2>1. i <= m => i \in 1 .. m /\ u[i] = s[i]  BY <1>3
  <2>2. ~(i <= m) => i - m \in 1 .. n /\ u[i] = t[i - m]  BY <1>3
  <2> QED  BY <1>3, <2>1, <2>2 DEF ToSet
<1>5. ASSUME NEW i \in 1 .. m PROVE s[i] \in ToSet(u)
  <2>1. i \in 1 .. m + n /\ i <= m  BY <1>3
  <2> QED  BY <1>3, <2>1 DEF ToSet
<1>6. ASSUME NEW i \in 1 .. n PROVE t[i] \in ToSet(u)
  <2>1. i + m \in 1 .. m + n /\ ~(i + m <= m) /\ (i + m) - m = i  BY <1>3
  <2>2. u[i + m] = t[i]  BY <1>3, <2>1
  <2> QED  BY <1>3, <2>1, <2>2 DEF ToSet
<1>7. ToSet(u) = ToSet(s) \cup ToSet(t)
  <2>1. ToSet(u) \subseteq ToSet(s) \cup ToSet(t)  BY <1>3, <1>4 DEF ToSet
  <2>2. ToSet(s) \subseteq ToSet(u)  BY <1>3, <1>5 DEF ToSet
  <2>3. ToSet(t) \subseteq ToSet(u)  BY <1>3, <1>6 DEF ToSet
  <2> QED  BY <2>1, <2>2, <2>3
<1> QED  BY <1>7 DEF u

LEMMA ToSetOfReverse ==
    ASSUME NEW T, NEW s \in Seq(T)
    PROVE  ToSet(Reverse(s)) = ToSet(s)
<1>1. /\ Reverse(s) \in Seq(T) /\ Len(Reverse(s)) = Len(s) /\ Len(s) \in Nat
      /\ \A i \in 1 .. Len(s) : Reverse(s)[i] = s[Len(s) - i + 1]
      /\ DOMAIN s = 1 .. Len(s) /\ DOMAIN Reverse(s) = 1 .. Len(s)
  BY ReverseFacts, LenProperties
<1>2. ASSUME NEW i \in 1 .. Len(s)
      PROVE  Len(s) - i + 1 \in 1 .. Len(s) /\ Len(s) - (Len(s) - i + 1) + 1 = i
  BY <1>1
<1>3. \A i \in 1 .. Len(s) : Reverse(s)[i] \in ToSet(s)  BY <1>1, <1>2 DEF ToSet
<1>4. ASSUME NEW i \in 1 .. Len(s) PROVE s[i] \in ToSet(Reverse(s))
  <2>1. Reverse(s)[Len(s) - i + 1] = s[i]  BY <1>1, <1>2
  <2> QED  BY <1>1, <1>2, <2>1 DEF ToSet
<1> QED  BY <1>1, <1>3, <1>4 DEF ToSet

LEMMA SplitFacts ==
    ASSUME NEW T, NEW s \in Seq(T), NEW k \in Nat, k <= Len(s)
    PROVE  /\ SubSeq(s, 1, k) \in Seq(T) /\ SubSeq(s, k + 1, Len(s)) \in Seq(T)
           /\ Len(SubSeq(s, 1, k)) = k /\ Len(SubSeq(s, k + 1, Len(s))) = Len(s) - k
           /\ SubSeq(s, 1, k) \o SubSeq(s, k + 1, Len(s)) = s
           /\ ToSet(s) = ToSet(SubSeq(s, 1, k)) \cup ToSet(SubSeq(s, k + 1, Len(s)))
<1>1. Len(s) \in Nat  BY LenProperties
<1>2. SubSeq(s, 1, k) \in Seq(T) /\ Len(SubSeq(s, 1, k)) = k  BY PrefixFacts
<1>3. SubSeq(s, k + 1, Len(s)) \in Seq(T) /\ Len(SubSeq(s, k + 1, Len(s))) = Len(s) - k
  <2>1. k + 1 \in Nat \ {0} /\ k + 1 <= Len(s) + 1 /\ Len(s) - (k + 1) + 1 = Len(s) - k
    BY <1>1
  <2>2. /\ SubSeq(s, k + 1, Len(s)) \in Seq(T)
        /\ Len(SubSeq(s, k + 1, Len(s))) = Len(s) - (k + 1) + 1
    <3> DEFINE m == k + 1
               n == Len(s)
    <3>1. m \in Nat \ {0} /\ n \in Nat /\ m <= n + 1 /\ n <= Len(s)  BY <1>1, <2>1
    <3> HIDE DEF m, n
    <3>2. SubSeq(s, m, n) \in Seq(T) /\ Len(SubSeq(s, m, n)) = n - m + 1
      BY <3>1, PartFacts
    <3> QED  BY <3>2 DEF m, n
  <2> QED  BY <2>1, <2>2
<1>4. SubSeq(s, 1, k) \o SubSeq(s, k + 1, Len(s)) = s
  <2>1. 1 \in 1 .. Len(s) + 1 /\ k \in 1 - 1 .. Len(s) /\ Len(s) \in k .. Len(s)
    BY <1>1
  <2>2. SubSeq(s, 1, k) \o SubSeq(s, k + 1, Len(s)) = SubSeq(s, 1, Len(s))
    BY <2>1, ConcatAdjacentSubSeq
  <2> QED  BY <2>2, SubSeqFull
<1>5. ToSet(s) = ToSet(SubSeq(s, 1, k)) \cup ToSet(SubSeq(s, k + 1, Len(s)))
  <2> DEFINE x == SubSeq(s, 1, k)
             y == SubSeq(s, k + 1, Len(s))
  <2>0. x \in Seq(T) /\ y \in Seq(T)  BY <1>2, <1>3
  <2>1. x \o y = s  BY <1>4
  <2> HIDE DEF x, y
  <2>2. ToSet(x \o y) = ToSet(x) \cup ToSet(y)
    BY ONLY <2>0, ToSetOfConcat
  <2> QED  BY ONLY <2>1, <2>2 DEF x, y
<1> QED  BY <1>2, <1>3, <1>4, <1>5

LEMMA ReverseTwice ==
    ASSUME NEW T, NEW s \in Seq(T)
    PROVE  Reverse(Reverse(s)) = s
<1>1. /\ Reverse(s) \in Seq(T) /\ Len(Reverse(s)) = Len(s) /\ Len(s) \in Nat
      /\ \A i \in 1 .. Len(s) : Reverse(s)[i] = s[Len(s) - i + 1]
  BY ReverseFacts, LenProperties
<1>2. /\ Reverse(Reverse(s)) \in Seq(T) /\ Len(Reverse(Reverse(s))) = Len(s)
      /\ \A i \in 1 .. Len(s) : Reverse(Reverse(s))[i] = Reverse(s)[Len(s) - i + 1]
  BY <1>1, ReverseFacts
<1>3. ASSUME NEW i \in 1 .. Len(s) PROVE Reverse(Reverse(s))[i] = s[i]
  <2>1. Len(s) - i + 1 \in 1 .. Len(s) /\ Len(s) - (Len(s) - i + 1) + 1 = i  BY <1>1
  <2> QED  BY <1>1, <1>2, <2>1
<1> QED  BY <1>2, <1>3, SeqEqual

Growth(p, tokens) == IF PagesFor(tokens) >= Len(p.pages) THEN PagesFor(tokens) - Len(p.pages) ELSE 0

LEMMA ReserveFields ==
    ASSUME NEW p, IsPool(p), NEW tokens \in Nat
    PROVE  /\ Growth(p, tokens) \in Nat
           /\ Reserve(p, tokens) =
                [free |-> SubSeq(p.free, 1, Len(p.free) - Growth(p, tokens)),
                 pages |-> p.pages \o Reverse(SubSeq(p.free, Len(p.free) - Growth(p, tokens) + 1,
                                                     Len(p.free))),
                 tokens |-> p.tokens, active |-> TRUE,
                 epoch |-> IF p.active THEN p.epoch ELSE p.epoch + 1]
<1>1. PagesFor(tokens) \in Nat /\ Len(p.pages) \in Nat
  BY PagesForBounds, LenProperties DEF IsPool
<1>2. Max({PagesFor(tokens) - Len(p.pages), 0}) = Growth(p, tokens)
  BY <1>1, MaxOfTwo DEF Growth
<1> DEFINE g == Growth(p, tokens)
           keep == Len(p.free) - g
<1>3. Reserve(p, tokens) =
        [p EXCEPT !.pages = @ \o Reverse(SubSeq(p.free, keep + 1, Len(p.free))),
                  !.free = SubSeq(@, 1, keep),
                  !.epoch = IF p.active THEN @ ELSE @ + 1,
                  !.active = TRUE]
  BY <1>2 DEF Reserve
<1> HIDE DEF keep
<1>4. Reserve(p, tokens) =
        [free |-> SubSeq(p.free, 1, keep),
         pages |-> p.pages \o Reverse(SubSeq(p.free, keep + 1, Len(p.free))),
         tokens |-> p.tokens, active |-> TRUE,
         epoch |-> IF p.active THEN p.epoch ELSE p.epoch + 1]
  BY <1>3 DEF IsPool
<1>5. Growth(p, tokens) \in Nat  BY <1>1 DEF Growth
<1> QED  BY <1>4, <1>5 DEF keep

(* A sound pool that has the pages the tokens ask for.                     *)
CanGrow(p, tokens) ==
    /\ IsPool(p) /\ Partition(p) /\ tokens \in Nat
    /\ PagesFor(tokens) <= Len(p.pages) + Len(p.free)

(* What a reservation leaves: a sound pool, grown by the pages it lacked.  *)
IsGrown(r, p, tokens) ==
    /\ IsPool(r) /\ Partition(r)
    /\ Len(r.pages) = Len(p.pages) + Growth(p, tokens)
    /\ r.tokens = p.tokens /\ r.active
    /\ r.epoch = IF p.active THEN p.epoch ELSE p.epoch + 1

LEMMA ReserveFacts ==
    ASSUME NEW p, NEW tokens, CanGrow(p, tokens)
    PROVE  IsGrown(Reserve(p, tokens), p, tokens)
<1> DEFINE r == Reserve(p, tokens)
           g == Growth(p, tokens)
           k == Len(p.free) - g
           rest == SubSeq(p.free, k + 1, Len(p.free))
           kept == SubSeq(p.free, 1, k)
<1>0. /\ IsPool(p) /\ Partition(p) /\ tokens \in Nat
      /\ PagesFor(tokens) <= Len(p.pages) + Len(p.free)
  BY DEF CanGrow
<1>1. p.free \in Seq(Pages) /\ p.pages \in Seq(Pages) /\ p.tokens \in Nat /\ p.epoch \in Nat
  BY <1>0 DEF IsPool
<1>2. /\ Len(p.free) \in Nat /\ Len(p.pages) \in Nat /\ PagesFor(tokens) \in Nat
      /\ g \in Nat /\ g <= Len(p.free)
  <2>1. Len(p.free) \in Nat /\ Len(p.pages) \in Nat /\ PagesFor(tokens) \in Nat
    BY <1>0, <1>1, LenProperties, PagesForBounds
  <2> DEFINE a == PagesFor(tokens)
             b == Len(p.pages)
             c == Len(p.free)
  <2>2. a \in Nat /\ b \in Nat /\ c \in Nat /\ a <= b + c  BY <1>0, <2>1
  <2>3. g = IF a >= b THEN a - b ELSE 0  BY DEF Growth
  <2> HIDE DEF a, b, c, g
  <2>4. g \in Nat /\ g <= c  BY <2>2, <2>3
  <2> QED  BY <2>2, <2>4 DEF a, b, c
<1>3. k \in Nat /\ k <= Len(p.free)  BY <1>2
<1>4. r = [free |-> kept, pages |-> p.pages \o Reverse(rest),
           tokens |-> p.tokens, active |-> TRUE,
           epoch |-> IF p.active THEN p.epoch ELSE p.epoch + 1]
  BY <1>0, ReserveFields
<1>5. /\ kept \in Seq(Pages) /\ rest \in Seq(Pages)
      /\ Len(kept) = k /\ Len(rest) = Len(p.free) - k
      /\ ToSet(p.free) = ToSet(kept) \cup ToSet(rest)
  <2> DEFINE s == p.free
  <2>1. s \in Seq(Pages) /\ k \in Nat /\ k <= Len(s)  BY <1>1, <1>3
  <2> HIDE DEF k, s
  <2>2. /\ SubSeq(s, 1, k) \in Seq(Pages) /\ SubSeq(s, k + 1, Len(s)) \in Seq(Pages)
        /\ Len(SubSeq(s, 1, k)) = k /\ Len(SubSeq(s, k + 1, Len(s))) = Len(s) - k
        /\ ToSet(s) = ToSet(SubSeq(s, 1, k)) \cup ToSet(SubSeq(s, k + 1, Len(s)))
    BY ONLY <2>1, SplitFacts
  <2> QED  BY ONLY <2>2 DEF s
<1> HIDE DEF r, rest, kept
<1>6. /\ Reverse(rest) \in Seq(Pages) /\ Len(Reverse(rest)) = Len(rest)
      /\ ToSet(Reverse(rest)) = ToSet(rest)
  BY <1>5, ReverseFacts, ToSetOfReverse
<1>7. /\ p.pages \o Reverse(rest) \in Seq(Pages)
      /\ Len(p.pages \o Reverse(rest)) = Len(p.pages) + Len(rest)
      /\ ToSet(p.pages \o Reverse(rest)) = ToSet(p.pages) \cup ToSet(rest)
  <2> DEFINE back == Reverse(rest)
  <2>1. back \in Seq(Pages) /\ Len(back) = Len(rest) /\ ToSet(back) = ToSet(rest)
    BY <1>6
  <2> HIDE DEF back
  <2>2. p.pages \o back \in Seq(Pages) /\ Len(p.pages \o back) = Len(p.pages) + Len(back)
    BY <1>1, <2>1, ConcatProperties
  <2>3. ToSet(p.pages \o back) = ToSet(p.pages) \cup ToSet(back)
    BY <1>1, <2>1, ToSetOfConcat
  <2> QED  BY <2>1, <2>2, <2>3 DEF back
<1>8. /\ r.free = kept /\ r.pages = p.pages \o Reverse(rest) /\ r.tokens = p.tokens /\ r.active
      /\ r.epoch = IF p.active THEN p.epoch ELSE p.epoch + 1
  BY <1>4
<1>9. IsPool(r)
  <2>1. r.epoch \in Nat  BY <1>1, <1>8
  <2> QED  BY <1>1, <1>4, <1>5, <1>7, <1>8, <2>1 DEF IsPool
<1>10. Len(r.pages) = Len(p.pages) + g
  <2>1. Len(rest) = g  BY <1>2, <1>5
  <2> QED  BY <1>7, <1>8, <2>1
<1>11. Partition(r)
  <2>1. Len(r.free) + Len(r.pages) = FundedPages
    <3>1. Len(p.free) + Len(p.pages) = FundedPages  BY <1>0 DEF Partition
    <3>2. Len(r.free) = Len(p.free) - g  BY <1>5, <1>8
    <3> DEFINE a == Len(p.free)
               b == Len(p.pages)
    <3>3. a \in Nat /\ b \in Nat /\ g \in Nat  BY <1>2
    <3>4. Len(r.free) = a - g /\ Len(r.pages) = b + g /\ a + b = FundedPages
      BY <1>10, <3>1, <3>2
    <3> HIDE DEF a, b, g
    <3> QED  BY <3>3, <3>4
  <2>2. ToSet(r.free) \cup ToSet(r.pages) = Pages
    <3>1. ToSet(p.free) \cup ToSet(p.pages) = Pages  BY <1>0 DEF Partition
    <3> QED  BY <1>5, <1>7, <1>8, <3>1
  <2> QED  BY <2>1, <2>2 DEF Partition
<1> QED  BY <1>8, <1>9, <1>10, <1>11 DEF r, IsGrown

(* An active slot that has the pages keeps what it has.                    *)
LEMMA ReserveNothing ==
    ASSUME NEW p, IsPool(p), p.active, NEW tokens \in Nat, PagesFor(tokens) <= Len(p.pages)
    PROVE  Reserve(p, tokens) = p
<1>1. p.free \in Seq(Pages) /\ p.pages \in Seq(Pages)  BY DEF IsPool
<1>2. /\ Len(p.free) \in Nat /\ Len(p.pages) \in Nat /\ PagesFor(tokens) \in Nat
  BY <1>1, LenProperties, PagesForBounds
<1>3. Growth(p, tokens) = 0  BY <1>2 DEF Growth
<1>4. Len(p.free) - 0 = Len(p.free) /\ Len(p.free) < Len(p.free) + 1  BY <1>2
<1>5. SubSeq(p.free, 1, Len(p.free)) = p.free  BY <1>1, SubSeqFull
<1>6. SubSeq(p.free, Len(p.free) + 1, Len(p.free)) = << >>  BY <1>2, <1>4, SubSeqEmpty
<1>7. Reverse(<< >>) = << >>
  <2>1. << >> \in Seq(Pages) /\ Len(<< >>) = 0  BY EmptySeq
  <2>2. Reverse(<< >>) \in Seq(Pages) /\ Len(Reverse(<< >>)) = 0  BY <2>1, ReverseFacts
  <2> QED  BY <2>2, EmptySeq
<1>8. p.pages \o << >> = p.pages  BY <1>1, ConcatEmptySeq
<1>9. Reserve(p, tokens) =
        [free |-> p.free, pages |-> p.pages, tokens |-> p.tokens, active |-> TRUE,
         epoch |-> p.epoch]
  <2>1. Reserve(p, tokens) =
          [free |-> SubSeq(p.free, 1, Len(p.free) - 0),
           pages |-> p.pages \o Reverse(SubSeq(p.free, Len(p.free) - 0 + 1, Len(p.free))),
           tokens |-> p.tokens, active |-> TRUE,
           epoch |-> IF p.active THEN p.epoch ELSE p.epoch + 1]
    BY <1>3, ReserveFields
  <2>2. Len(p.free) - 0 + 1 = Len(p.free) + 1  BY <1>2
  <2> QED  BY <1>4, <1>5, <1>6, <1>7, <1>8, <2>1, <2>2
<1>10. p.active = TRUE  BY DEF IsPool
<1> QED  BY <1>9, <1>10 DEF IsPool

Fewer(p, tokens) == IF PagesFor(tokens) <= Len(p.pages) THEN PagesFor(tokens) ELSE Len(p.pages)

LEMMA TruncateFields ==
    ASSUME NEW p, IsPool(p), NEW tokens \in Nat
    PROVE  /\ Fewer(p, tokens) \in Nat /\ Fewer(p, tokens) <= Len(p.pages)
           /\ TruncateMapping(p, tokens) =
                [free |-> p.free \o Reverse(SubSeq(p.pages, Fewer(p, tokens) + 1, Len(p.pages))),
                 pages |-> SubSeq(p.pages, 1, Fewer(p, tokens)),
                 tokens |-> tokens, active |-> p.active, epoch |-> p.epoch]
<1>1. PagesFor(tokens) \in Nat /\ Len(p.pages) \in Nat
  BY PagesForBounds, LenProperties DEF IsPool
<1>2. Min({PagesFor(tokens), Len(p.pages)}) = Fewer(p, tokens)
  BY <1>1, MinOfTwo DEF Fewer
<1>3. Dropped(p, tokens) = SubSeq(p.pages, Fewer(p, tokens) + 1, Len(p.pages))
  <2>1. CASE PagesFor(tokens) <= Len(p.pages)  BY <2>1 DEF Dropped, Fewer
  <2>2. CASE ~(PagesFor(tokens) <= Len(p.pages))
    <3>1. SubSeq(p.pages, PagesFor(tokens) + 1, Len(p.pages)) = << >>
      <4>1. Len(p.pages) < PagesFor(tokens) + 1  BY <1>1, <2>2
      <4> QED  BY <1>1, <4>1, SubSeqEmpty
    <3>2. SubSeq(p.pages, Len(p.pages) + 1, Len(p.pages)) = << >>
      <4>1. Len(p.pages) < Len(p.pages) + 1  BY <1>1
      <4> QED  BY <1>1, <4>1, SubSeqEmpty
    <3> QED  BY <2>2, <3>1, <3>2 DEF Dropped, Fewer
  <2> QED  BY <2>1, <2>2
<1>4. Fewer(p, tokens) \in Nat /\ Fewer(p, tokens) <= Len(p.pages)  BY <1>1 DEF Fewer
<1>5. TruncateMapping(p, tokens) =
        [p EXCEPT !.pages = SubSeq(@, 1, Fewer(p, tokens)),
                  !.free = p.free \o Reverse(SubSeq(p.pages, Fewer(p, tokens) + 1, Len(p.pages))),
                  !.tokens = tokens]
  BY <1>2, <1>3 DEF TruncateMapping, Returned
<1>6. p = [free |-> p.free, pages |-> p.pages, tokens |-> p.tokens,
           active |-> p.active, epoch |-> p.epoch]
  BY DEF IsPool
<1> QED  BY <1>4, <1>5, <1>6

LEMMA TruncateFacts ==
    ASSUME NEW p, IsPool(p), Partition(p), NEW tokens \in Nat
    PROVE  LET r == TruncateMapping(p, tokens) IN
           /\ IsPool(r) /\ Partition(r)
           /\ Len(r.pages) = Fewer(p, tokens)
           /\ r.tokens = tokens /\ r.active = p.active /\ r.epoch = p.epoch
<1> DEFINE r == TruncateMapping(p, tokens)
           k == Fewer(p, tokens)
           rest == SubSeq(p.pages, k + 1, Len(p.pages))
           kept == SubSeq(p.pages, 1, k)
           back == Reverse(rest)
<1>1. /\ p.free \in Seq(Pages) /\ p.pages \in Seq(Pages) /\ p.active \in BOOLEAN
      /\ p.epoch \in Nat
  BY DEF IsPool
<1>2. Len(p.free) \in Nat /\ Len(p.pages) \in Nat  BY <1>1, LenProperties
<1>3. /\ k \in Nat /\ k <= Len(p.pages)
      /\ r = [free |-> p.free \o back, pages |-> kept, tokens |-> tokens,
              active |-> p.active, epoch |-> p.epoch]
  BY TruncateFields
<1>4. /\ kept \in Seq(Pages) /\ rest \in Seq(Pages)
      /\ Len(kept) = k /\ Len(rest) = Len(p.pages) - k
      /\ ToSet(p.pages) = ToSet(kept) \cup ToSet(rest)
  <2> DEFINE s == p.pages
  <2>1. s \in Seq(Pages) /\ k \in Nat /\ k <= Len(s)  BY <1>1, <1>3
  <2> HIDE DEF k, s
  <2>2. /\ SubSeq(s, 1, k) \in Seq(Pages) /\ SubSeq(s, k + 1, Len(s)) \in Seq(Pages)
        /\ Len(SubSeq(s, 1, k)) = k /\ Len(SubSeq(s, k + 1, Len(s))) = Len(s) - k
        /\ ToSet(s) = ToSet(SubSeq(s, 1, k)) \cup ToSet(SubSeq(s, k + 1, Len(s)))
    BY ONLY <2>1, SplitFacts
  <2> QED  BY ONLY <2>2 DEF s
<1> HIDE DEF r, rest, kept
<1>5. back \in Seq(Pages) /\ Len(back) = Len(rest) /\ ToSet(back) = ToSet(rest)
  BY <1>4, ReverseFacts, ToSetOfReverse
<1> HIDE DEF back
<1>6. /\ p.free \o back \in Seq(Pages) /\ Len(p.free \o back) = Len(p.free) + Len(back)
      /\ ToSet(p.free \o back) = ToSet(p.free) \cup ToSet(back)
  <2>1. p.free \in Seq(Pages) /\ back \in Seq(Pages)  BY <1>1, <1>5
  <2>2. p.free \o back \in Seq(Pages) /\ Len(p.free \o back) = Len(p.free) + Len(back)
    BY <2>1, ConcatProperties
  <2>3. ToSet(p.free \o back) = ToSet(p.free) \cup ToSet(back)
    BY <2>1, ToSetOfConcat
  <2> QED  BY <2>2, <2>3
<1>7. /\ r.free = p.free \o back /\ r.pages = kept /\ r.tokens = tokens
      /\ r.active = p.active /\ r.epoch = p.epoch
  BY <1>3
<1>8. IsPool(r)  BY <1>1, <1>3, <1>4, <1>6, <1>7 DEF IsPool
<1>9. Partition(r)
  <2>1. Len(r.free) + Len(r.pages) = FundedPages
    <3> DEFINE a == Len(p.free)
               b == Len(p.pages)
    <3>1. a \in Nat /\ b \in Nat /\ k \in Nat /\ a + b = FundedPages
      BY <1>2, <1>3 DEF Partition
    <3>2. Len(r.free) = a + (b - k) /\ Len(r.pages) = k  BY <1>4, <1>5, <1>6, <1>7
    <3> HIDE DEF a, b, k
    <3> QED  BY <3>1, <3>2
  <2>2. ToSet(r.free) \cup ToSet(r.pages) = Pages
    BY <1>4, <1>5, <1>6, <1>7 DEF Partition
  <2> QED  BY <2>1, <2>2 DEF Partition
<1>10. Len(r.pages) = Fewer(p, tokens)  BY <1>4, <1>7
<1> QED  BY <1>7, <1>8, <1>9, <1>10 DEF r

LEMMA RecycleFacts ==
    ASSUME NEW p, IsPool(p), Partition(p)
    PROVE  LET r == Recycle(p) IN
           /\ IsPool(r) /\ Partition(r) /\ r.pages = << >> /\ r.tokens = 0 /\ ~r.active
           /\ r.epoch = IF p.active THEN p.epoch + 1 ELSE p.epoch
<1> DEFINE q == TruncateMapping(p, 0)
           r == Recycle(p)
<1>1. /\ IsPool(q) /\ Partition(q) /\ Len(q.pages) = Fewer(p, 0) /\ q.tokens = 0
      /\ q.epoch = p.epoch
  BY TruncateFacts
<1>2. r = [q EXCEPT !.active = FALSE, !.epoch = IF p.active THEN @ + 1 ELSE @]
  BY DEF Recycle
<1> HIDE DEF q, r
<1>3. Fewer(p, 0) = 0
  <2>1. Len(p.pages) \in Nat  BY LenProperties DEF IsPool
  <2> QED  BY <2>1, NoPages DEF Fewer
<1>4. q.pages = << >>  BY <1>1, <1>3, EmptySeq DEF IsPool
<1>5. r = [free |-> q.free, pages |-> q.pages, tokens |-> q.tokens, active |-> FALSE,
           epoch |-> IF p.active THEN p.epoch + 1 ELSE p.epoch]
  BY <1>1, <1>2 DEF IsPool
<1>6. /\ r.free = q.free /\ r.pages = q.pages /\ r.tokens = 0 /\ r.active = FALSE
      /\ r.epoch = IF p.active THEN p.epoch + 1 ELSE p.epoch
  BY <1>1, <1>5
<1>7. r.epoch \in Nat  BY <1>6 DEF IsPool
<1>8. IsPool(r)  BY <1>1, <1>5, <1>6, <1>7 DEF IsPool
<1>9. Partition(r)  BY <1>1, <1>6 DEF Partition
<1> QED  BY <1>4, <1>6, <1>8, <1>9 DEF r

(* A restore returns pages and takes the same ones again, in their order:  *)
(* the free list is a stack.                                               *)
LEMMA RestoreKeepsMapping ==
    ASSUME NEW p, IsPool(p), Partition(p), p.active,
           saved.tokens \in Nat, Reserved(request) \in Nat,
           saved.tokens <= Reserved(request), Len(p.pages) = PagesFor(Reserved(request))
    PROVE  Restored(p) = [p EXCEPT !.tokens = saved.tokens]
<1> DEFINE n == saved.tokens
           back == TruncateMapping(p, n)
           k == Fewer(p, n)
           rest == SubSeq(p.pages, k + 1, Len(p.pages))
           kept == SubSeq(p.pages, 1, k)
           R == Reserved(request)
<1>1. p.free \in Seq(Pages) /\ p.pages \in Seq(Pages) /\ p.active = TRUE  BY DEF IsPool
<1>2. Len(p.free) \in Nat /\ Len(p.pages) \in Nat /\ PagesFor(n) \in Nat
  BY <1>1, LenProperties, PagesForBounds
<1>3. k = PagesFor(n) /\ k \in Nat /\ k <= Len(p.pages)
  <2>1. PagesFor(n) <= Len(p.pages)  BY PagesForMonotone
  <2> QED  BY <1>2, <2>1 DEF Fewer
<1>4. back = [free |-> p.free \o Reverse(rest), pages |-> kept, tokens |-> n,
              active |-> p.active, epoch |-> p.epoch]
  BY TruncateFields
<1>5. IsPool(back) /\ Len(back.pages) = k /\ back.active
  BY <1>1, TruncateFacts
<1>6. /\ kept \in Seq(Pages) /\ rest \in Seq(Pages)
      /\ Len(kept) = k /\ Len(rest) = Len(p.pages) - k
      /\ kept \o rest = p.pages
  <2> DEFINE s == p.pages
  <2>1. s \in Seq(Pages) /\ k \in Nat /\ k <= Len(s)  BY <1>1, <1>3
  <2> HIDE DEF k, s
  <2>2. /\ SubSeq(s, 1, k) \in Seq(Pages) /\ SubSeq(s, k + 1, Len(s)) \in Seq(Pages)
        /\ Len(SubSeq(s, 1, k)) = k /\ Len(SubSeq(s, k + 1, Len(s))) = Len(s) - k
        /\ SubSeq(s, 1, k) \o SubSeq(s, k + 1, Len(s)) = s
    BY ONLY <2>1, SplitFacts
  <2> QED  BY <2>2 DEF s
<1> HIDE DEF back, rest, kept
<1>7. Reserve(back, n) = back
  <2>1. PagesFor(n) <= Len(back.pages)  BY <1>2, <1>3, <1>5
  <2> HIDE DEF n
  <2>2. n \in Nat  BY DEF n
  <2> QED  BY <1>5, <2>1, <2>2, ReserveNothing
<1> DEFINE top == Reverse(rest)
<1>8. top \in Seq(Pages) /\ Len(top) = Len(rest) /\ Reverse(top) = rest
  BY <1>6, ReverseFacts, ReverseTwice
<1> HIDE DEF top
<1>9. /\ p.free \o top \in Seq(Pages)
      /\ Len(p.free \o top) = Len(p.free) + Len(top)
  BY <1>1, <1>8, ConcatProperties
<1>10. Growth(back, R) = Len(top)
  <2>1. Growth(back, R) = IF Len(p.pages) >= k THEN Len(p.pages) - k ELSE 0
    BY <1>5 DEF Growth
  <2> QED  BY <1>2, <1>3, <1>6, <1>8, <2>1
<1>11. back.free = p.free \o top /\ back.pages = kept /\ back.tokens = n
       /\ back.active = TRUE /\ back.epoch = p.epoch
  BY <1>1, <1>4 DEF top
<1>12. Len(back.free) - Growth(back, R) = Len(p.free) /\ Len(top) \in Nat
  <2> DEFINE a == Len(p.free)
             b == Len(top)
  <2>1. a \in Nat /\ b \in Nat  BY <1>2, <1>8, LenProperties
  <2>2. Len(back.free) = a + b /\ Growth(back, R) = b  BY <1>9, <1>10, <1>11
  <2> HIDE DEF a, b
  <2>3. Len(back.free) - Growth(back, R) = a  BY <2>1, <2>2
  <2> QED  BY <2>1, <2>3 DEF a, b
<1>13. SubSeq(back.free, 1, Len(p.free)) = p.free
  <2> DEFINE f == back.free
             m == Len(p.free)
  <2>1. f \in Seq(Pages) /\ m \in Nat /\ m <= Len(f)  BY <1>2, <1>9, <1>11, <1>12
  <2>2. /\ SubSeq(f, 1, m) \in Seq(Pages) /\ Len(SubSeq(f, 1, m)) = m
        /\ \A i \in 1 .. m : SubSeq(f, 1, m)[i] = f[i]
    <3> HIDE DEF f, m
    <3> QED  BY <2>1, PrefixFacts
  <2>3. \A i \in 1 .. m : f[i] = p.free[i]
    <3>1. \A i \in 1 .. Len(p.free) + Len(top) :
             (p.free \o top)[i] = IF i <= Len(p.free) THEN p.free[i] ELSE top[i - Len(p.free)]
      BY <1>1, <1>8, ConcatProperties
    <3>2. \A i \in 1 .. m : i \in 1 .. Len(p.free) + Len(top) /\ i <= Len(p.free)
      BY <1>2, <1>12
    <3> QED  BY <1>11, <3>1, <3>2
  <2> QED  BY <1>1, <2>2, <2>3, SeqEqual
<1>14. SubSeq(back.free, Len(p.free) + 1, Len(back.free)) = top
  <2> DEFINE f == back.free
             m == Len(p.free)
             l == Len(f)
             e == SubSeq(f, m + 1, l)
  <2>1. f \in Seq(Pages) /\ m \in Nat /\ l \in Nat /\ m + 1 <= l + 1 /\ l - (m + 1) + 1 = Len(top)
    <3> DEFINE b == Len(top)
    <3>1. l = m + b /\ m \in Nat /\ b \in Nat  BY <1>2, <1>9, <1>11, <1>12
    <3>2. f \in Seq(Pages)  BY <1>9, <1>11
    <3> HIDE DEF b, m, l, f
    <3>3. l \in Nat /\ m + 1 <= l + 1 /\ l - (m + 1) + 1 = b  BY <3>1
    <3> QED  BY <3>1, <3>2, <3>3 DEF b
  <2>2. /\ e \in Seq(Pages) /\ Len(e) = l - (m + 1) + 1
        /\ \A i \in 1 .. l - (m + 1) + 1 : e[i] = f[m + 1 + i - 1]
    <3>1. m + 1 \in Nat \ {0} /\ l <= Len(f)  BY <2>1
    <3> DEFINE o == m + 1
    <3>2. o \in Nat \ {0} /\ o <= l + 1  BY <2>1, <3>1
    <3>3. e = SubSeq(f, o, l)  OBVIOUS
    <3> HIDE DEF o, l, f, e
    <3>4. /\ SubSeq(f, o, l) \in Seq(Pages) /\ Len(SubSeq(f, o, l)) = l - o + 1
          /\ \A i \in 1 .. l - o + 1 : SubSeq(f, o, l)[i] = f[o + i - 1]
      BY ONLY <2>1, <3>1, <3>2, PartFacts
    <3> QED  BY <3>3, <3>4 DEF o
  <2>3. \A i \in 1 .. Len(top) : f[m + 1 + i - 1] = top[i]
    <3>1. \A i \in 1 .. Len(p.free) + Len(top) :
             (p.free \o top)[i] = IF i <= Len(p.free) THEN p.free[i] ELSE top[i - Len(p.free)]
      BY <1>1, <1>8, ConcatProperties
    <3> DEFINE b == Len(top)
    <3>2. m \in Nat /\ b \in Nat  BY <1>2, <1>12
    <3>3. \A i \in 1 .. m + b : f[i] = IF i <= m THEN p.free[i] ELSE top[i - m]
      BY <1>11, <3>1
    <3> HIDE DEF m, b, f
    <3>4. ASSUME NEW i \in 1 .. b PROVE f[m + 1 + i - 1] = top[i]
      <4> DEFINE j == m + 1 + i - 1
      <4>1. j \in 1 .. m + b /\ ~(j <= m) /\ j - m = i  BY <3>2
      <4> HIDE DEF j
      <4>2. f[j] = top[j - m]  BY <3>3, <4>1
      <4> QED  BY <4>1, <4>2 DEF j
    <3> QED  BY <3>4 DEF b
  <2> HIDE DEF e, f, m, l
  <2>4. e = top  BY <1>8, <2>1, <2>2, <2>3, SeqEqual
  <2> QED  BY <2>4 DEF e, f, m, l
<1>15. Reserve(back, R) =
         [free |-> p.free, pages |-> p.pages, tokens |-> n, active |-> TRUE,
          epoch |-> p.epoch]
  <2> HIDE DEF R, n
  <2>1. R \in Nat  BY DEF R
  <2>2. Reserve(back, R) =
          [free |-> SubSeq(back.free, 1, Len(back.free) - Growth(back, R)),
           pages |-> back.pages \o Reverse(SubSeq(back.free,
                       Len(back.free) - Growth(back, R) + 1, Len(back.free))),
           tokens |-> back.tokens, active |-> TRUE,
           epoch |-> IF back.active THEN back.epoch ELSE back.epoch + 1]
    BY <1>5, <2>1, ReserveFields
  <2>3. Reserve(back, R) =
          [free |-> SubSeq(back.free, 1, Len(p.free)),
           pages |-> back.pages \o Reverse(SubSeq(back.free, Len(p.free) + 1, Len(back.free))),
           tokens |-> n, active |-> TRUE, epoch |-> p.epoch]
    BY <1>11, <1>12, <2>2
  <2> QED  BY <1>6, <1>8, <1>11, <1>13, <1>14, <2>3
<1>16. Restored(p) = Reserve(Reserve(back, n), R)  BY DEF Restored, back
<1> HIDE DEF R
<1>17. Restored(p) = [free |-> p.free, pages |-> p.pages, tokens |-> n, active |-> TRUE,
                      epoch |-> p.epoch]
  BY <1>7, <1>15, <1>16
<1>18. [p EXCEPT !.tokens = n] = [free |-> p.free, pages |-> p.pages, tokens |-> n,
                                  active |-> p.active, epoch |-> p.epoch]
  <2> HIDE DEF n
  <2>1. PICK q : q = [p EXCEPT !.tokens = n]  OBVIOUS
  <2>2. q = [free |-> p.free, pages |-> p.pages, tokens |-> n, active |-> p.active,
             epoch |-> p.epoch]
    BY <2>1 DEF IsPool
  <2> QED  BY <2>1, <2>2
<1> QED  BY <1>1, <1>17, <1>18

-----------------------------------------------------------------------------
(* What a span of rows leaves on the device, of a text that the target has *)
(* processed up to position q.                                             *)

Follows(tokens, text, q) ==
    /\ q + Len(tokens) <= Len(text)
    /\ \A i \in 1 .. Len(tokens) : tokens[i] = text[q + i]

(* Exactness needs a device's table and the planes spoken of, no more.     *)
LEMMA ExactFields ==
    ASSUME NEW d, NEW e, e.table = d.table, NEW text, NEW n
    PROVE  /\ e.kv = d.kv /\ Rows(d, text, n) => Rows(e, text, n)
           /\ e.mirror = d.mirror /\ Mirrored(d, text, n) => Mirrored(e, text, n)
           /\ TableSound(d) => TableSound(e)
           /\ Room(e) = Room(d)
<1>1. \A p : Cell(e, p) = Cell(d, p)  BY DEF Cell
<1> QED  BY <1>1 DEF Rows, Mirrored, TableSound, Room

LEMMA ContentsFacts ==
    ASSUME NEW d, NEW text \in Seq(Letters), NEW q \in Nat, NEW tokens \in Seq(Letters),
           Follows(tokens, text, q), d.recurrent = SubSeq(text, 1, q)
    PROVE  /\ Contents(d, tokens) \in Seq(Seq(Letters))
           /\ Len(Contents(d, tokens)) = Len(tokens)
           /\ DOMAIN Contents(d, tokens) = 1 .. Len(tokens)
           /\ \A i \in 1 .. Len(tokens) : Contents(d, tokens)[i] = SubSeq(text, 1, q + i)
<1> DEFINE n == Len(tokens)
           c == Contents(d, tokens)
<1>1. n \in Nat /\ DOMAIN tokens = 1 .. n /\ Len(text) \in Nat  BY LenProperties
<1>2. c = [i \in 1 .. n |-> d.recurrent \o SubSeq(tokens, 1, i)]  BY <1>1 DEF Contents
<1>3. ASSUME NEW i \in 1 .. n PROVE c[i] = SubSeq(text, 1, q + i) /\ c[i] \in Seq(Letters)
  <2>1. i \in Nat /\ i <= Len(tokens)  BY <1>1
  <2>2. SubSeq(text, 1, q) \o SubSeq(tokens, 1, i) = SubSeq(text, 1, q + i)
    BY <2>1, PrefixGrows DEF Follows
  <2>3. c[i] = SubSeq(text, 1, q + i)  BY <1>2, <2>2
  <2>4. q + i \in Nat /\ q + i <= Len(text)  BY <1>1, <2>1 DEF Follows
  <2>5. SubSeq(text, 1, q + i) \in Seq(Letters)
    <3> DEFINE k == q + i
    <3> HIDE DEF k
    <3>1. SubSeq(text, 1, k) \in Seq(Letters)  BY <2>4, PrefixFacts DEF k
    <3> QED  BY <3>1 DEF k
  <2> QED  BY <2>3, <2>5
<1>4. c \in Seq(Seq(Letters)) /\ Len(c) = n /\ DOMAIN c = 1 .. n
  <2> DEFINE e(i) == d.recurrent \o SubSeq(tokens, 1, i)
             S == Seq(Letters)
  <2>1. c = [i \in 1 .. n |-> e(i)] /\ \A i \in 1 .. n : e(i) \in S  BY <1>2, <1>3
  <2> HIDE DEF n, e, S, c
  <2>2. c \in Seq(S) /\ Len(c) = n /\ DOMAIN c = 1 .. n  BY <1>1, <2>1
  <2> QED  BY <2>2 DEF S
<1> QED  BY <1>3, <1>4

(* A span of tokens that come next, and what it does to the planes.        *)
CanRun(d, text, q, tokens) ==
    /\ IsDevice(d) /\ TableSound(d) /\ q \in Nat /\ q + Len(tokens) <= Room(d)
    /\ text \in Seq(Letters) /\ tokens \in Seq(Letters) /\ tokens # << >>
    /\ Follows(tokens, text, q) /\ Ran(d, text, q)
IsSpan(e, d, q, tokens) ==
    /\ IsDevice(e) /\ e.table = d.table /\ e.mirror = d.mirror /\ e.carry = d.carry
    /\ e.kv = Write(d.kv, d, q, Contents(d, tokens))
    /\ e.recurrent = Last(Contents(d, tokens)) /\ e.published = Contents(d, tokens)

LEMMA SpanFacts ==
    ASSUME NEW d, NEW e, NEW text, NEW q, NEW tokens,
           CanRun(d, text, q, tokens), IsSpan(e, d, q, tokens)
    PROVE  /\ Spanned(e, text, q, Len(tokens))
           /\ e.published \in Seq(Seq(Letters)) /\ Len(e.published) = Len(tokens)
<1> DEFINE n == Len(tokens)
           rows == Contents(d, tokens)
<1>0. /\ TableSound(d) /\ q \in Nat /\ q + n <= Room(d)
      /\ text \in Seq(Letters) /\ tokens \in Seq(Letters) /\ tokens # << >>
      /\ Follows(tokens, text, q) /\ d.recurrent = SubSeq(text, 1, q) /\ Rows(d, text, q)
      /\ e.table = d.table /\ e.kv = Write(d.kv, d, q, rows)
      /\ e.recurrent = Last(rows) /\ e.published = rows
  BY DEF CanRun, IsSpan, Ran
<1>1. n \in Nat \ {0}  BY <1>0, EmptySeq
<1>2. /\ rows \in Seq(Seq(Letters)) /\ Len(rows) = n /\ DOMAIN rows = 1 .. n
      /\ \A i \in 1 .. n : rows[i] = SubSeq(text, 1, q + i)
  <2>1. /\ Contents(d, tokens) \in Seq(Seq(Letters))
        /\ Len(Contents(d, tokens)) = Len(tokens)
        /\ DOMAIN Contents(d, tokens) = 1 .. Len(tokens)
        /\ \A i \in 1 .. Len(tokens) : Contents(d, tokens)[i] = SubSeq(text, 1, q + i)
    BY <1>0, ContentsFacts
  <2> QED  BY <2>1
<1> HIDE DEF rows, n
<1>3. e.recurrent = SubSeq(text, 1, q + n)
  <2>1. n \in 1 .. n  BY <1>1
  <2> QED  BY <1>0, <1>2, <2>1 DEF Last
<1>4. Rows(e, text, q + n)
  <2>1. q + n <= Room(d) /\ n \in Nat  BY <1>0, <1>1
  <2>2. /\ \A i \in 1 .. n : Write(d.kv, d, q, rows)[Cell(d, q + i - 1)] = rows[i]
        /\ \A p \in 0 .. q - 1 : Write(d.kv, d, q, rows)[Cell(d, p)] = d.kv[Cell(d, p)]
    <3>1. CanWrite(d, q, rows, n)  BY <1>0, <1>2, <2>1 DEF CanWrite
    <3> QED  BY <3>1, WriteFacts
  <2>3. ASSUME NEW p \in 0 .. (q + n) - 1 PROVE e.kv[Cell(e, p)] = SubSeq(text, 1, p + 1)
    <3>0. Cell(e, p) = Cell(d, p)  BY <1>0 DEF Cell
    <3>1. CASE p < q
      <4>1. p \in 0 .. q - 1  BY <1>0, <1>1, <3>1
      <4>2. d.kv[Cell(d, p)] = SubSeq(text, 1, p + 1)  BY <1>0, <4>1 DEF Rows
      <4> QED  BY <1>0, <2>2, <3>0, <4>1, <4>2
    <3>2. CASE ~(p < q)
      <4> DEFINE i == p - q + 1
      <4>1. i \in 1 .. n /\ q + i - 1 = p /\ q + i = p + 1  BY <1>0, <1>1, <3>2
      <4> HIDE DEF i
      <4>2. Write(d.kv, d, q, rows)[Cell(d, q + i - 1)] = rows[i]  BY <2>2, <4>1
      <4>3. rows[i] = SubSeq(text, 1, q + i)  BY <1>2, <4>1
      <4> QED  BY <1>0, <3>0, <4>1, <4>2, <4>3
    <3> QED  BY <3>1, <3>2
  <2> QED  BY <2>3 DEF Rows
<1>5. \A i \in 1 .. n : e.published[i] = SubSeq(text, 1, q + i)  BY <1>0, <1>2
<1>6. Spanned(e, text, q, n)  BY <1>3, <1>4, <1>5 DEF Spanned, Ran
<1> QED  BY <1>0, <1>2, <1>6 DEF n

LEMMA TargetSpanFacts ==
    ASSUME NEW d, IsDevice(d), NEW q, NEW tokens
    PROVE  IsSpan(TargetSpan(d, q, tokens), d, q, tokens)
<1> DEFINE rows == Contents(d, tokens)
<1>1. PICK e : e = TargetSpan(d, q, tokens)  OBVIOUS
<1>2. PICK ring, keys :
        e = [d EXCEPT !.kv = Write(@, d, q, rows), !.ring = ring, !.keys = keys,
                      !.recurrent = Last(rows), !.published = rows]
  BY <1>1 DEF TargetSpan
<1> HIDE DEF rows
<1>3. e = [table |-> d.table, kv |-> Write(d.kv, d, q, rows), keys |-> keys,
           mirror |-> d.mirror, ring |-> ring, recurrent |-> Last(rows),
           carry |-> d.carry, published |-> rows]
  BY <1>2 DEF IsDevice
<1>4. IsSpan(e, d, q, tokens)  BY <1>3 DEF IsDevice, IsSpan, rows
<1> QED  BY <1>1, <1>4

LEMMA PrefillTileFacts ==
    ASSUME NEW d, IsDevice(d), NEW q, NEW tokens
    PROVE  IsSpan(PrefillTile(d, q, tokens), d, q, tokens)
<1> DEFINE rows == Contents(d, tokens)
<1>1. PICK e : e = PrefillTile(d, q, tokens)  OBVIOUS
<1>2. PICK keys :
        e = [d EXCEPT !.kv = Write(@, d, q, rows), !.keys = keys,
                      !.recurrent = Last(rows), !.published = rows]
  BY <1>1 DEF PrefillTile
<1> HIDE DEF rows
<1>3. e = [table |-> d.table, kv |-> Write(d.kv, d, q, rows), keys |-> keys,
           mirror |-> d.mirror, ring |-> d.ring, recurrent |-> Last(rows),
           carry |-> d.carry, published |-> rows]
  BY <1>2 DEF IsDevice
<1>4. IsSpan(e, d, q, tokens)  BY <1>3 DEF IsDevice, IsSpan, rows
<1> QED  BY <1>1, <1>4

(* Rows of the draft of which the first m are those of the text.           *)
CanDraft(d, text, q, streams, tokens, n, m) ==
    /\ IsDevice(d) /\ TableSound(d) /\ Mirrored(d, text, q)
    /\ q \in Nat /\ n \in Nat /\ m \in 0 .. n /\ q + n <= Room(d)
    /\ DOMAIN tokens = 1 .. n
    /\ \A i \in 1 .. m : streams[i] = SubSeq(text, 1, q + i - 1) /\ tokens[i] = text[q + i]

LEMMA DraftRowsFacts ==
    ASSUME NEW d, NEW text, NEW q, NEW streams, NEW tokens, NEW n, NEW m,
           CanDraft(d, text, q, streams, tokens, n, m)
    PROVE  LET e == DraftRows(d, q, streams, tokens) IN
           /\ IsDevice(e) /\ e.table = d.table /\ e.kv = d.kv
           /\ e.recurrent = d.recurrent /\ e.carry = d.carry /\ e.published = d.published
           /\ Mirrored(e, text, q + m)
<1>a. /\ IsDevice(d) /\ TableSound(d) /\ Mirrored(d, text, q)
      /\ q \in Nat /\ n \in Nat /\ m \in 0 .. n /\ q + n <= Room(d)
      /\ DOMAIN tokens = 1 .. n
      /\ \A i \in 1 .. m : streams[i] = SubSeq(text, 1, q + i - 1) /\ tokens[i] = text[q + i]
  BY DEF CanDraft
<1> DEFINE rows == [i \in DOMAIN tokens |-> [stream |-> streams[i], token |-> tokens[i]]]
<1>1. PICK e : e = DraftRows(d, q, streams, tokens)  OBVIOUS
<1>2. e = [d EXCEPT !.mirror = Write(@, d, q, rows)]  BY <1>1 DEF DraftRows
<1>0. DOMAIN rows = 1 .. n /\ \A i \in 1 .. n : rows[i] = [stream |-> streams[i], token |-> tokens[i]]
  BY <1>a
<1> HIDE DEF rows
<1>3. e = [table |-> d.table, kv |-> d.kv, keys |-> d.keys,
           mirror |-> Write(d.mirror, d, q, rows), ring |-> d.ring,
           recurrent |-> d.recurrent, carry |-> d.carry, published |-> d.published]
  BY <1>2, <1>a DEF IsDevice
<1>4. /\ e.table = d.table /\ e.kv = d.kv /\ e.mirror = Write(d.mirror, d, q, rows)
      /\ e.recurrent = d.recurrent /\ e.carry = d.carry /\ e.published = d.published
  BY <1>3
<1>5. IsDevice(e)  BY <1>3 DEF IsDevice
<1>6. /\ \A i \in 1 .. n : Write(d.mirror, d, q, rows)[Cell(d, q + i - 1)] = rows[i]
      /\ \A p \in 0 .. q - 1 :
            Write(d.mirror, d, q, rows)[Cell(d, p)] = d.mirror[Cell(d, p)]
  <2>1. CanWrite(d, q, rows, n)  BY <1>0, <1>a DEF CanWrite
  <2> DEFINE plane == d.mirror
  <2> HIDE DEF plane
  <2>2. /\ \A i \in 1 .. n : Write(plane, d, q, rows)[Cell(d, q + i - 1)] = rows[i]
        /\ \A p \in 0 .. q - 1 : Write(plane, d, q, rows)[Cell(d, p)] = plane[Cell(d, p)]
    BY ONLY <2>1, WriteFacts
  <2> QED  BY <2>2 DEF plane
<1>7. ASSUME NEW p \in 0 .. (q + m) - 1
      PROVE  e.mirror[Cell(e, p)] = [stream |-> SubSeq(text, 1, p), token |-> text[p + 1]]
  <2>0. Cell(e, p) = Cell(d, p)  BY <1>4 DEF Cell
  <2>1. CASE p < q
    <3>1. p \in 0 .. q - 1  BY <2>1, <1>a
    <3> QED  BY <1>4, <1>6, <1>a, <2>0, <3>1 DEF Mirrored
  <2>2. CASE ~(p < q)
    <3> DEFINE i == p - q + 1
    <3>1. i \in 1 .. m /\ i \in 1 .. n /\ q + i - 1 = p /\ q + i = p + 1  BY <1>a, <2>2
    <3> HIDE DEF i
    <3>2. Write(d.mirror, d, q, rows)[Cell(d, q + i - 1)] = rows[i]  BY <1>6, <3>1
    <3>3. rows[i] = [stream |-> streams[i], token |-> tokens[i]]  BY <1>0, <3>1
    <3>4. streams[i] = SubSeq(text, 1, q + i - 1) /\ tokens[i] = text[q + i]  BY <1>a, <3>1
    <3> QED  BY <1>4, <2>0, <3>1, <3>2, <3>3, <3>4
  <2> QED  BY <2>1, <2>2
<1>8. Mirrored(e, text, q + m)  BY <1>7 DEF Mirrored
<1> QED  BY <1>1, <1>4, <1>5, <1>8

-----------------------------------------------------------------------------
(* Priming a prompt.                                                       *)

LEMMA PrimeChunkFacts ==
    ASSUME NEW d, NEW text, NEW q, NEW chunk, chunk.first = q,
           CanRun(d, text, q, chunk.tokens), Primed(d, text, q)
    PROVE  LET e == PrimeChunk(d, chunk) IN
           /\ IsDevice(e) /\ e.table = d.table
           /\ Primed(e, text, q + Len(chunk.tokens))
<1> DEFINE tokens == chunk.tokens
           n == Len(tokens)
<1>0. /\ IsDevice(d) /\ TableSound(d) /\ q \in Nat /\ q + n <= Room(d)
      /\ text \in Seq(Letters) /\ tokens \in Seq(Letters) /\ tokens # << >>
      /\ Follows(tokens, text, q) /\ d.carry = SubSeq(text, 1, q) /\ Mirrored(d, text, q)
  BY DEF CanRun, Primed
<1>1. n \in Nat \ {0} /\ DOMAIN tokens = 1 .. n  BY <1>0, EmptySeq, LenProperties
<1>2. PICK target : /\ IsSpan(target, d, q, tokens)
                    /\ PrimeChunk(d, chunk) =
                         CarryTargetRow(DraftRows(target, q,
                           <<d.carry>> \o SubSeq(target.published, 1, n - 1), tokens), n)
  <2>1. IsSpan(PrefillTile(d, q, tokens), d, q, tokens)  BY <1>0, PrefillTileFacts
  <2>2. IsSpan(TargetSpan(d, q, tokens), d, q, tokens)  BY <1>0, TargetSpanFacts
  <2> QED  BY <2>1, <2>2 DEF PrimeChunk
<1> HIDE DEF tokens, n
<1>3. /\ Spanned(target, text, q, n)
      /\ target.published \in Seq(Seq(Letters)) /\ Len(target.published) = n
  <2>1. CanRun(d, text, q, tokens)  BY DEF tokens
  <2> QED  BY <1>2, <2>1, SpanFacts DEF n
<1>4. /\ IsDevice(target) /\ target.table = d.table /\ target.mirror = d.mirror
  BY <1>2 DEF IsSpan
<1>5. TableSound(target) /\ Room(target) = Room(d) /\ Mirrored(target, text, q)
  BY <1>0, <1>4, ExactFields
<1> DEFINE streams == <<d.carry>> \o SubSeq(target.published, 1, n - 1)
           e2 == DraftRows(target, q, streams, tokens)
<1>6. ASSUME NEW i \in 1 .. n PROVE streams[i] = SubSeq(text, 1, q + i - 1)
  <2> DEFINE head == <<d.carry>>
             tail == SubSeq(target.published, 1, n - 1)
             S == Seq(Letters)
  <2>1. d.carry \in S
    <3>1. q <= Len(text)  BY <1>0, <1>1, LenProperties DEF Follows, n
    <3> QED  BY <1>0, <3>1, PrefixFacts
  <2>2. head \in Seq(S) /\ Len(head) = 1 /\ head[1] = d.carry  BY <2>1
  <2>3. /\ tail \in Seq(S) /\ Len(tail) = n - 1
        /\ \A k \in 1 .. n - 1 : tail[k] = target.published[k]
    <3> DEFINE l == n - 1
    <3>1. l \in Nat /\ l <= Len(target.published)  BY <1>1, <1>3
    <3> HIDE DEF l
    <3>2. /\ SubSeq(target.published, 1, l) \in Seq(S)
          /\ Len(SubSeq(target.published, 1, l)) = l
          /\ \A k \in 1 .. l : SubSeq(target.published, 1, l)[k] = target.published[k]
      BY <1>3, <3>1, PrefixFacts
    <3> QED  BY <3>2 DEF l
  <2> HIDE DEF head, tail, S
  <2>4. \A k \in 1 .. Len(head) + Len(tail) :
           (head \o tail)[k] = IF k <= Len(head) THEN head[k] ELSE tail[k - Len(head)]
    BY <2>2, <2>3, ConcatProperties
  <2>5. \A k \in 1 .. n : (head \o tail)[k] = IF k <= 1 THEN head[k] ELSE tail[k - 1]
    <3>1. Len(head) + Len(tail) = n  BY <1>1, <2>2, <2>3
    <3> QED  BY <2>2, <2>4, <3>1
  <2>6. CASE i = 1
    <3>1. (head \o tail)[i] = d.carry
      <4>1. 1 \in 1 .. n /\ 1 <= 1  BY <1>1
      <4> HIDE DEF n
      <4>2. (head \o tail)[1] = head[1]  BY ONLY <2>5, <4>1
      <4> QED  BY ONLY <2>2, <2>6, <4>2
    <3>2. q + i - 1 = q  BY <1>0, <2>6
    <3> QED  BY <1>0, <3>1, <3>2 DEF head, tail
  <2>7. CASE i # 1
    <3> DEFINE k == i - 1
    <3>1. k \in 1 .. n - 1 /\ k \in 1 .. n /\ ~(i <= 1) /\ q + k = q + i - 1
      BY <1>0, <1>1, <2>7
    <3>2. (head \o tail)[i] = tail[k]  BY <2>5, <3>1
    <3> HIDE DEF k
    <3>3. tail[k] = SubSeq(text, 1, q + k)  BY <1>3, <2>3, <3>1 DEF Spanned
    <3> QED  BY <3>1, <3>2, <3>3 DEF head, tail
  <2> QED  BY <2>6, <2>7
<1>7. /\ IsDevice(e2) /\ e2.table = target.table /\ e2.kv = target.kv
      /\ e2.recurrent = target.recurrent /\ e2.published = target.published
      /\ Mirrored(e2, text, q + n)
  <2> HIDE DEF streams
  <2>1. n \in Nat /\ n \in 0 .. n /\ q + n <= Room(target)  BY <1>0, <1>1, <1>5 DEF n
  <2>2. \A i \in 1 .. n : tokens[i] = text[q + i]  BY <1>0 DEF Follows, n
  <2>3. CanDraft(target, text, q, streams, tokens, n, n)
    BY <1>0, <1>1, <1>4, <1>5, <1>6, <2>1, <2>2 DEF CanDraft
  <2>4. LET e == DraftRows(target, q, streams, tokens) IN
        /\ IsDevice(e) /\ e.table = target.table /\ e.kv = target.kv
        /\ e.recurrent = target.recurrent /\ e.carry = target.carry
        /\ e.published = target.published
        /\ Mirrored(e, text, q + n)
    BY ONLY <2>3, DraftRowsFacts
  <2> QED  BY <2>4
<1> HIDE DEF e2
<1>8. PICK e : e = CarryTargetRow(e2, n)  OBVIOUS
<1>9. e = [table |-> e2.table, kv |-> e2.kv, keys |-> e2.keys, mirror |-> e2.mirror,
           ring |-> e2.ring, recurrent |-> e2.recurrent, carry |-> e2.published[n],
           published |-> e2.published]
  BY <1>7, <1>8 DEF CarryTargetRow, IsDevice
<1>10. /\ IsDevice(e) /\ e.table = d.table /\ e.kv = target.kv /\ e.mirror = e2.mirror
       /\ e.recurrent = target.recurrent /\ e.carry = target.published[n]
  BY <1>4, <1>7, <1>9 DEF IsDevice
<1>11. e.carry = SubSeq(text, 1, q + n)
  <2>1. n \in 1 .. n  BY <1>1
  <2> QED  BY <1>3, <1>10, <2>1 DEF Spanned
<1>12. Ran(e, text, q + n)
  <2>1. Rows(target, text, q + n)  BY <1>3 DEF Spanned, Ran
  <2>2. Rows(e, text, q + n)  BY <1>4, <1>10, <2>1, ExactFields
  <2> QED  BY <1>3, <1>10, <2>2 DEF Spanned, Ran
<1>13. Mirrored(e, text, q + n)  BY <1>4, <1>7, <1>10, ExactFields
<1>14. PrimeChunk(d, chunk) = e  BY <1>2, <1>8 DEF e2
<1> QED  BY <1>10, <1>11, <1>12, <1>13, <1>14 DEF Primed, n, tokens

(* Positions that the first n chunks of a prompt fill.                     *)
Tiles(prompt) == Len(prompt) \div Tile
Filled(prompt, n) ==
    IF n <= Tiles(prompt) THEN n * Tile ELSE Tiles(prompt) * Tile + (n - Tiles(prompt))

LEMMA ChunkFacts ==
    ASSUME NEW prompt \in Seq(Letters)
    PROVE  /\ Len(Chunks(prompt)) \in Nat /\ Filled(prompt, 0) = 0
           /\ Chunks(prompt) \in Seq([first : Nat, tokens : Seq(Letters)])
           /\ Filled(prompt, Len(Chunks(prompt))) = Len(prompt)
           /\ \A n \in 1 .. Len(Chunks(prompt)) :
                LET c == Chunks(prompt)[n] IN
                /\ c.first = Filled(prompt, n - 1) /\ c.first \in Nat
                /\ c.tokens \in Seq(Letters) /\ c.tokens # << >>
                /\ Follows(c.tokens, prompt, c.first)
                /\ Filled(prompt, n) = c.first + Len(c.tokens)
<1> DEFINE N == Len(prompt)
           tiles == N \div Tile
           tail == N % Tile
           S == [first : Nat, tokens : Seq(Letters)]
           tile(i) == [first |-> (i - 1) * Tile,
                       tokens |-> SubSeq(prompt, (i - 1) * Tile + 1, i * Tile)]
           row(i) == [first |-> tiles * Tile + i - 1,
                      tokens |-> <<prompt[tiles * Tile + i]>>]
           A == [i \in 1 .. tiles |-> tile(i)]
           B == [i \in 1 .. tail |-> row(i)]
<1>1. N \in Nat /\ Tile \in Nat /\ Tile > 0  BY LenProperties, Constants
<1>2. /\ tiles \in Nat /\ tail \in Nat /\ tiles * Tile \in Nat
      /\ N = tiles * Tile + tail
  <2>1. tiles \in Nat /\ tail \in Nat /\ N = Tile * tiles + tail
    <3> HIDE DEF N
    <3>1. N \in Nat /\ Tile \in Nat \ {0}  BY <1>1
    <3>2. N \div Tile \in Nat /\ (N % Tile) \in 0 .. Tile - 1
          /\ N = Tile * (N \div Tile) + (N % Tile)
      BY <3>1, DivMod
    <3>3. (N % Tile) \in Nat  BY <3>1, <3>2
    <3> QED  BY <3>2, <3>3
  <2> HIDE DEF tiles, tail, N
  <2>2. Tile * tiles = tiles * Tile /\ tiles * Tile \in Nat  BY <1>1, <2>1
  <2> QED  BY <2>1, <2>2
<1>3. Chunks(prompt) = A \o B  BY DEF Chunks
<1>4. Filled(prompt, 0) = 0
  <2>1. 0 <= tiles  BY <1>2
  <2> QED  BY <1>1, <2>1 DEF Filled, Tiles
<1>5. \A n : Filled(prompt, n) = IF n <= tiles THEN n * Tile ELSE tiles * Tile + (n - tiles)
  BY DEF Filled, Tiles
<1> HIDE DEF N, tiles, tail
<1>6. ASSUME NEW i \in 1 .. tiles
      PROVE  /\ tile(i).first = (i - 1) * Tile /\ (i - 1) * Tile \in Nat
             /\ tile(i).tokens \in Seq(Letters) /\ Len(tile(i).tokens) = Tile
             /\ (i - 1) * Tile + Tile = i * Tile
             /\ Follows(tile(i).tokens, prompt, (i - 1) * Tile)
  <2> DEFINE lo == (i - 1) * Tile
             hi == i * Tile
             t == SubSeq(prompt, lo + 1, hi)
  <2>1. lo \in Nat /\ hi \in Nat /\ lo + Tile = hi /\ hi <= N
    <3>1. i \in Nat /\ i - 1 \in Nat /\ i <= tiles  BY <1>2
    <3>2. (i - 1) * Tile \in Nat /\ i * Tile \in Nat /\ (i - 1) * Tile + Tile = i * Tile
      BY <1>1, <3>1
    <3>3. i * Tile <= tiles * Tile  BY <1>1, <1>2, <3>1
    <3> HIDE DEF lo, hi
    <3>4. hi <= tiles * Tile /\ hi \in Nat  BY <3>2, <3>3 DEF hi
    <3>5. hi <= N  BY <1>2, <3>4
    <3> QED  BY <3>2, <3>5 DEF lo, hi
  <2> HIDE DEF lo, hi
  <2>2. /\ t \in Seq(Letters) /\ Len(t) = Tile
        /\ \A k \in 1 .. Tile : t[k] = prompt[lo + k]
    <3> DEFINE o == lo + 1
    <3>1. o \in Nat \ {0} /\ o <= hi + 1 /\ hi <= Len(prompt) /\ hi - o + 1 = Tile
      BY <1>1, <2>1 DEF N
    <3>3. \A k \in 1 .. Tile : o + k - 1 = lo + k  BY <1>1, <2>1
    <3> HIDE DEF o
    <3>2. /\ SubSeq(prompt, o, hi) \in Seq(Letters) /\ Len(SubSeq(prompt, o, hi)) = hi - o + 1
          /\ \A k \in 1 .. hi - o + 1 : SubSeq(prompt, o, hi)[k] = prompt[o + k - 1]
      BY <2>1, <3>1, PartFacts
    <3> QED  BY <3>1, <3>2, <3>3 DEF o
  <2> HIDE DEF t
  <2>3. tile(i) = [first |-> lo, tokens |-> t]  BY DEF lo, hi, t
  <2>4. Follows(t, prompt, lo)  BY <2>1, <2>2 DEF Follows, N
  <2> QED  BY <2>1, <2>2, <2>3, <2>4 DEF lo, hi
<1>7. ASSUME NEW i \in 1 .. tail
      PROVE  /\ row(i).first = tiles * Tile + i - 1 /\ row(i).first \in Nat
             /\ row(i).tokens \in Seq(Letters) /\ Len(row(i).tokens) = 1
             /\ Follows(row(i).tokens, prompt, row(i).first)
  <2> DEFINE b == tiles * Tile
  <2>1. b \in Nat /\ b + i \in 1 .. N /\ b + i - 1 \in Nat /\ (b + i - 1) + 1 = b + i
    BY <1>2
  <2> HIDE DEF b
  <2>2. prompt[b + i] \in Letters  BY <2>1, ElementOfSeq DEF N
  <2>3. row(i) = [first |-> b + i - 1, tokens |-> <<prompt[b + i]>>]  BY DEF b
  <2>4. <<prompt[b + i]>> \in Seq(Letters) /\ Len(<<prompt[b + i]>>) = 1
        /\ <<prompt[b + i]>>[1] = prompt[b + i]
    BY <2>2
  <2>5. Follows(<<prompt[b + i]>>, prompt, b + i - 1)
    BY <2>1, <2>4 DEF Follows, N
  <2> QED  BY <2>1, <2>3, <2>4, <2>5 DEF b
<1>8. A \in Seq(S) /\ Len(A) = tiles /\ \A i \in 1 .. tiles : A[i] = tile(i)
  <2>1. \A i \in 1 .. tiles : tile(i) \in S  BY <1>6
  <2> HIDE DEF tile, S
  <2> QED  BY <1>2, <2>1
<1>9. B \in Seq(S) /\ Len(B) = tail /\ \A i \in 1 .. tail : B[i] = row(i)
  <2>1. \A i \in 1 .. tail : row(i) \in S  BY <1>7
  <2> HIDE DEF row, S
  <2> QED  BY <1>2, <2>1
<1> HIDE DEF A, B, S
<1>10. /\ A \o B \in Seq(S) /\ Len(A \o B) = tiles + tail
       /\ \A n \in 1 .. tiles + tail : (A \o B)[n] = IF n <= tiles THEN A[n] ELSE B[n - tiles]
  <2>1. /\ A \o B \in Seq(S) /\ Len(A \o B) = Len(A) + Len(B)
        /\ \A n \in 1 .. Len(A) + Len(B) : (A \o B)[n] = IF n <= Len(A) THEN A[n] ELSE B[n - Len(A)]
    BY <1>8, <1>9, ConcatProperties
  <2> QED  BY <1>8, <1>9, <2>1
<1>11. Filled(prompt, tiles + tail) = N
  <2>1. CASE tail = 0
    <3>1. tiles + tail = tiles /\ tiles <= tiles  BY <1>2, <2>1
    <3> QED  BY <1>2, <1>5, <2>1, <3>1
  <2>2. CASE tail # 0
    <3>1. ~(tiles + tail <= tiles) /\ (tiles + tail) - tiles = tail  BY <1>2, <2>2
    <3> QED  BY <1>2, <1>5, <3>1
  <2> QED  BY <2>1, <2>2
<1>12. ASSUME NEW n \in 1 .. tiles + tail
       PROVE  LET c == (A \o B)[n] IN
              /\ c.first = Filled(prompt, n - 1) /\ c.first \in Nat
              /\ c.tokens \in Seq(Letters) /\ c.tokens # << >>
              /\ Follows(c.tokens, prompt, c.first)
              /\ Filled(prompt, n) = c.first + Len(c.tokens)
  <2>0. n \in Nat /\ n - 1 \in Nat /\ 1 <= n /\ n <= tiles + tail  BY <1>2
  <2>1. CASE n <= tiles
    <3>1. n \in 1 .. tiles /\ n - 1 <= tiles  BY <1>2, <2>0, <2>1
    <3>2. (A \o B)[n] = tile(n)  BY <1>8, <1>10, <2>1, <3>1
    <3>3. Filled(prompt, n) = n * Tile /\ Filled(prompt, n - 1) = (n - 1) * Tile
      BY <1>5, <2>1, <3>1
    <3>4. /\ tile(n).first = (n - 1) * Tile /\ (n - 1) * Tile \in Nat
          /\ tile(n).tokens \in Seq(Letters) /\ Len(tile(n).tokens) = Tile
          /\ (n - 1) * Tile + Tile = n * Tile
          /\ Follows(tile(n).tokens, prompt, (n - 1) * Tile)
      BY <1>6, <3>1
    <3> HIDE DEF tile
    <3>5. tile(n).tokens # << >>
      <4>1. Len(tile(n).tokens) # 0  BY <1>1, <3>4
      <4> QED  BY <4>1, EmptySeq
    <3> QED  BY <3>2, <3>3, <3>4, <3>5
  <2>2. CASE ~(n <= tiles)
    <3> DEFINE i == n - tiles
    <3>1. i \in 1 .. tail /\ n \in 1 .. tiles + tail  BY <1>2, <2>0, <2>2
    <3>2. (A \o B)[n] = row(i)  BY <1>9, <1>10, <2>2, <3>1
    <3>3. Filled(prompt, n) = tiles * Tile + i  BY <1>5, <2>2
    <3>4. Filled(prompt, n - 1) = tiles * Tile + i - 1
      <4>1. CASE n - 1 <= tiles
        <5>1. n - 1 = tiles /\ i = 1  BY <1>2, <2>0, <2>2, <4>1
        <5>2. Filled(prompt, n - 1) = (n - 1) * Tile  BY <1>5, <4>1
        <5>3. (n - 1) * Tile = tiles * Tile  BY <5>1
        <5>4. tiles * Tile = tiles * Tile + i - 1  BY <1>2, <5>1
        <5> QED  BY <5>2, <5>3, <5>4
      <4>2. CASE ~(n - 1 <= tiles)
        <5>1. Filled(prompt, n - 1) = tiles * Tile + (n - 1 - tiles)  BY <1>5, <4>2
        <5>2. n - 1 - tiles = i - 1  BY <1>2, <2>0
        <5> QED  BY <5>1, <5>2
      <4> QED  BY <4>1, <4>2
    <3> HIDE DEF i
    <3>5. /\ row(i).first = tiles * Tile + i - 1 /\ row(i).first \in Nat
          /\ row(i).tokens \in Seq(Letters) /\ Len(row(i).tokens) = 1
          /\ Follows(row(i).tokens, prompt, row(i).first)
      BY <1>7, <3>1
    <3> HIDE DEF row
    <3>6. row(i).tokens # << >>
      <4>1. Len(row(i).tokens) # 0  BY <3>5
      <4> QED  BY <4>1, EmptySeq
    <3>7. tiles * Tile + i = row(i).first + Len(row(i).tokens)
      <4>1. i \in Nat /\ tiles * Tile \in Nat  BY <1>2, <3>1
      <4>2. (tiles * Tile + i - 1) + 1 = tiles * Tile + i  BY <4>1
      <4> QED  BY <3>5, <4>2
    <3> QED  BY <3>2, <3>3, <3>4, <3>5, <3>6, <3>7
  <2> QED  BY <2>1, <2>2
<1>13. Len(Chunks(prompt)) = tiles + tail /\ tiles + tail \in Nat  BY <1>2, <1>3, <1>10
<1> QED  BY <1>3, <1>4, <1>10, <1>11, <1>12, <1>13 DEF N, S

LEMMA Least ==
    ASSUME NEW S \in SUBSET Nat, S # {}
    PROVE  \E m \in S : \A n \in S : m <= n
<1>1. \E m \in S : \A n \in S : ~(<<n, m>> \in OpToRel(<, Nat))
  BY WFMin, NatLessThanWellFounded, Zenon
<1>2. PICK m \in S : \A n \in S : ~(<<n, m>> \in OpToRel(<, Nat))  BY <1>1
<1>3. \A n \in S : ~(n < m)
  <2> SUFFICES ASSUME NEW n \in S, n < m PROVE FALSE  OBVIOUS
  <2>1. <<n, m>> \in Nat \X Nat /\ <<n, m>>[1] < <<n, m>>[2]  OBVIOUS
  <2>2. <<n, m>> \in OpToRel(<, Nat)  BY <2>1, Zenon DEF OpToRel
  <2> QED  BY <1>2, <2>2
<1> QED  BY <1>3

(* The devices between the chunks are those of Prime's recursion.          *)
IsPrimed(k, d, chunks, n) ==
    /\ k = [i \in 0 .. n |-> k[i]]
    /\ n >= 0 => k[0] = d
    /\ \A i \in 1 .. n : k[i] = PrimeChunk(k[i - 1], chunks[i])

LEMMA PrimeIsDefined ==
    ASSUME NEW d, NEW chunks, Len(chunks) \in Nat
    PROVE  \E k : IsPrimed(k, d, chunks, Len(chunks)) /\ Prime(d, chunks) = k[Len(chunks)]
<1> DEFINE N == Len(chunks)
           Def(k, n) == k = [i \in 0 .. n |-> IF i = 0 THEN d
                                              ELSE PrimeChunk(k[i - 1], chunks[i])]
           Upto(n) == \E k : Def(k, n)
<1>0. ASSUME NEW k, NEW n \in Nat, IsPrimed(k, d, chunks, n) PROVE Def(k, n)
  <2>1. ASSUME NEW i \in 0 .. n
        PROVE  k[i] = IF i = 0 THEN d ELSE PrimeChunk(k[i - 1], chunks[i])
    <3>1. CASE i = 0  BY <1>0, <3>1 DEF IsPrimed
    <3>2. CASE i # 0
      <4>1. i \in 1 .. n  BY <3>2
      <4> QED  BY <1>0, <3>2, <4>1 DEF IsPrimed
    <3> QED  BY <3>1, <3>2
  <2>2. k = [i \in 0 .. n |-> k[i]]  BY <1>0 DEF IsPrimed
  <2> QED  BY <2>1, <2>2
<1>1. ASSUME NEW k, NEW n \in Nat, Def(k, n) PROVE IsPrimed(k, d, chunks, n)
  <2> DEFINE e(i) == IF i = 0 THEN d ELSE PrimeChunk(k[i - 1], chunks[i])
  <2>1. k = [i \in 0 .. n |-> e(i)]  BY <1>1
  <2> HIDE DEF e
  <2>2. ASSUME NEW i \in 0 .. n PROVE k[i] = e(i)  BY <2>1
  <2>3. k = [i \in 0 .. n |-> k[i]]  BY <2>1, <2>2
  <2>4. k[0] = d
    <3>1. 0 \in 0 .. n  OBVIOUS
    <3> QED  BY <2>2, <3>1 DEF e
  <2>5. ASSUME NEW i \in 1 .. n PROVE k[i] = PrimeChunk(k[i - 1], chunks[i])
    <3>1. i \in 0 .. n /\ i # 0  OBVIOUS
    <3> QED  BY <2>2, <3>1 DEF e
  <2> QED  BY <2>3, <2>4, <2>5 DEF IsPrimed
<1>2. Upto(0)
  <2> DEFINE k == [i \in 0 .. 0 |-> d]
  <2>1. IsPrimed(k, d, chunks, 0)  BY DEF IsPrimed
  <2> QED  BY <1>0, <2>1
<1>3. ASSUME NEW n \in Nat, Upto(n) PROVE Upto(n + 1)
  <2>1. PICK k : Def(k, n)  BY <1>3
  <2>2. IsPrimed(k, d, chunks, n)  BY <1>1, <2>1
  <2> DEFINE l == [i \in 0 .. n + 1 |-> IF i <= n THEN k[i]
                                        ELSE PrimeChunk(k[n], chunks[n + 1])]
  <2>3. l = [i \in 0 .. n + 1 |-> l[i]]  OBVIOUS
  <2>4. l[0] = d  BY <2>2 DEF IsPrimed
  <2>5. ASSUME NEW i \in 1 .. n + 1 PROVE l[i] = PrimeChunk(l[i - 1], chunks[i])
    <3>1. CASE i <= n
      <4>1. i \in 1 .. n  BY <3>1
      <4>2. l[i] = k[i] /\ l[i - 1] = k[i - 1]  BY <3>1
      <4> HIDE DEF l
      <4> QED  BY <2>2, <4>1, <4>2 DEF IsPrimed
    <3>2. CASE ~(i <= n)
      <4>1. i = n + 1  BY <3>2
      <4>2. l[i] = PrimeChunk(k[n], chunks[n + 1]) /\ l[i - 1] = k[n]  BY <4>1
      <4> HIDE DEF l
      <4> QED  BY <4>1, <4>2
    <3> QED  BY <3>1, <3>2
  <2> HIDE DEF l
  <2>6. IsPrimed(l, d, chunks, n + 1)  BY <2>3, <2>4, <2>5 DEF IsPrimed
  <2>7. n + 1 \in Nat  OBVIOUS
  <2> HIDE DEF Def
  <2> QED  BY <1>0, <2>6, <2>7
<1> HIDE DEF Def
<1>4. Upto(N)
  <2> HIDE DEF Upto
  <2>0. N \in Nat  OBVIOUS
  <2> DEFINE Bad == { n \in Nat : ~Upto(n) }
  <2> HIDE DEF N
  <2> SUFFICES ASSUME Bad # {} PROVE FALSE  BY <2>0
  <2>1. PICK m \in Bad : \A n \in Bad : m <= n
    <3>1. Bad \in SUBSET Nat  OBVIOUS
    <3> HIDE DEF Bad
    <3> QED  BY <3>1, Least
  <2>2. m # 0  BY <1>2
  <2>3. m - 1 \in Nat /\ (m - 1) + 1 = m /\ ~(m <= m - 1)  BY <2>2
  <2>4. Upto(m - 1)  BY <2>1, <2>3
  <2>5. Upto((m - 1) + 1)
    <3> DEFINE o == m - 1
    <3>1. o \in Nat /\ Upto(o)  BY <2>3, <2>4
    <3> HIDE DEF o
    <3>2. Upto(o + 1)  BY <1>3, <3>1
    <3> QED  BY <3>2 DEF o
  <2> QED  BY <2>3, <2>5
<1> DEFINE k == CHOOSE k : Def(k, N)
<1>5. Def(k, N)  BY <1>4
<1>6. IsPrimed(k, d, chunks, N)  BY <1>1, <1>5
<1>7. Prime(d, chunks) = k[N]  BY DEF Prime, Def
<1> HIDE DEF k
<1> QED  BY <1>6, <1>7

(* A device ready for a prompt: a slot with room, and nothing in it yet.   *)
CanPrime(d, prompt) ==
    /\ IsDevice(d) /\ TableSound(d) /\ prompt \in Seq(Letters) /\ Len(prompt) <= Room(d)
    /\ Primed(d, prompt, 0)

LEMMA PrimeFacts ==
    ASSUME NEW d, NEW prompt, CanPrime(d, prompt),
           NEW chunks, NEW n \in Nat, n <= Len(Chunks(prompt)), Len(chunks) = n,
           \A i \in 1 .. n : chunks[i] = Chunks(prompt)[i]
    PROVE  LET e == Prime(d, chunks) IN
           /\ IsDevice(e) /\ e.table = d.table
           /\ Filled(prompt, n) \in Nat /\ Filled(prompt, n) <= Len(prompt)
           /\ Primed(e, prompt, Filled(prompt, n))
<1>0. /\ IsDevice(d) /\ TableSound(d) /\ prompt \in Seq(Letters) /\ Len(prompt) <= Room(d)
      /\ Primed(d, prompt, 0) /\ Room(d) \in Nat /\ Len(prompt) \in Nat
  BY RoomIsNat, LenProperties DEF CanPrime
<1>1. PICK k : IsPrimed(k, d, chunks, n) /\ Prime(d, chunks) = k[n]
  BY PrimeIsDefined
<1>2. /\ Len(Chunks(prompt)) \in Nat /\ Filled(prompt, 0) = 0
      /\ \A i \in 1 .. Len(Chunks(prompt)) :
           LET c == Chunks(prompt)[i] IN
           /\ c.first = Filled(prompt, i - 1) /\ c.first \in Nat
           /\ c.tokens \in Seq(Letters) /\ c.tokens # << >>
           /\ Follows(c.tokens, prompt, c.first)
           /\ Filled(prompt, i) = c.first + Len(c.tokens)
  BY <1>0, ChunkFacts
<1> DEFINE Sound(i) == /\ IsDevice(k[i]) /\ k[i].table = d.table
                       /\ Filled(prompt, i) \in Nat /\ Filled(prompt, i) <= Len(prompt)
                       /\ Primed(k[i], prompt, Filled(prompt, i))
<1>3. Sound(0)  BY <1>0, <1>1, <1>2 DEF IsPrimed
<1>4. ASSUME NEW i \in 1 .. n, Sound(i - 1) PROVE Sound(i)
  <2> DEFINE c == chunks[i]
             b == k[i - 1]
             q == c.first
  <2>1. i \in 1 .. Len(Chunks(prompt)) /\ c = Chunks(prompt)[i]  BY <1>2
  <2>2. /\ q = Filled(prompt, i - 1) /\ q \in Nat /\ c.tokens \in Seq(Letters)
        /\ c.tokens # << >> /\ Follows(c.tokens, prompt, q)
        /\ Filled(prompt, i) = q + Len(c.tokens)
    BY <1>2, <2>1
  <2>3. k[i] = PrimeChunk(b, c)  BY <1>1 DEF IsPrimed
  <2>4. IsDevice(b) /\ b.table = d.table /\ Primed(b, prompt, q)  BY <1>4, <2>2
  <2> HIDE DEF Sound, c, b, q
  <2>5. TableSound(b) /\ Room(b) = Room(d)  BY <1>0, <2>4, ExactFields
  <2>6. Len(c.tokens) \in Nat /\ q + Len(c.tokens) <= Len(prompt)
    BY <2>2, LenProperties DEF Follows
  <2>7. CanRun(b, prompt, q, c.tokens)
    <3>1. q + Len(c.tokens) <= Room(b)
      <4> DEFINE l == Len(c.tokens)
                 m == Len(prompt)
                 r == Room(d)
      <4>1. l \in Nat /\ m \in Nat /\ r \in Nat /\ q \in Nat /\ q + l <= m /\ m <= r
        BY <1>0, <2>2, <2>6
      <4> HIDE DEF l, m, r
      <4>2. q + l <= r  BY <4>1
      <4> QED  BY <2>5, <4>2 DEF l, r
    <3>2. Ran(b, prompt, q)  BY <2>4 DEF Primed
    <3> QED  BY <1>0, <2>2, <2>4, <2>5, <3>1, <3>2 DEF CanRun
  <2>8. LET e == PrimeChunk(b, c) IN
        /\ IsDevice(e) /\ e.table = b.table
        /\ Primed(e, prompt, q + Len(c.tokens))
    <3>1. c.first = q  BY DEF q
    <3>2. Primed(b, prompt, c.first)  BY <2>4, <3>1
    <3>3. CanRun(b, prompt, c.first, c.tokens)  BY <2>7, <3>1
    <3> QED  BY ONLY <3>1, <3>2, <3>3, PrimeChunkFacts
  <2>9. Filled(prompt, i) \in Nat  BY <2>2, <2>6
  <2> QED  BY <2>2, <2>3, <2>4, <2>6, <2>8, <2>9 DEF Sound
<1> HIDE DEF Sound
<1>5. Sound(n)
  <2> DEFINE Bad == { i \in 0 .. n : ~Sound(i) }
  <2> SUFFICES ASSUME Bad # {} PROVE FALSE  OBVIOUS
  <2>0. Bad \in SUBSET Nat  OBVIOUS
  <2>1. PICK m \in Bad : \A i \in Bad : m <= i
    <3> HIDE DEF Bad
    <3> QED  BY <2>0, Least
  <2>2. m \in 1 .. n /\ m - 1 \in 0 .. n /\ ~(m <= m - 1)  BY <1>3, <2>1
  <2>3. Sound(m - 1)  BY <2>1, <2>2
  <2> QED  BY <1>4, <2>1, <2>2, <2>3
<1> QED  BY <1>1, <1>5 DEF Sound

(* All of the prompt, as admission primes it.                              *)
LEMMA PrimedPrompt ==
    ASSUME NEW d, NEW prompt, CanPrime(d, prompt)
    PROVE  LET e == Prime(d, Chunks(prompt)) IN
           IsDevice(e) /\ e.table = d.table /\ Primed(e, prompt, Len(prompt))
<1>1. /\ Len(Chunks(prompt)) \in Nat
      /\ Filled(prompt, Len(Chunks(prompt))) = Len(prompt)
  BY ChunkFacts DEF CanPrime
<1> DEFINE n == Len(Chunks(prompt))
           chunks == Chunks(prompt)
<1>2. /\ n \in Nat /\ n <= Len(Chunks(prompt)) /\ Len(chunks) = n
      /\ \A i \in 1 .. n : chunks[i] = Chunks(prompt)[i]
  BY <1>1
<1> HIDE DEF n, chunks
<1>3. LET e == Prime(d, chunks) IN
      IsDevice(e) /\ e.table = d.table /\ Primed(e, prompt, Filled(prompt, n))
  BY <1>2, PrimeFacts
<1> QED  BY <1>1, <1>3 DEF n, chunks

(* A prompt that fails on the way leaves tokens of it in the carries.      *)
LEMMA PrimedInPart ==
    ASSUME NEW d, NEW prompt, CanPrime(d, prompt), NEW n \in 0 .. Len(Chunks(prompt)) - 1
    PROVE  LET e == Prime(d, SubSeq(Chunks(prompt), 1, n)) IN
           IsDevice(e) /\ e.recurrent \in Seq(Letters) /\ e.carry \in Seq(Letters)
<1> DEFINE all == Chunks(prompt)
           chunks == SubSeq(all, 1, n)
           S == [first : Nat, tokens : Seq(Letters)]
           e == Prime(d, chunks)
<1>1. all \in Seq(S) /\ Len(all) \in Nat /\ prompt \in Seq(Letters)
  BY ChunkFacts DEF CanPrime
<1>2. n \in Nat /\ n <= Len(all)  BY <1>1
<1>3. Len(chunks) = n /\ \A i \in 1 .. n : chunks[i] = all[i]
  <2> HIDE DEF all, S
  <2> QED  BY <1>1, <1>2, PrefixFacts
<1> HIDE DEF chunks
<1>4. /\ IsDevice(e) /\ Filled(prompt, n) \in Nat /\ Filled(prompt, n) <= Len(prompt)
      /\ Primed(e, prompt, Filled(prompt, n))
  BY <1>2, <1>3, PrimeFacts
<1>5. SubSeq(prompt, 1, Filled(prompt, n)) \in Seq(Letters)  BY <1>1, <1>4, PrefixFacts
<1> QED  BY <1>4, <1>5 DEF Primed, Ran, chunks

-----------------------------------------------------------------------------
(* Texts that agree as far as the device has come.                         *)

Agree(s, t, n) ==
    /\ s \in Seq(Letters) /\ t \in Seq(Letters) /\ n \in Nat
    /\ n <= Len(s) /\ n <= Len(t) /\ \A i \in 1 .. n : s[i] = t[i]

LEMMA AgreeFacts ==
    ASSUME NEW s, NEW t, NEW n, Agree(s, t, n), NEW m \in Nat, m <= n
    PROVE  SubSeq(s, 1, m) = SubSeq(t, 1, m) /\ Agree(s, t, m)
<1>1. /\ s \in Seq(Letters) /\ t \in Seq(Letters) /\ n \in Nat
      /\ Len(s) \in Nat /\ Len(t) \in Nat
      /\ n <= Len(s) /\ n <= Len(t) /\ \A i \in 1 .. n : s[i] = t[i]
  BY LenProperties DEF Agree
<1>2. m <= Len(s) /\ m <= Len(t) /\ \A i \in 1 .. m : s[i] = t[i]  BY <1>1
<1> QED  BY <1>1, <1>2, SamePrefix DEF Agree

LEMMA SameText ==
    ASSUME NEW s, NEW t, NEW n, Agree(s, t, n), NEW d
    PROVE  /\ Rows(d, s, n) => Rows(d, t, n)
           /\ Mirrored(d, s, n) => Mirrored(d, t, n)
           /\ Ran(d, s, n) => Ran(d, t, n)
           /\ Primed(d, s, n) => Primed(d, t, n)
<1>1. n \in Nat /\ \A i \in 1 .. n : s[i] = t[i]  BY DEF Agree
<1>2. ASSUME NEW m \in 0 .. n PROVE SubSeq(s, 1, m) = SubSeq(t, 1, m)
  BY <1>1, AgreeFacts
<1>3. ASSUME Rows(d, s, n) PROVE Rows(d, t, n)
  <2>1. ASSUME NEW p \in 0 .. n - 1 PROVE d.kv[Cell(d, p)] = SubSeq(t, 1, p + 1)
    <3>1. p + 1 \in 0 .. n  BY <1>1
    <3>2. SubSeq(s, 1, p + 1) = SubSeq(t, 1, p + 1)  BY <1>2, <3>1
    <3>3. d.kv[Cell(d, p)] = SubSeq(s, 1, p + 1)  BY <1>3 DEF Rows
    <3> QED  BY <3>2, <3>3
  <2> QED  BY <2>1 DEF Rows
<1>4. ASSUME Mirrored(d, s, n) PROVE Mirrored(d, t, n)
  <2>1. ASSUME NEW p \in 0 .. n - 1
        PROVE  d.mirror[Cell(d, p)] = [stream |-> SubSeq(t, 1, p), token |-> t[p + 1]]
    <3>1. p \in 0 .. n /\ p + 1 \in 1 .. n  BY <1>1
    <3>2. SubSeq(s, 1, p) = SubSeq(t, 1, p) /\ s[p + 1] = t[p + 1]  BY <1>1, <1>2, <3>1
    <3>3. d.mirror[Cell(d, p)] = [stream |-> SubSeq(s, 1, p), token |-> s[p + 1]]
      BY <1>4 DEF Mirrored
    <3> QED  BY <3>2, <3>3
  <2> QED  BY <2>1 DEF Mirrored
<1>5. SubSeq(s, 1, n) = SubSeq(t, 1, n)
  <2>1. n \in 0 .. n  BY <1>1
  <2> QED  BY <1>2, <2>1
<1> QED  BY <1>3, <1>4, <1>5 DEF Ran, Primed

LEMMA SpannedText ==
    ASSUME NEW s, NEW t, NEW q \in Nat, NEW n \in Nat, NEW m \in Nat, m <= n,
           Agree(s, t, q + m), NEW d, Spanned(d, s, q, n)
    PROVE  /\ Rows(d, t, q + m)
           /\ \A i \in 1 .. m : d.published[i] = SubSeq(t, 1, q + i)
           /\ m = n => Spanned(d, t, q, m)
<1>1. \A i \in 1 .. m : i \in 1 .. n /\ q + i \in Nat /\ q + i <= q + m  OBVIOUS
<1>2. ASSUME NEW i \in 1 .. m PROVE d.published[i] = SubSeq(t, 1, q + i)
  <2>1. d.published[i] = SubSeq(s, 1, q + i)  BY <1>1 DEF Spanned
  <2>2. SubSeq(s, 1, q + i) = SubSeq(t, 1, q + i)  BY <1>1, AgreeFacts
  <2> QED  BY <2>1, <2>2
<1>3. Rows(d, s, q + m)
  <2>1. Rows(d, s, q + n)  BY DEF Spanned, Ran
  <2>2. \A p \in 0 .. (q + m) - 1 : p \in 0 .. (q + n) - 1  OBVIOUS
  <2> QED  BY <2>1, <2>2 DEF Rows
<1>4. Rows(d, t, q + m)  BY <1>3, SameText
<1>5. ASSUME m = n PROVE Spanned(d, t, q, m)
  <2>1. Ran(d, s, q + m)  BY <1>5 DEF Spanned
  <2>2. Ran(d, t, q + m)  BY <2>1, SameText
  <2> QED  BY <1>2, <2>2 DEF Spanned
<1> QED  BY <1>2, <1>4, <1>5

-----------------------------------------------------------------------------
(* The request and its slot.                                               *)

LEMMA ReservedFacts ==
    ASSUME NEW r \in Requests, Required(r) <= Capacity
    PROVE  /\ Len(r.prompt) \in Nat \ {0} /\ r.budget \in Nat \ {0}
           /\ Required(r) \in Nat /\ Required(r) = Len(r.prompt) + r.budget - 1
           /\ Reserved(r) \in Nat /\ Required(r) <= Reserved(r) /\ Reserved(r) <= Capacity
           /\ PagesFor(Reserved(r)) \in Nat /\ PagesFor(Reserved(r)) <= FundedPages
           /\ Reserved(r) <= PagesFor(Reserved(r)) * SLOT_PAGE_TOKENS
<1>1. Len(r.prompt) \in Nat \ {0} /\ r.budget \in Nat \ {0}  BY Constants
<1>2. FundedPages \in Nat /\ SLOT_PAGE_TOKENS \in Nat /\ Capacity \in Nat /\ DRAFT_WINDOW \in Nat
      /\ Capacity = FundedPages * SLOT_PAGE_TOKENS
  BY Constants DEF Capacity
<1>3. Required(r) \in Nat /\ Required(r) = Len(r.prompt) + r.budget - 1
  BY <1>1 DEF Required
<1>4. Reserved(r) = IF Required(r) + DRAFT_WINDOW <= Capacity
                    THEN Required(r) + DRAFT_WINDOW ELSE Capacity
  BY <1>2, <1>3, MinOfTwo DEF Reserved
<1>5. Reserved(r) \in Nat /\ Required(r) <= Reserved(r) /\ Reserved(r) <= Capacity
  BY <1>2, <1>3, <1>4
<1>6. /\ PagesFor(Reserved(r)) \in Nat
      /\ Reserved(r) <= PagesFor(Reserved(r)) * SLOT_PAGE_TOKENS
      /\ \A k \in Nat : Reserved(r) <= k * SLOT_PAGE_TOKENS => PagesFor(Reserved(r)) <= k
  BY <1>5, PagesForBounds
<1>7. PagesFor(Reserved(r)) <= FundedPages  BY <1>2, <1>5, <1>6
<1> QED  BY <1>1, <1>3, <1>5, <1>6, <1>7

LEMMA SlotFacts ==
    ASSUME Shapes, SlotSound, pc # "idle"
    PROVE  /\ request \in Requests /\ TableSound(device) /\ Room(device) = Mapped(pool)
           /\ Mapped(pool) \in Nat /\ Required(request) <= Mapped(pool)
           /\ Reserved(request) \in Nat /\ Required(request) <= Reserved(request)
           /\ Required(request) \in Nat
           /\ Required(request) = Len(request.prompt) + request.budget - 1
           /\ Len(request.prompt) \in Nat \ {0} /\ request.budget \in Nat \ {0}
           /\ request.prompt \in Seq(Letters)
           /\ Len(generated) \in Nat /\ Len(generated) <= request.budget
           /\ pool.active /\ Len(pool.pages) = PagesFor(Reserved(request))
           /\ device.table = pool.pages /\ pool.tokens \in Nat
<1>1. request \in Requests  BY DEF Shapes
<1>2. /\ pool.active /\ Required(request) <= Capacity /\ Len(generated) <= request.budget
      /\ Len(pool.pages) = PagesFor(Reserved(request)) /\ device.table = pool.pages
  BY DEF SlotSound
<1>3. /\ Len(request.prompt) \in Nat \ {0} /\ request.budget \in Nat \ {0}
      /\ Required(request) \in Nat
      /\ Required(request) = Len(request.prompt) + request.budget - 1
      /\ Reserved(request) \in Nat /\ Required(request) <= Reserved(request)
      /\ PagesFor(Reserved(request)) \in Nat
      /\ Reserved(request) <= PagesFor(Reserved(request)) * SLOT_PAGE_TOKENS
  BY <1>1, <1>2, ReservedFacts
<1>4. Mapped(pool) = PagesFor(Reserved(request)) * SLOT_PAGE_TOKENS /\ Mapped(pool) \in Nat
  BY <1>2, <1>3, Constants DEF Mapped
<1>5. Required(request) <= Mapped(pool)  BY <1>3, <1>4
<1>6. IsPool(pool) /\ Partition(pool) /\ generated \in Seq(Token)  BY DEF Shapes
<1>7. TableSound(device)  BY <1>2, <1>6, MappedOnce DEF TableSound, IsPool
<1>8. Room(device) = Mapped(pool)  BY <1>2 DEF Room, Mapped
<1>9. Len(generated) \in Nat /\ pool.tokens \in Nat  BY <1>6, LenProperties DEF IsPool
<1>10. request.prompt \in Seq(Letters)  BY <1>1, Constants
<1> QED  BY <1>1, <1>2, <1>3, <1>4, <1>5, <1>7, <1>8, <1>9, <1>10

(* A prompt and what was generated after it.                               *)
LEMMA JoinFacts ==
    ASSUME NEW prompt \in Seq(Letters), NEW tokens \in Seq(Token)
    PROVE  /\ prompt \o tokens \in Seq(Letters)
           /\ Len(prompt) \in Nat /\ Len(tokens) \in Nat
           /\ Len(prompt \o tokens) = Len(prompt) + Len(tokens)
           /\ \A i \in 1 .. Len(prompt) : (prompt \o tokens)[i] = prompt[i]
           /\ \A i \in 1 .. Len(tokens) : (prompt \o tokens)[Len(prompt) + i] = tokens[i]
<1>0. Token \subseteq Letters  BY DEF Letters
<1>1. tokens \in Seq(Letters)  BY <1>0, SeqMonotonic
<1>2. /\ prompt \o tokens \in Seq(Letters)
      /\ Len(prompt \o tokens) = Len(prompt) + Len(tokens)
      /\ \A i \in 1 .. Len(prompt) + Len(tokens) :
           (prompt \o tokens)[i] = IF i <= Len(prompt) THEN prompt[i]
                                   ELSE tokens[i - Len(prompt)]
  BY <1>1, ConcatProperties
<1> DEFINE m == Len(prompt)
           n == Len(tokens)
           s == prompt \o tokens
<1>3. m \in Nat /\ n \in Nat  BY LenProperties
<1>4. \A i \in 1 .. m + n : s[i] = IF i <= m THEN prompt[i] ELSE tokens[i - m]  BY <1>2
<1> HIDE DEF m, n, s
<1>5. ASSUME NEW i \in 1 .. m PROVE s[i] = prompt[i]
  <2>1. i \in 1 .. m + n /\ i <= m  BY <1>3
  <2> QED  BY <1>4, <2>1
<1>6. ASSUME NEW i \in 1 .. n PROVE s[m + i] = tokens[i]
  <2>1. m + i \in 1 .. m + n /\ ~(m + i <= m) /\ (m + i) - m = i  BY <1>3
  <2> QED  BY <1>4, <2>1
<1> QED  BY <1>2, <1>3, <1>5, <1>6 DEF m, n, s

(* One prompt, two continuations of which one is the other's beginning.    *)
LEMMA JoinAgrees ==
    ASSUME NEW prompt \in Seq(Letters), NEW a \in Seq(Token), NEW b \in Seq(Token),
           Len(a) <= Len(b), \A i \in 1 .. Len(a) : a[i] = b[i]
    PROVE  Agree(prompt \o a, prompt \o b, Len(prompt) + Len(a))
<1> DEFINE m == Len(prompt)
           n == Len(a)
           l == Len(b)
           s == prompt \o a
           t == prompt \o b
<1>1. /\ s \in Seq(Letters) /\ m \in Nat /\ n \in Nat /\ Len(s) = m + n
      /\ \A i \in 1 .. m : s[i] = prompt[i]
      /\ \A i \in 1 .. n : s[m + i] = a[i]
  BY JoinFacts
<1>2. /\ t \in Seq(Letters) /\ l \in Nat /\ Len(t) = m + l
      /\ \A i \in 1 .. m : t[i] = prompt[i]
      /\ \A i \in 1 .. l : t[m + i] = b[i]
  BY JoinFacts
<1>3. n <= l /\ \A i \in 1 .. n : a[i] = b[i]  OBVIOUS
<1> HIDE DEF m, n, l, s, t
<1>4. ASSUME NEW i \in 1 .. m + n PROVE s[i] = t[i]
  <2>1. CASE i <= m
    <3>1. i \in 1 .. m  BY <1>1, <2>1
    <3> QED  BY <1>1, <1>2, <3>1
  <2>2. CASE ~(i <= m)
    <3> DEFINE j == i - m
    <3>1. j \in 1 .. n /\ j \in 1 .. l /\ m + j = i  BY <1>1, <1>2, <1>3, <2>2
    <3> HIDE DEF j
    <3>2. s[m + j] = a[j] /\ t[m + j] = b[j] /\ a[j] = b[j]  BY <1>1, <1>2, <1>3, <3>1
    <3> QED  BY <3>1, <3>2
  <2> QED  BY <2>1, <2>2
<1>5. m + n \in Nat /\ m + n <= Len(s) /\ m + n <= Len(t)  BY <1>1, <1>2, <1>3
<1> QED  BY <1>1, <1>2, <1>4, <1>5 DEF Agree, m, n, s, t

LEMMA PositionFacts ==
    ASSUME Len(request.prompt) \in Nat, generated \in Seq(Token)
    PROVE  /\ generated = << >> => Position = Len(request.prompt)
           /\ generated # << >> => /\ Len(generated) \in Nat \ {0}
                                   /\ Position = Len(request.prompt) + Len(generated) - 1
           /\ Position \in Nat
<1>1. Len(generated) \in Nat /\ (generated # << >> <=> Len(generated) # 0)
  BY LenProperties, EmptySeq
<1>2. Position = Len(request.prompt)
                   + (IF Len(generated) - 1 >= 0 THEN Len(generated) - 1 ELSE 0)
  <2>1. Len(generated) - 1 \in Int /\ 0 \in Int  BY <1>1
  <2>2. Max({Len(generated) - 1, 0})
          = IF Len(generated) - 1 >= 0 THEN Len(generated) - 1 ELSE 0
    BY <2>1, MaxOfTwo
  <2> QED  BY <2>2 DEF Position
<1> DEFINE m == Len(request.prompt)
           n == Len(generated)
<1>3. m \in Nat /\ n \in Nat /\ Position = m + (IF n - 1 >= 0 THEN n - 1 ELSE 0)
  BY <1>1, <1>2
<1> HIDE DEF m, n
<1>4. n = 0 => Position = m  BY <1>3
<1>5. n # 0 => n \in Nat \ {0} /\ Position = m + n - 1  BY <1>3
<1>6. Position \in Nat  BY <1>3
<1> QED  BY <1>1, <1>4, <1>5, <1>6 DEF m, n

-----------------------------------------------------------------------------
(* The initial states, and what ends a request or hands out an output.     *)

LEMMA InitHolds == Init => IInv
<1> SUFFICES ASSUME Init PROVE IInv  OBVIOUS
<1>1. /\ pc = "idle" /\ request = None /\ generated = << >> /\ served = 0
      /\ pool = [free |-> Reverse([i \in 1 .. FundedPages |-> i]), pages |-> << >>,
                 tokens |-> 0, active |-> FALSE, epoch |-> 0]
      /\ device = [table |-> << >>, kv |-> Unwritten, keys |-> Unwritten,
                   mirror |-> [c \in Cells |-> [stream |-> <<Garbage>>, token |-> None]],
                   ring |-> [m \in Members |-> << >>], recurrent |-> << >>,
                   carry |-> << >>, published |-> << >>]
  BY DEF Init, Idle
<1>2. FundedPages \in Nat /\ MaxEpoch \in Nat /\ SLOT_PAGE_TOKENS \in Nat  BY Constants
<1> DEFINE s == [i \in 1 .. FundedPages |-> i]
<1>3. s \in Seq(Pages) /\ Len(s) = FundedPages /\ ToSet(s) = Pages
  <2>1. s \in Seq(Pages) /\ Len(s) = FundedPages  BY <1>2 DEF Pages
  <2>2. ToSet(s) = Pages  BY DEF ToSet, Pages
  <2> QED  BY <2>1, <2>2
<1> HIDE DEF s
<1>4. /\ Reverse(s) \in Seq(Pages) /\ Len(Reverse(s)) = FundedPages
      /\ ToSet(Reverse(s)) = Pages
  BY <1>3, ReverseFacts, ToSetOfReverse
<1>5. /\ pool.free = Reverse(s) /\ pool.pages = << >> /\ pool.tokens = 0
      /\ pool.active = FALSE /\ pool.epoch = 0
  BY <1>1 DEF s
<1>6. << >> \in Seq(Pages) /\ Len(<< >>) = 0 /\ << >> \in Seq(Letters) /\ << >> \in Seq(Token)
      /\ ToSet(<< >>) = {}
  BY EmptySeq DEF ToSet
<1>7. IsPool(pool)
  <2>1. pool = [free |-> pool.free, pages |-> pool.pages, tokens |-> pool.tokens,
                active |-> pool.active, epoch |-> pool.epoch]
    BY <1>1
  <2>2. pool.free \in Seq(Pages) /\ pool.pages \in Seq(Pages)  BY <1>4, <1>5, <1>6
  <2>3. pool.tokens \in Nat /\ pool.epoch \in Nat  BY <1>5
  <2>4. pool.active \in BOOLEAN
    <3>1. pool.active = FALSE  BY <1>5
    <3>2. FALSE \in BOOLEAN  OBVIOUS
    <3> QED  BY ONLY <3>1, <3>2, Zenon
  <2> QED  BY ONLY <2>1, <2>2, <2>3, <2>4 DEF IsPool
<1>8. Partition(pool)  BY <1>2, <1>4, <1>5, <1>6 DEF Partition
<1>9. IsDevice(device) /\ device.recurrent = << >> /\ device.carry = << >>
  BY <1>1 DEF IsDevice
<1>10. pool.tokens <= Mapped(pool) /\ pool.epoch <= MaxEpoch + 1
  BY <1>2, <1>5, <1>6 DEF Mapped
<1>11. Shapes  BY <1>1, <1>6, <1>7, <1>8, <1>9, <1>10, Constants DEF Shapes
<1> QED
  BY <1>1, <1>5, <1>11
  DEF IInv, IdleSound, SlotSound, SteadySound, Steady, RoundSound, InRound, DecisionSound,
      TargetSound

(* The request ends: the slot is recycled.                                 *)
LEMMA ReleaseHolds ==
    ASSUME IInv, pc # "idle", Released, NEW d, IsDevice(d), d.carry \in Seq(Letters),
           device' = [Reset(d) EXCEPT !.table = << >>]
    PROVE  IInv'
<1>1. Shapes /\ SlotSound  BY DEF IInv
<1>2. IsPool(pool) /\ Partition(pool) /\ pool.active /\ pool.epoch <= MaxEpoch
      /\ pool.active \in BOOLEAN /\ pool.epoch \in Nat /\ MaxEpoch \in Nat
  BY <1>1, Constants DEF Shapes, SlotSound, IsPool
<1>3. /\ pc' = "idle" /\ request' = None /\ generated' = << >> /\ served' = 0
      /\ pool' = Recycle(pool)
  BY DEF Released
<1>4. /\ IsPool(pool') /\ Partition(pool') /\ pool'.pages = << >> /\ pool'.tokens = 0
      /\ ~pool'.active /\ pool'.epoch = pool.epoch + 1
  BY <1>2, <1>3, RecycleFacts
<1>5. /\ IsDevice(device') /\ device'.recurrent = << >> /\ device'.carry = d.carry
  <2>1. PICK r : r = Reset(d)  OBVIOUS
  <2>2. PICK ring : r = [d EXCEPT !.recurrent = << >>, !.ring = ring]  BY <2>1 DEF Reset
  <2>3. r = [table |-> d.table, kv |-> d.kv, keys |-> d.keys, mirror |-> d.mirror,
             ring |-> ring, recurrent |-> << >>, carry |-> d.carry,
             published |-> d.published]
    BY <2>2 DEF IsDevice
  <2>4. PICK e : e = [r EXCEPT !.table = << >>]  OBVIOUS
  <2>5. e = [table |-> << >>, kv |-> d.kv, keys |-> d.keys, mirror |-> d.mirror,
             ring |-> ring, recurrent |-> << >>, carry |-> d.carry,
             published |-> d.published]
    BY <2>3, <2>4
  <2>6. device' = e  BY <2>1, <2>4
  <2>7. IsDevice(e) /\ e.recurrent = << >> /\ e.carry = d.carry  BY <2>5 DEF IsDevice
  <2> QED  BY <2>6, <2>7
<1>6. << >> \in Seq(Letters) /\ << >> \in Seq(Token) /\ Len(<< >>) = 0  BY EmptySeq
<1>7. pool'.tokens <= Mapped(pool') /\ pool'.epoch <= MaxEpoch + 1
  BY <1>2, <1>4, <1>6, Constants DEF Mapped
<1>8. Shapes'
  <2>1. request' \in Requests \cup {None} /\ (request' = None <=> pc' = "idle")
        /\ pc' \in {"idle", "primed", "ready", "verify", "decide", "restore", "replay", "realign"}
    BY <1>3
  <2>2. generated' \in Seq(Token) /\ served' \in 0 .. Len(generated')  BY <1>3, <1>6
  <2>3. device'.recurrent \in Seq(Letters) /\ device'.carry \in Seq(Letters)
    BY <1>5, <1>6
  <2> QED  BY <1>4, <1>5, <1>7, <2>1, <2>2, <2>3 DEF Shapes
<1> QED
  BY <1>3, <1>4, <1>8
  DEF IInv, IdleSound, SlotSound, SteadySound, Steady, RoundSound, InRound, DecisionSound,
      TargetSound

(* What a step that hands out an output has to provide.                    *)
CanHandOut(tokens, count, d) ==
    /\ tokens \in Seq(Token) /\ tokens # << >> /\ Len(tokens) <= request.budget
    /\ count \in 0 .. Len(tokens)
    /\ IsDevice(d) /\ d.table = device.table
    /\ d.recurrent \in Seq(Letters) /\ d.carry \in Seq(Letters)
    /\ ~(Last(tokens) = Stop \/ Len(tokens) = request.budget) =>
          LET n == Len(request.prompt) + Len(tokens) - 1 IN
          pool.tokens = n /\ Primed(d, request.prompt \o tokens, n)

LEMMA HandOutHolds ==
    ASSUME IInv, pc # "idle", NEW tokens, NEW count, NEW d,
           CanHandOut(tokens, count, d), HandOut(tokens, count, d)
    PROVE  IInv'
<1>1. /\ tokens \in Seq(Token) /\ tokens # << >> /\ Len(tokens) <= request.budget
      /\ count \in 0 .. Len(tokens) /\ IsDevice(d) /\ d.table = device.table
      /\ d.recurrent \in Seq(Letters) /\ d.carry \in Seq(Letters)
  BY DEF CanHandOut
<1>2. CASE Released /\ device' = [Reset(d) EXCEPT !.table = << >>]
  BY <1>1, <1>2, ReleaseHolds
<1>3. CASE /\ generated' = tokens /\ served' = count /\ device' = d
           /\ pc' = "ready" /\ round' = None /\ saved' = None
           /\ UNCHANGED <<request, pool>>
  <2>1. Shapes /\ SlotSound  BY DEF IInv
  <2>2. Shapes'  BY <1>1, <1>3, <2>1 DEF Shapes
  <2>3. SlotSound'  BY <1>1, <1>3, <2>1 DEF SlotSound, Required, Reserved
  <2>4. SteadySound'
    <3>1. SUFFICES ASSUME Steady' PROVE pool.tokens = Position' /\ Primed(d, Said', Position')
      BY <1>1, <1>3 DEF SteadySound
    <3>2. ~(Last(tokens) = Stop \/ Len(tokens) = request.budget)
      BY <1>1, <1>3, <3>1 DEF Steady, Finished
    <3>3. Said' = request.prompt \o tokens  BY <1>3 DEF Said
    <3>4. Position' = Len(request.prompt) + Len(tokens) - 1
      <4>1. Len(tokens) \in Nat \ {0}  BY <1>1, EmptySeq
      <4>2. Len(request.prompt) \in Nat  BY <2>1, SlotFacts
      <4>3. Len(tokens) - 1 \in Int /\ 0 \in Int /\ Len(tokens) - 1 >= 0  BY <4>1
      <4>4. Max({Len(tokens) - 1, 0}) = Len(tokens) - 1  BY <4>3, MaxOfTwo
      <4>5. Position' = Len(request.prompt) + Max({Len(tokens) - 1, 0})
        BY <1>3 DEF Position
      <4> QED  BY <4>1, <4>2, <4>4, <4>5
    <3> QED  BY <3>2, <3>3, <3>4 DEF CanHandOut
  <2> QED
    BY <1>3, <2>2, <2>3, <2>4
    DEF IInv, IdleSound, RoundSound, InRound, DecisionSound, TargetSound
<1> QED  BY <1>2, <1>3 DEF HandOut

-----------------------------------------------------------------------------
(* Every action keeps the invariant.                                       *)

(* A request is opened on a slot that is empty, with room for its prompt.  *)
LEMMA OpenedFacts ==
    ASSUME IInv, NEW r \in Requests, Admissible(r)
    PROVE  LET p == Opened(r) IN
           /\ pc = "idle" /\ generated = << >>
           /\ pool.epoch \in Nat /\ pool.epoch < MaxEpoch /\ Required(r) <= Capacity
           /\ IsPool(p) /\ Partition(p) /\ p.active /\ p.epoch = pool.epoch + 1
           /\ Len(p.pages) = PagesFor(Reserved(r))
           /\ Len(r.prompt) \in Nat /\ Len(r.prompt) <= Mapped(p)
           /\ Blank(r).table = p.pages /\ CanPrime(Blank(r), r.prompt)
<1> DEFINE c == Recycle(pool)
           p == Opened(r)
           R == Reserved(r)
<1>1. /\ pc = "idle" /\ pool.epoch < MaxEpoch /\ Required(r) <= Capacity /\ CanReserve(c, R)
  BY DEF Admissible
<1>2. /\ IsPool(pool) /\ Partition(pool) /\ ~pool.active /\ pool.epoch \in Nat
      /\ generated = << >> /\ IsDevice(device)
  BY <1>1 DEF IInv, Shapes, IdleSound, IsPool
<1>3. /\ IsPool(c) /\ Partition(c) /\ c.pages = << >> /\ ~c.active /\ c.epoch = pool.epoch
  BY <1>2, RecycleFacts
<1>4. /\ Len(r.prompt) \in Nat \ {0} /\ r.budget \in Nat \ {0}
      /\ Required(r) = Len(r.prompt) + r.budget - 1 /\ Required(r) \in Nat
      /\ R \in Nat /\ Required(r) <= R /\ PagesFor(R) \in Nat
      /\ R <= PagesFor(R) * SLOT_PAGE_TOKENS
  BY <1>1, ReservedFacts
<1>5. PagesFor(R) <= Len(c.pages) + Len(c.free)  BY <1>1 DEF CanReserve
<1>6. Opened(r) = Reserve(c, R)  BY DEF Opened
<1> HIDE DEF c, R
<1>7. /\ IsPool(p) /\ Partition(p) /\ Len(p.pages) = Len(c.pages) + Growth(c, R)
      /\ p.active /\ p.epoch = c.epoch + 1
  <2>1. CanGrow(c, R)  BY <1>3, <1>4, <1>5 DEF CanGrow
  <2>2. IsGrown(Reserve(c, R), c, R)  BY ONLY <2>1, ReserveFacts
  <2>3. IsGrown(p, c, R)  BY <1>6, <2>2
  <2> HIDE DEF p
  <2> QED  BY <1>3, <2>3 DEF IsGrown
<1> HIDE DEF p
<1>8. Len(p.pages) = PagesFor(R)
  <2>1. Len(c.pages) = 0  BY <1>3, EmptySeq
  <2>2. Growth(c, R) = PagesFor(R)  BY <1>4, <2>1 DEF Growth
  <2> QED  BY <1>4, <1>7, <2>1, <2>2
<1>9. Len(r.prompt) <= Mapped(p) /\ Mapped(p) \in Nat
  <2>1. Mapped(p) = PagesFor(R) * SLOT_PAGE_TOKENS /\ Mapped(p) \in Nat
    BY <1>4, <1>8, Constants DEF Mapped
  <2> DEFINE l == Len(r.prompt)
             b == r.budget
             q == Required(r)
             m == Mapped(p)
  <2>2. /\ l \in Nat /\ b \in Nat \ {0} /\ q = l + b - 1 /\ R \in Nat /\ q <= R
        /\ m \in Nat /\ R <= m
    BY <1>4, <2>1
  <2> HIDE DEF l, b, q, m
  <2>3. l <= m  BY <2>2
  <2> QED  BY <2>1, <2>3 DEF l, m
<1>10. PICK d : d = Blank(r)  OBVIOUS
<1>11. IsDevice(d) /\ d.table = p.pages /\ d.recurrent = << >> /\ d.carry = << >>
  <2>1. PICK e : e = Reset(device)  OBVIOUS
  <2>2. PICK ring : e = [device EXCEPT !.recurrent = << >>, !.ring = ring]
    BY <2>1 DEF Reset
  <2>3. e = [table |-> device.table, kv |-> device.kv, keys |-> device.keys,
             mirror |-> device.mirror, ring |-> ring, recurrent |-> << >>,
             carry |-> device.carry, published |-> device.published]
    BY <1>2, <2>2 DEF IsDevice
  <2>4. d = [e EXCEPT !.carry = << >>, !.table = p.pages]
    BY <1>10, <2>1 DEF Blank, p
  <2>5. d = [table |-> p.pages, kv |-> device.kv, keys |-> device.keys,
             mirror |-> device.mirror, ring |-> ring, recurrent |-> << >>,
             carry |-> << >>, published |-> device.published]
    BY <2>3, <2>4
  <2> QED  BY <2>5 DEF IsDevice
<1>12. TableSound(d)
  <2>1. p.pages \in Seq(Pages)  BY <1>7 DEF IsPool
  <2>2. \A j, k \in 1 .. Len(p.pages) : p.pages[j] = p.pages[k] => j = k
    BY <1>7, MappedOnce
  <2> QED  BY <1>11, <2>1, <2>2 DEF TableSound
<1>13. Room(d) = Mapped(p)  BY <1>11 DEF Room, Mapped
<1>14. Primed(d, r.prompt, 0)
  <2>1. r.prompt \in Seq(Letters)  BY Constants
  <2>2. SubSeq(r.prompt, 1, 0) = << >>
    <3>1. 0 \in Nat /\ 0 <= Len(r.prompt)  BY <1>4
    <3>2. SubSeq(r.prompt, 1, 0) \in Seq(Letters) /\ Len(SubSeq(r.prompt, 1, 0)) = 0
      BY <2>1, <3>1, PrefixFacts
    <3> QED  BY <3>2, EmptySeq
  <2>3. 0 .. 0 - 1 = {}  OBVIOUS
  <2> QED  BY <1>11, <2>2, <2>3 DEF Primed, Ran, Rows, Mirrored
<1>15. CanPrime(d, r.prompt)
  BY <1>9, <1>11, <1>12, <1>13, <1>14, Constants DEF CanPrime
<1>16. Blank(r).table = p.pages /\ CanPrime(Blank(r), r.prompt)  BY <1>10, <1>11, <1>15
<1>17. p.epoch = pool.epoch + 1  BY <1>3, <1>7
<1> QED  BY <1>1, <1>2, <1>4, <1>7, <1>8, <1>9, <1>16, <1>17 DEF p, R

LEMMA AdmitHolds ==
    ASSUME IInv, NEW r \in Requests, Admit(r)
    PROVE  IInv'
<1> DEFINE p == Opened(r)
           l == Len(r.prompt)
<1>1. /\ pool' = Commit(p, l) /\ device' = Prime(Blank(r), Chunks(r.prompt))
      /\ request' = r /\ pc' = "primed" /\ generated' = generated /\ served' = served
  BY DEF Admit
<1>2. /\ pc = "idle" /\ generated = << >> /\ pool.epoch \in Nat /\ pool.epoch < MaxEpoch
      /\ Required(r) <= Capacity /\ IsPool(p) /\ Partition(p) /\ p.active
      /\ p.epoch = pool.epoch + 1 /\ Len(p.pages) = PagesFor(Reserved(r))
      /\ l \in Nat /\ l <= Mapped(p)
      /\ Blank(r).table = p.pages /\ CanPrime(Blank(r), r.prompt)
  BY OpenedFacts DEF Admit
<1> HIDE DEF p, l
<1>3. pool' = [free |-> p.free, pages |-> p.pages, tokens |-> l, active |-> p.active,
               epoch |-> p.epoch]
  <2>1. pool' = [p EXCEPT !.tokens = l]  BY <1>1 DEF Commit
  <2>2. PICK q : q = pool'  OBVIOUS
  <2>3. q = [free |-> p.free, pages |-> p.pages, tokens |-> l, active |-> p.active,
             epoch |-> p.epoch]
    BY <1>2, <2>1, <2>2 DEF IsPool
  <2> QED  BY <2>2, <2>3
<1>4. /\ IsPool(pool') /\ Partition(pool') /\ pool'.tokens = l /\ pool'.active
      /\ pool'.pages = p.pages /\ pool'.epoch = p.epoch
  <2>1. PICK q : q = pool'  OBVIOUS
  <2>2. /\ q.free = p.free /\ q.pages = p.pages /\ q.tokens = l /\ q.active = p.active
        /\ q.epoch = p.epoch
        /\ q = [free |-> p.free, pages |-> p.pages, tokens |-> l, active |-> p.active,
                epoch |-> p.epoch]
    BY <1>3, <2>1
  <2>3. IsPool(q)  BY <1>2, <2>2 DEF IsPool
  <2>4. Partition(q)  BY <1>2, <2>2 DEF Partition
  <2> QED  BY <1>2, <2>1, <2>2, <2>3, <2>4
<1>5. IsDevice(device') /\ device'.table = p.pages /\ Primed(device', r.prompt, l)
  BY <1>1, <1>2, PrimedPrompt DEF l
<1>6. r.prompt \in Seq(Letters) /\ SubSeq(r.prompt, 1, l) = r.prompt
  BY Constants, SubSeqFull DEF l
<1>7. device'.recurrent \in Seq(Letters) /\ device'.carry \in Seq(Letters)
  BY <1>5, <1>6 DEF Primed, Ran
<1>8. Mapped(pool') = Mapped(p)  BY <1>4 DEF Mapped
<1>9. pool'.epoch <= MaxEpoch  BY <1>2, <1>4, Constants
<1>10. Shapes'
  <2>1. pool'.tokens <= Mapped(pool') /\ pool'.epoch <= MaxEpoch + 1
    <3>1. pool'.epoch \in Nat /\ MaxEpoch \in Nat  BY <1>4, Constants DEF IsPool
    <3> QED  BY <1>2, <1>4, <1>8, <1>9, <3>1
  <2>2. request' \in Requests /\ request' # None /\ pc' = "primed"  BY <1>1, Constants
  <2>3. generated' \in Seq(Token) /\ served' \in 0 .. Len(generated')
    BY <1>1 DEF IInv, Shapes
  <2> QED  BY <1>4, <1>5, <1>7, <2>1, <2>2, <2>3 DEF Shapes
<1>11. SlotSound'
  <2>1. Len(generated') <= request'.budget
    <3>1. Len(generated') = 0  BY <1>1, <1>2, EmptySeq
    <3>2. r.budget \in Nat  BY Constants
    <3> QED  BY <1>1, <3>1, <3>2
  <2> QED  BY <1>1, <1>2, <1>4, <1>5, <1>9, <2>1 DEF SlotSound, Required, Reserved
<1>12. SteadySound'
  <2>1. Said' = r.prompt  BY <1>1, <1>2, <1>6, ConcatEmptySeq DEF Said
  <2>2. Position' = l
    <3>1. Len(generated') = 0  BY <1>1, <1>2, EmptySeq
    <3>2. Max({Len(generated') - 1, 0}) = 0
      <4>1. Len(generated') - 1 \in Int /\ 0 \in Int /\ ~(Len(generated') - 1 >= 0)
        BY <3>1
      <4> QED  BY <4>1, MaxOfTwo
    <3> QED  BY <1>1, <1>2, <3>2 DEF Position, l
  <2> QED  BY <1>1, <1>2, <1>4, <1>5, <2>1, <2>2 DEF SteadySound
<1> QED
  BY <1>1, <1>10, <1>11, <1>12
  DEF IInv, IdleSound, RoundSound, InRound, DecisionSound, TargetSound

LEMMA AdmitFailsHolds ==
    ASSUME IInv, NEW r \in Requests, AdmitFails(r)
    PROVE  IInv'
<1> DEFINE p == Opened(r)
<1>1. /\ pool' = Recycle(p) /\ request' = request /\ pc' = pc
      /\ generated' = generated /\ served' = served
  BY DEF AdmitFails
<1>2. /\ pc = "idle" /\ generated = << >> /\ pool.epoch \in Nat /\ pool.epoch < MaxEpoch
      /\ IsPool(p) /\ Partition(p) /\ p.active /\ p.epoch = pool.epoch + 1
      /\ CanPrime(Blank(r), r.prompt)
  BY OpenedFacts DEF AdmitFails
<1>3. PICK n \in 0 .. Len(Chunks(r.prompt)) - 1 :
        LET d == Prime(Blank(r), SubSeq(Chunks(r.prompt), 1, n))
        IN device' \in {[Reset(d) EXCEPT !.table = << >>], d}
  BY DEF AdmitFails
<1>4. PICK d : d = Prime(Blank(r), SubSeq(Chunks(r.prompt), 1, n))  OBVIOUS
<1>5. IsDevice(d) /\ d.recurrent \in Seq(Letters) /\ d.carry \in Seq(Letters)
  BY <1>2, <1>4, PrimedInPart
<1>6. IsDevice(device') /\ device'.recurrent \in Seq(Letters) /\ device'.carry \in Seq(Letters)
  <2>1. CASE device' = d  BY <1>5, <2>1
  <2>2. CASE device' = [Reset(d) EXCEPT !.table = << >>]
    <3>1. PICK e : e = Reset(d)  OBVIOUS
    <3>2. PICK ring : e = [d EXCEPT !.recurrent = << >>, !.ring = ring]
      BY <3>1 DEF Reset
    <3>3. e = [table |-> d.table, kv |-> d.kv, keys |-> d.keys, mirror |-> d.mirror,
               ring |-> ring, recurrent |-> << >>, carry |-> d.carry,
               published |-> d.published]
      BY <1>5, <3>2 DEF IsDevice
    <3>4. PICK f : f = [e EXCEPT !.table = << >>]  OBVIOUS
    <3>5. f = [table |-> << >>, kv |-> d.kv, keys |-> d.keys, mirror |-> d.mirror,
               ring |-> ring, recurrent |-> << >>, carry |-> d.carry,
               published |-> d.published]
      BY <3>3, <3>4
    <3>6. IsDevice(f) /\ f.recurrent = << >> /\ f.carry = d.carry  BY <3>5 DEF IsDevice
    <3>7. device' = f  BY <2>2, <3>1, <3>4
    <3>8. << >> \in Seq(Letters)  BY EmptySeq
    <3> QED  BY <1>5, <3>6, <3>7, <3>8
  <2> QED  BY <1>3, <1>4, <2>1, <2>2
<1> HIDE DEF p
<1>7. /\ IsPool(pool') /\ Partition(pool') /\ pool'.pages = << >> /\ pool'.tokens = 0
      /\ ~pool'.active /\ pool'.epoch = p.epoch + 1
  BY <1>1, <1>2, RecycleFacts
<1>8. Shapes'
  <2>1. pool'.tokens <= Mapped(pool') /\ pool'.epoch <= MaxEpoch + 1
    <3>1. MaxEpoch \in Nat /\ SLOT_PAGE_TOKENS \in Nat  BY Constants
    <3>2. Mapped(pool') = 0  BY <1>7, <3>1, EmptySeq DEF Mapped
    <3> QED  BY <1>2, <1>7, <3>1, <3>2
  <2>2. /\ request' \in Requests \cup {None} /\ (request' = None <=> pc' = "idle")
        /\ pc' \in {"idle", "primed", "ready", "verify", "decide", "restore", "replay", "realign"}
    BY <1>1 DEF IInv, Shapes
  <2>3. generated' \in Seq(Token) /\ served' \in 0 .. Len(generated')
    BY <1>1 DEF IInv, Shapes
  <2> QED  BY <1>6, <1>7, <2>1, <2>2, <2>3 DEF Shapes
<1> QED
  BY <1>1, <1>2, <1>7, <1>8
  DEF IInv, IdleSound, SlotSound, SteadySound, Steady, RoundSound, InRound, DecisionSound,
      TargetSound

(* What holds throughout a request.                                        *)
LEMMA ActiveFacts ==
    ASSUME IInv, pc # "idle"
    PROVE  /\ Shapes /\ SlotSound
           /\ IsDevice(device) /\ device.recurrent \in Seq(Letters)
           /\ device.carry \in Seq(Letters) /\ generated \in Seq(Token)
           /\ served \in 0 .. Len(generated) /\ served \in Nat
           /\ Said \in Seq(Letters) /\ Len(Said) = Len(request.prompt) + Len(generated)
           /\ Len(Said) \in Nat /\ Position \in Nat /\ Position <= Len(Said)
<1>1. Shapes /\ SlotSound  BY DEF IInv
<1>2. /\ IsDevice(device) /\ device.recurrent \in Seq(Letters)
      /\ device.carry \in Seq(Letters) /\ generated \in Seq(Token)
      /\ served \in 0 .. Len(generated) /\ served \in Nat
  BY <1>1 DEF Shapes
<1>3. request.prompt \in Seq(Letters)  BY <1>1, SlotFacts
<1>4. /\ Said \in Seq(Letters) /\ Len(Said) = Len(request.prompt) + Len(generated)
      /\ Len(request.prompt) \in Nat /\ Len(generated) \in Nat
  BY <1>2, <1>3, JoinFacts DEF Said
<1>5. Position \in Nat /\ Position <= Len(Said)
  <2>1. CASE generated = << >>  BY <1>2, <1>4, <2>1, PositionFacts
  <2>2. CASE generated # << >>  BY <1>2, <1>4, <2>2, PositionFacts
  <2> QED  BY <2>1, <2>2
<1> QED  BY <1>1, <1>2, <1>4, <1>5

LEMMA StartAnchorHolds ==
    ASSUME IInv, StartAnchor
    PROVE  IInv'
<1>1. pc = "primed" /\ pc # "idle"  BY DEF StartAnchor
<1>2. PICK t \in Token : HandOut(<<t>>, 1, device)  BY DEF StartAnchor
<1>3. /\ IsDevice(device) /\ device.recurrent \in Seq(Letters)
      /\ device.carry \in Seq(Letters)
  BY <1>1, ActiveFacts
<1>4. /\ request.prompt \in Seq(Letters) /\ Len(request.prompt) \in Nat
      /\ request.budget \in Nat \ {0}
  BY <1>1, ActiveFacts, SlotFacts
<1>5. generated = << >>  BY <1>1 DEF IInv, SteadySound
<1>6. Said = request.prompt /\ Position = Len(request.prompt)
  <2>1. << >> \in Seq(Token)  BY EmptySeq
  <2>2. Position = Len(request.prompt)  BY <1>4, <1>5, <2>1, PositionFacts
  <2> QED  BY <1>4, <1>5, <2>2, ConcatEmptySeq DEF Said
<1>7. pool.tokens = Position /\ Primed(device, Said, Position)
  BY <1>1, <1>5 DEF IInv, SteadySound, Steady, Finished
<1> DEFINE s == <<t>>
           l == Len(request.prompt)
<1>8. s \in Seq(Token) /\ Len(s) = 1 /\ s # << >>  BY EmptySeq
<1>9. l + Len(s) - 1 = l  BY <1>4, <1>8
<1>10. Primed(device, request.prompt \o s, l)
  <2>1. request.prompt \o << >> = request.prompt  BY <1>4, ConcatEmptySeq
  <2>2. Agree(request.prompt \o << >>, request.prompt \o s, Len(request.prompt) + Len(<< >>))
    <3> HIDE DEF s
    <3>1. << >> \in Seq(Token) /\ Len(<< >>) = 0  BY EmptySeq
    <3>2. Len(<< >>) <= Len(s) /\ \A i \in 1 .. Len(<< >>) : << >>[i] = s[i]
      BY <1>8, <3>1
    <3> QED  BY <1>4, <1>8, <3>1, <3>2, JoinAgrees
  <2>3. Len(request.prompt) + Len(<< >>) = l  BY <1>4, EmptySeq
  <2> HIDE DEF s
  <2> QED  BY <1>6, <1>7, <2>1, <2>2, <2>3, SameText
<1>11. CanHandOut(s, 1, device)
  <2> HIDE DEF s
  <2>1. Len(s) <= request.budget /\ 1 \in 0 .. Len(s)  BY <1>4, <1>8
  <2> QED  BY <1>3, <1>6, <1>7, <1>8, <1>9, <1>10, <2>1 DEF CanHandOut
<1>12. HandOut(s, 1, device)  BY <1>2
<1> HIDE DEF s
<1> QED  BY <1>1, <1>11, <1>12, HandOutHolds

LEMMA TakeQueuedHolds ==
    ASSUME IInv, TakeQueued
    PROVE  IInv'
<1>1. pc = "ready" /\ pc # "idle" /\ ~Drained /\ HandOut(generated, served + 1, device)
  BY DEF TakeQueued
<1>2. /\ IsDevice(device) /\ device.recurrent \in Seq(Letters)
      /\ device.carry \in Seq(Letters) /\ generated \in Seq(Token)
      /\ served \in 0 .. Len(generated) /\ served \in Nat
  BY <1>1, ActiveFacts
<1>3. Len(request.prompt) \in Nat /\ Len(generated) <= request.budget /\ Len(generated) \in Nat
  BY <1>1, ActiveFacts, SlotFacts
<1>4. generated # << >>  BY <1>1 DEF IInv, SteadySound
<1>5. Position = Len(request.prompt) + Len(generated) - 1
  BY <1>2, <1>3, <1>4, PositionFacts
<1>6. served + 1 \in 0 .. Len(generated)  BY <1>1, <1>2, <1>3 DEF Drained
<1>7. ~(Last(generated) = Stop \/ Len(generated) = request.budget) =>
         pool.tokens = Position /\ Primed(device, Said, Position)
  BY <1>1 DEF IInv, SteadySound, Steady, Finished
<1>8. CanHandOut(generated, served + 1, device)
  BY <1>2, <1>3, <1>4, <1>5, <1>6, <1>7 DEF CanHandOut, Said
<1> QED  BY <1>1, <1>8, HandOutHolds

LEMMA CancelHolds ==
    ASSUME IInv, Cancel
    PROVE  IInv'
<1>1. pc # "idle" /\ Released /\ device' = [Reset(device) EXCEPT !.table = << >>]
  BY DEF Cancel
<1>2. IsDevice(device) /\ device.carry \in Seq(Letters)  BY <1>1, ActiveFacts
<1> QED  BY <1>1, <1>2, ReleaseHolds

(* A drained request has an anchor and room for all that remains.          *)
LEMMA DrainedFacts ==
    ASSUME IInv, pc = "ready", Drained, ~Finished
    PROVE  /\ generated # << >> /\ Len(generated) \in Nat \ {0} /\ served = Len(generated)
           /\ Len(generated) < request.budget
           /\ Remaining \in Nat /\ Remaining = request.budget - Len(generated)
           /\ Position = Len(request.prompt) + Len(generated) - 1
           /\ Position \in Nat /\ Position + Remaining = Required(request)
           /\ Position + Remaining <= Mapped(pool)
           /\ Position + 1 = Len(Said) /\ Said[Position + 1] = Last(generated)
           /\ Last(generated) \in Token
           /\ pool.tokens = Position /\ Primed(device, Said, Position)
<1>0. pc # "idle"  OBVIOUS
<1>1. generated \in Seq(Token) /\ Len(Said) = Len(request.prompt) + Len(generated)
  BY <1>0, ActiveFacts
<1>2. /\ Len(request.prompt) \in Nat \ {0} /\ request.budget \in Nat \ {0}
      /\ Len(generated) <= request.budget /\ Len(generated) \in Nat
      /\ Mapped(pool) \in Nat /\ Required(request) <= Mapped(pool)
      /\ Required(request) \in Nat
      /\ Required(request) = Len(request.prompt) + request.budget - 1
      /\ request.prompt \in Seq(Letters)
  BY <1>0, ActiveFacts, SlotFacts
<1>3. generated # << >>  BY DEF IInv, SteadySound
<1>4. /\ Len(generated) \in Nat \ {0}
      /\ Position = Len(request.prompt) + Len(generated) - 1
  BY <1>1, <1>2, <1>3, PositionFacts
<1>5. Len(generated) # request.budget  BY <1>3 DEF Finished
<1> DEFINE m == Len(request.prompt)
           n == Len(generated)
           b == request.budget
<1>6. /\ m \in Nat \ {0} /\ n \in Nat \ {0} /\ b \in Nat \ {0} /\ n <= b /\ n # b
      /\ Position = m + n - 1 /\ Required(request) = m + b - 1 /\ Remaining = b - n
      /\ Len(Said) = m + n
  BY <1>1, <1>2, <1>4, <1>5 DEF Remaining
<1>7. Said[m + n] = generated[n] /\ generated[n] \in Token
  <2>1. \A i \in 1 .. n : Said[m + i] = generated[i]  BY <1>1, <1>2, JoinFacts DEF Said
  <2>2. n \in 1 .. n  BY <1>6
  <2> QED  BY <1>1, <2>1, <2>2, ElementOfSeq
<1>8. Last(generated) = generated[n]  BY DEF Last
<1> HIDE DEF m, n, b
<1>9. /\ n < b /\ Remaining \in Nat /\ Position \in Nat
      /\ Position + Remaining = Required(request) /\ Position + 1 = m + n
  BY <1>6
<1>10. pool.tokens = Position /\ Primed(device, Said, Position)
  BY DEF IInv, SteadySound, Steady
<1>11. served = Len(generated)  BY DEF Drained
<1> QED
  BY <1>2, <1>3, <1>4, <1>6, <1>7, <1>8, <1>9, <1>10, <1>11 DEF m, n, b

LEMMA FinalTargetStepHolds ==
    ASSUME IInv, FinalTargetStep
    PROVE  IInv'
<1>1. pc = "ready" /\ pc # "idle" /\ Drained /\ ~Finished /\ Remaining <= 1
  BY DEF FinalTargetStep
<1>2. /\ generated # << >> /\ Len(generated) \in Nat \ {0} /\ served = Len(generated)
      /\ Len(generated) < request.budget
      /\ Remaining \in Nat /\ Remaining = request.budget - Len(generated)
      /\ Position \in Nat /\ Position + Remaining <= Mapped(pool)
      /\ pool.tokens = Position
  BY <1>1, DrainedFacts
<1>3. /\ request.budget \in Nat /\ pool.active /\ Mapped(pool) \in Nat
  BY <1>1, ActiveFacts, SlotFacts
<1>4. Len(generated) + 1 = request.budget /\ Remaining = 1  BY <1>1, <1>2, <1>3
<1>5. AdmitRound(Position, 1)  BY <1>2, <1>3, <1>4 DEF AdmitRound
<1>6. PICK t \in Token :
        HandOut(Append(generated, t), served + 1,
                TargetSpan(device, Position, <<Last(generated)>>))
  BY <1>5 DEF FinalTargetStep
<1> DEFINE tokens == Append(generated, t)
           d == TargetSpan(device, Position, <<Last(generated)>>)
<1>7. Len(tokens) = Len(generated) + 1
  <2>1. generated \in Seq(Token)  BY <1>1, ActiveFacts
  <2> QED  BY <2>1, AppendProperties
<1>8. Released /\ device' = [Reset(d) EXCEPT !.table = << >>]
  <2>1. served + 1 = Len(tokens) /\ Len(tokens) = request.budget
    BY <1>2, <1>4, <1>7
  <2>2. HandOut(tokens, served + 1, d)  BY <1>6
  <2> HIDE DEF tokens, d
  <2> QED  BY <2>1, <2>2 DEF HandOut
<1>9. IsDevice(d) /\ d.carry \in Seq(Letters)
  <2>1. IsDevice(device) /\ device.carry \in Seq(Letters)  BY <1>1, ActiveFacts
  <2>2. IsSpan(d, device, Position, <<Last(generated)>>)  BY <2>1, TargetSpanFacts
  <2> QED  BY <2>1, <2>2 DEF IsSpan
<1> HIDE DEF d
<1> QED  BY <1>1, <1>8, <1>9, ReleaseHolds

LEMMA DraftHolds ==
    ASSUME IInv, Draft
    PROVE  IInv'
<1>1. pc = "ready" /\ pc # "idle" /\ Drained /\ ~Finished /\ Remaining > 1
  BY DEF Draft
<1>2. /\ generated # << >> /\ Len(generated) \in Nat \ {0} /\ served = Len(generated)
      /\ Remaining \in Nat /\ Remaining = request.budget - Len(generated)
      /\ Position = Len(request.prompt) + Len(generated) - 1
      /\ Position \in Nat /\ Position + Remaining = Required(request)
      /\ Position + Remaining <= Mapped(pool)
      /\ Position + 1 = Len(Said) /\ Said[Position + 1] = Last(generated)
      /\ Last(generated) \in Token
      /\ pool.tokens = Position /\ Primed(device, Said, Position)
  BY <1>1, DrainedFacts
<1>3. /\ IsDevice(device) /\ generated \in Seq(Token) /\ Said \in Seq(Letters)
      /\ device.recurrent \in Seq(Letters) /\ device.carry \in Seq(Letters)
      /\ Shapes /\ SlotSound
  BY <1>1, ActiveFacts
<1>4. /\ request \in Requests /\ TableSound(device) /\ Room(device) = Mapped(pool)
      /\ Mapped(pool) \in Nat /\ Required(request) \in Nat /\ Len(request.prompt) \in Nat
  BY <1>1, <1>3, SlotFacts
<1> DEFINE extent == Min({DRAFT_WINDOW, Remaining - 1})
<1>5. extent \in Nat \ {0} /\ extent <= Remaining - 1
  <2>1. DRAFT_WINDOW \in Nat \ {0} /\ Remaining - 1 \in Nat \ {0}  BY <1>1, <1>2, Constants
  <2>2. extent = IF DRAFT_WINDOW <= Remaining - 1 THEN DRAFT_WINDOW ELSE Remaining - 1
    BY <2>1, MinOfTwo
  <2> DEFINE w == DRAFT_WINDOW
             l == Remaining - 1
  <2>3. w \in Nat \ {0} /\ l \in Nat \ {0} /\ extent = IF w <= l THEN w ELSE l
    BY <2>1, <2>2
  <2> HIDE DEF extent, w, l
  <2>4. extent \in Nat \ {0} /\ extent <= l  BY <2>3
  <2> QED  BY <2>4 DEF l
<1>6. /\ Position + extent <= Mapped(pool) /\ Position + extent + 1 <= Required(request)
      /\ extent + 1 <= Remaining
  <2> DEFINE e == extent
             a == Position
             b == Remaining
             c == Required(request)
             m == Mapped(pool)
  <2>1. /\ e \in Nat /\ a \in Nat /\ b \in Nat /\ c \in Nat /\ m \in Nat
        /\ e <= b - 1 /\ a + b = c /\ a + b <= m
    BY <1>2, <1>4, <1>5
  <2> HIDE DEF e, a, b, c, m
  <2>2. a + e <= m /\ a + e + 1 <= c /\ e + 1 <= b  BY <2>1
  <2> QED  BY <2>2 DEF e, a, b, c, m
<1>7. PICK drafts \in [1 .. extent -> Token] :
        LET inputs == <<Last(generated)>> \o drafts
            streams == <<device.carry>> \o [i \in 1 .. extent |-> <<Garbage>>]
        IN /\ saved' = [epoch |-> pool.epoch, tokens |-> pool.tokens,
                        recurrent |-> device.recurrent]
           /\ round' = [position |-> Position, inputs |-> inputs, accepted |-> 0]
           /\ device' = DraftRows(device, Position, streams, SubSeq(inputs, 1, extent))
           /\ pc' = "verify"
           /\ UNCHANGED <<request, generated, served, pool>>
  <2>1. ~(Position + extent > Mapped(pool))
    <3> HIDE DEF extent
    <3> QED  BY <1>2, <1>4, <1>5, <1>6
  <2> QED  BY <2>1 DEF Draft
<1> HIDE DEF extent
<1> DEFINE inputs == <<Last(generated)>> \o drafts
           streams == <<device.carry>> \o [i \in 1 .. extent |-> <<Garbage>>]
           tokens == SubSeq(inputs, 1, extent)
<1>8. /\ saved' = [epoch |-> pool.epoch, tokens |-> pool.tokens,
                   recurrent |-> device.recurrent]
      /\ round' = [position |-> Position, inputs |-> inputs, accepted |-> 0]
      /\ device' = DraftRows(device, Position, streams, tokens)
      /\ pc' = "verify" /\ request' = request /\ generated' = generated
      /\ served' = served /\ pool' = pool
  BY <1>7
<1>9. /\ inputs \in Seq(Token) /\ Len(inputs) = extent + 1 /\ inputs[1] = Last(generated)
  <2> DEFINE head == <<Last(generated)>>
  <2>1. head \in Seq(Token) /\ Len(head) = 1 /\ head[1] = Last(generated)  BY <1>2
  <2>2. drafts \in Seq(Token) /\ Len(drafts) = extent  BY <1>5, <1>7
  <2> HIDE DEF head
  <2>3. /\ head \o drafts \in Seq(Token) /\ Len(head \o drafts) = Len(head) + Len(drafts)
        /\ \A i \in 1 .. Len(head) + Len(drafts) :
             (head \o drafts)[i] = IF i <= Len(head) THEN head[i] ELSE drafts[i - Len(head)]
    BY <2>1, <2>2, ConcatProperties
  <2>4. 1 \in 1 .. Len(head) + Len(drafts) /\ 1 <= Len(head)  BY <1>5, <2>1, <2>2
  <2>5. (head \o drafts)[1] = head[1]  BY <2>3, <2>4
  <2>6. Len(head \o drafts) = extent + 1  BY <1>5, <2>1, <2>2, <2>3
  <2> QED  BY <2>1, <2>3, <2>5, <2>6 DEF head
<1>10. streams[1] = device.carry
  <2> DEFINE head == <<device.carry>>
             tail == [i \in 1 .. extent |-> <<Garbage>>]
             S == Seq(Letters)
  <2>1. head \in Seq(S) /\ Len(head) = 1 /\ head[1] = device.carry  BY <1>3
  <2>2. tail \in Seq(S) /\ Len(tail) \in Nat
    <3>1. <<Garbage>> \in S  BY DEF Letters
    <3> HIDE DEF S
    <3>2. tail \in Seq(S) /\ Len(tail) = extent  BY <1>5, <3>1
    <3> QED  BY <1>5, <3>2
  <2> HIDE DEF head, tail, S
  <2>3. \A i \in 1 .. Len(head) + Len(tail) :
          (head \o tail)[i] = IF i <= Len(head) THEN head[i] ELSE tail[i - Len(head)]
    BY <2>1, <2>2, ConcatProperties
  <2>4. 1 \in 1 .. Len(head) + Len(tail) /\ 1 <= Len(head)  BY <2>1, <2>2
  <2>5. (head \o tail)[1] = device.carry  BY <2>1, <2>3, <2>4
  <2> QED  BY <2>5 DEF head, tail
<1> HIDE DEF inputs, streams
<1>11. DOMAIN tokens = 1 .. extent /\ tokens[1] = Last(generated)
  <2>1. extent \in Nat /\ extent <= Len(inputs) /\ 1 \in 1 .. extent  BY <1>5, <1>9
  <2>2. tokens \in Seq(Token) /\ Len(tokens) = extent /\ \A i \in 1 .. extent : tokens[i] = inputs[i]
    BY <1>9, <2>1, PrefixFacts
  <2> HIDE DEF tokens
  <2> QED  BY <1>9, <2>1, <2>2, LenProperties
<1> HIDE DEF tokens
<1>12. /\ IsDevice(device') /\ device'.table = device.table /\ device'.kv = device.kv
       /\ device'.recurrent = device.recurrent /\ device'.carry = device.carry
       /\ Mirrored(device', Said, Position + 1)
  <2>1. Mirrored(device, Said, Position) /\ device.carry = SubSeq(Said, 1, Position)
    BY <1>2 DEF Primed
  <2>2. Position + extent <= Room(device)  BY <1>4, <1>6
  <2>3. ASSUME NEW i \in 1 .. 1
        PROVE  streams[i] = SubSeq(Said, 1, Position + i - 1) /\ tokens[i] = Said[Position + i]
    <3>1. i = 1 /\ Position + i - 1 = Position /\ Position + i = Position + 1  BY <1>2
    <3> QED  BY <1>2, <1>10, <1>11, <2>1, <3>1
  <2>4. extent \in Nat /\ 1 \in 0 .. extent  BY <1>5
  <2>5. CanDraft(device, Said, Position, streams, tokens, extent, 1)
    BY <1>2, <1>3, <1>4, <1>11, <2>1, <2>2, <2>3, <2>4 DEF CanDraft
  <2>6. PICK e : e = DraftRows(device, Position, streams, tokens)  OBVIOUS
  <2>7. /\ IsDevice(e) /\ e.table = device.table /\ e.kv = device.kv
        /\ e.recurrent = device.recurrent /\ e.carry = device.carry
        /\ Mirrored(e, Said, Position + 1)
    BY ONLY <2>5, <2>6, DraftRowsFacts
  <2> QED  BY <1>8, <2>6, <2>7
<1>13. Said' = Said /\ Position' = Position /\ Drained' /\ Finished' = Finished
       /\ Remaining' = Remaining
  BY <1>1, <1>8 DEF Said, Position, Drained, Finished, Remaining
<1>14. Shapes'
  <2>1. pc' \in {"idle", "primed", "ready", "verify", "decide", "restore", "replay", "realign"}
        /\ pc' # "idle" /\ request' # None
    BY <1>4, <1>8, Constants
  <2> QED  BY <1>3, <1>4, <1>8, <1>12, <2>1 DEF Shapes
<1>15. SlotSound'  BY <1>1, <1>3, <1>8, <1>12 DEF SlotSound, Required, Reserved
<1>16. RoundSound'
  <2>1. /\ round' = [position |-> round'.position, inputs |-> round'.inputs,
                     accepted |-> round'.accepted]
        /\ round'.position = Position /\ round'.inputs = inputs /\ round'.accepted = 0
    BY <1>8
  <2>2. /\ Position \in Nat /\ Len(request.prompt) <= Position
        /\ Len(inputs) > 1 /\ 0 \in 0 .. Len(inputs) - 1
        /\ Position + Len(inputs) <= Required(request) /\ Position < Len(Said)
    <3> DEFINE n == Len(generated)
               m == Len(request.prompt)
               a == Position
               i == Len(inputs)
               l == Len(Said)
               c == Required(request)
    <3>1. /\ n \in Nat \ {0} /\ m \in Nat /\ a = m + n - 1 /\ a + 1 = l
          /\ i = extent + 1 /\ extent \in Nat \ {0} /\ a + extent + 1 <= c /\ c \in Nat
      BY <1>2, <1>4, <1>5, <1>6, <1>9
    <3> HIDE DEF m, n, a, i, l, c
    <3>2. /\ a \in Nat /\ m <= a /\ i > 1 /\ 0 \in 0 .. i - 1 /\ a + i <= c /\ a < l
      BY <3>1
    <3> QED  BY <3>2 DEF m, a, i, l, c
  <2>3. saved' = [epoch |-> pool'.epoch, tokens |-> Position,
                  recurrent |-> SubSeq(Said, 1, Position)]
    <3>1. device.recurrent = SubSeq(Said, 1, Position)  BY <1>2 DEF Primed, Ran
    <3> QED  BY <1>2, <1>8, <3>1
  <2>4. Required(request)' = Required(request)  BY <1>8 DEF Required
  <2> QED  BY <1>2, <1>8, <1>9, <1>12, <1>13, <2>1, <2>2, <2>3, <2>4 DEF RoundSound
<1>17. DecisionSound'
  <2>1. round'.position = Position /\ round'.inputs = inputs  BY <1>8
  <2>2. Len(inputs) <= Remaining  BY <1>6, <1>9
  <2> QED  BY <1>1, <1>2, <1>8, <1>13, <2>1, <2>2 DEF DecisionSound
<1>18. TargetSound'
  <2>1. round'.position = Position  BY <1>8
  <2>2. Ran(device, Said, Position)  BY <1>2 DEF Primed
  <2>3. Ran(device', Said, Position)
    <3>1. Rows(device', Said, Position)  BY <1>12, <2>2, ExactFields DEF Ran
    <3> QED  BY <1>12, <2>2, <3>1 DEF Ran
  <2> QED  BY <1>2, <1>8, <1>13, <2>1, <2>3 DEF TargetSound
<1> QED
  BY <1>8, <1>14, <1>15, <1>16, <1>17, <1>18 DEF IInv, IdleSound, SteadySound, Steady

(* What holds throughout a round.                                          *)
LEMMA RoundFacts ==
    ASSUME IInv, InRound
    PROVE  /\ pc # "idle" /\ RoundSound /\ DecisionSound /\ TargetSound
           /\ round.position \in Nat /\ Len(request.prompt) <= round.position
           /\ round.inputs \in Seq(Token) /\ Len(round.inputs) \in Nat
           /\ Len(round.inputs) > 1
           /\ round.accepted \in Nat /\ round.accepted + 1 <= Len(round.inputs)
           /\ round.position + Len(round.inputs) <= Mapped(pool)
           /\ round.position + round.accepted + 1 <= Mapped(pool)
           /\ round.position <= Reserved(request) /\ Mapped(pool) \in Nat
           /\ round.position < Len(Said) /\ Said[round.position + 1] = round.inputs[1]
           /\ saved.epoch = pool.epoch /\ saved.tokens = round.position
           /\ saved.recurrent = SubSeq(Said, 1, round.position)
           /\ Mirrored(device, Said, round.position + 1)
           /\ SubSeq(Said, 1, round.position) \in Seq(Letters)
<1>1. pc # "idle" /\ RoundSound /\ DecisionSound /\ TargetSound  BY DEF IInv, InRound
<1>2. /\ round.position \in Nat /\ Len(request.prompt) <= round.position
      /\ round.inputs \in Seq(Token) /\ Len(round.inputs) > 1
      /\ round.accepted \in 0 .. Len(round.inputs) - 1
      /\ round.position + Len(round.inputs) <= Required(request)
      /\ round.position < Len(Said) /\ Said[round.position + 1] = round.inputs[1]
      /\ saved = [epoch |-> pool.epoch, tokens |-> round.position,
                  recurrent |-> SubSeq(Said, 1, round.position)]
      /\ Mirrored(device, Said, round.position + 1)
  BY <1>1 DEF RoundSound
<1>3. /\ Required(request) \in Nat /\ Mapped(pool) \in Nat /\ Reserved(request) \in Nat
      /\ Required(request) <= Mapped(pool) /\ Required(request) <= Reserved(request)
      /\ Said \in Seq(Letters) /\ Len(Said) \in Nat
  BY <1>1, ActiveFacts, SlotFacts
<1> DEFINE q == round.position
           n == Len(round.inputs)
           k == round.accepted
           c == Required(request)
           m == Mapped(pool)
           r == Reserved(request)
<1>4. /\ q \in Nat /\ n \in Nat /\ n > 1 /\ k \in 0 .. n - 1 /\ q + n <= c
      /\ c \in Nat /\ m \in Nat /\ r \in Nat /\ c <= m /\ c <= r
  BY <1>2, <1>3, LenProperties
<1> HIDE DEF q, n, k, c, m, r
<1>5. /\ k \in Nat /\ k + 1 <= n /\ q + n <= m /\ q + k + 1 <= m /\ q <= r
  BY <1>4
<1>6. /\ saved.epoch = pool.epoch /\ saved.tokens = round.position
      /\ saved.recurrent = SubSeq(Said, 1, round.position)
  BY <1>2
<1>7. SubSeq(Said, 1, round.position) \in Seq(Letters)  BY <1>2, <1>3, PrefixFacts
<1> QED  BY <1>1, <1>2, <1>3, <1>4, <1>5, <1>6, <1>7 DEF q, n, k, c, m, r

(* A span of the target over tokens of a text, in the round's slot.        *)
LEMMA SpanHolds ==
    ASSUME IInv, InRound, NEW text, NEW tokens,
           text \in Seq(Letters), tokens \in Seq(Letters), tokens # << >>,
           Follows(tokens, text, round.position), Ran(device, text, round.position),
           round.position + Len(tokens) <= Mapped(pool),
           device' = TargetSpan(device, round.position, tokens),
           pool' = Commit(pool, round.position + Len(tokens)),
           pc' \in {"decide", "realign"}, pc' = "decide" <=> pc = "verify",
           pc' = "realign" <=> pc = "replay", pc \in {"verify", "replay"},
           UNCHANGED <<request, generated, served, round, saved>>
    PROVE  /\ Shapes' /\ IdleSound' /\ SlotSound' /\ SteadySound' /\ RoundSound'
           /\ DecisionSound'
           /\ pool'.tokens = round.position + Len(tokens)
           /\ Spanned(device', text, round.position, Len(tokens))
<1> DEFINE q == round.position
           n == Len(tokens)
<1>1. /\ pc # "idle" /\ RoundSound /\ DecisionSound /\ q \in Nat /\ Mapped(pool) \in Nat
      /\ Mirrored(device, Said, q + 1)
  BY RoundFacts
<1>2. /\ Shapes /\ SlotSound /\ IsDevice(device) /\ device.carry \in Seq(Letters)
      /\ IsPool(pool) /\ Partition(pool)
  BY <1>1, ActiveFacts DEF Shapes
<1>3. TableSound(device) /\ Room(device) = Mapped(pool) /\ request \in Requests
  BY <1>1, <1>2, SlotFacts
<1>4. CanRun(device, text, q, tokens)  BY <1>1, <1>2, <1>3 DEF CanRun
<1>5. IsSpan(device', device, q, tokens)  BY <1>2, TargetSpanFacts
<1>6. Spanned(device', text, q, n)  BY <1>4, <1>5, SpanFacts
<1>7. /\ IsDevice(device') /\ device'.table = device.table
      /\ device'.mirror = device.mirror /\ device'.carry = device.carry
  BY <1>5 DEF IsSpan
<1>8. n \in Nat /\ q + n \in Nat /\ Len(text) \in Nat /\ q + n <= Len(text)
  BY <1>1, LenProperties DEF Follows
<1>9. device'.recurrent \in Seq(Letters)
  <2> DEFINE m == q + n
  <2>1. m \in Nat /\ m <= Len(text) /\ device'.recurrent = SubSeq(text, 1, m)
    BY <1>6, <1>8 DEF Spanned, Ran
  <2> HIDE DEF m
  <2> QED  BY <2>1, PrefixFacts
<1> DEFINE l == q + n
<1>10. l \in Nat /\ l <= Mapped(pool) /\ pool' = [pool EXCEPT !.tokens = l]
  BY <1>8 DEF Commit
<1> HIDE DEF l
<1>11. /\ IsPool(pool') /\ Partition(pool') /\ pool'.tokens = l /\ pool'.pages = pool.pages
       /\ pool'.active = pool.active /\ pool'.epoch = pool.epoch
  <2>1. PICK r : r = pool'  OBVIOUS
  <2>2. r = [free |-> pool.free, pages |-> pool.pages, tokens |-> l,
             active |-> pool.active, epoch |-> pool.epoch]
    BY <1>2, <1>10, <2>1 DEF IsPool
  <2>3. /\ r.free = pool.free /\ r.pages = pool.pages /\ r.tokens = l
        /\ r.active = pool.active /\ r.epoch = pool.epoch
    BY <2>2
  <2>4. IsPool(r)  BY <1>2, <1>10, <2>2, <2>3 DEF IsPool
  <2>5. Partition(r)  BY <1>2, <2>3 DEF Partition
  <2> QED  BY <2>1, <2>3, <2>4, <2>5
<1>12. Mapped(pool') = Mapped(pool)  BY <1>11 DEF Mapped
<1>13. Shapes'
  <2>1. pool'.tokens <= Mapped(pool') /\ pool'.epoch <= MaxEpoch + 1
    BY <1>2, <1>10, <1>11, <1>12 DEF Shapes
  <2>2. request' # None /\ pc' # "idle"  BY <1>3, Constants
  <2>3. generated' \in Seq(Token) /\ served' \in 0 .. Len(generated')
    BY <1>2 DEF Shapes
  <2> QED  BY <1>2, <1>3, <1>7, <1>9, <1>11, <2>1, <2>2, <2>3 DEF Shapes
<1>14. SlotSound'
  BY <1>1, <1>2, <1>7, <1>11 DEF SlotSound, Required, Reserved
<1>15. Said' = Said /\ Position' = Position /\ Drained' = Drained /\ Finished' = Finished
       /\ Remaining' = Remaining
  BY DEF Said, Position, Drained, Finished, Remaining
<1>16. RoundSound'
  <2>1. Mirrored(device', Said, q + 1)  BY <1>1, <1>7, ExactFields
  <2>2. Required(request)' = Required(request)  BY DEF Required
  <2> QED  BY <1>1, <1>11, <1>15, <2>1, <2>2 DEF RoundSound, InRound
<1>17. DecisionSound'  BY <1>1, <1>15 DEF DecisionSound
<1>18. pool'.tokens = q + n  BY <1>11 DEF l
<1>19. IdleSound' /\ SteadySound'  BY DEF IdleSound, SteadySound, Steady
<1> QED  BY <1>6, <1>13, <1>14, <1>16, <1>17, <1>18, <1>19

(* Inputs that follow the round's position in the text up to it.           *)
LEMMA VerifiedFacts ==
    ASSUME NEW s \in Seq(Letters), NEW q \in Nat, q <= Len(s), NEW inputs \in Seq(Token)
    PROVE  LET v == SubSeq(s, 1, q) \o inputs IN
           /\ v \in Seq(Letters) /\ Len(v) = q + Len(inputs) /\ Len(inputs) \in Nat
           /\ \A i \in 1 .. q : v[i] = s[i]
           /\ Follows(inputs, v, q) /\ Agree(s, v, q)
<1> DEFINE head == SubSeq(s, 1, q)
           v == head \o inputs
           n == Len(inputs)
<1>1. head \in Seq(Letters) /\ Len(head) = q /\ \A i \in 1 .. q : head[i] = s[i]
  BY PrefixFacts
<1> HIDE DEF head
<1>2. /\ v \in Seq(Letters) /\ n \in Nat /\ Len(v) = q + n
      /\ \A i \in 1 .. q : v[i] = head[i]
      /\ \A i \in 1 .. n : v[q + i] = inputs[i]
  BY <1>1, JoinFacts
<1>3. \A i \in 1 .. q : v[i] = s[i]  BY <1>1, <1>2
<1> HIDE DEF v, n
<1>4. Agree(s, v, q)
  <2>1. q <= Len(v)  BY <1>2
  <2> QED  BY <1>2, <1>3, <2>1 DEF Agree
<1>5. Follows(inputs, v, q)
  <2>1. q + n <= Len(v)  BY <1>2
  <2> QED  BY <1>2, <2>1 DEF Follows, n
<1> QED  BY <1>2, <1>3, <1>4, <1>5 DEF v, n, head

LEMMA VerifyHolds ==
    ASSUME IInv, Verify
    PROVE  IInv'
<1>1. pc \in {"verify", "replay"} /\ InRound  BY DEF Verify, InRound
<1> DEFINE q == round.position
           n == Len(round.inputs)
           k == round.accepted
<1>2. /\ pc # "idle" /\ DecisionSound /\ TargetSound /\ q \in Nat /\ n \in Nat /\ n > 1
      /\ round.inputs \in Seq(Token) /\ k \in Nat /\ k + 1 <= n
      /\ q + n <= Mapped(pool) /\ q + k + 1 <= Mapped(pool) /\ Mapped(pool) \in Nat
      /\ q < Len(Said)
  BY <1>1, RoundFacts
<1>3. /\ pool.active /\ Said \in Seq(Letters) /\ Len(Said) \in Nat
  BY <1>2, ActiveFacts, SlotFacts
<1>4. Token \subseteq Letters  BY DEF Letters
<1>5. pool.tokens = q /\ Ran(device, Said, q)  BY <1>1, <1>2 DEF TargetSound
<1>6. CASE pc = "verify"
  <2> DEFINE tokens == round.inputs
  <2>1. AdmitRound(q, n)  BY <1>2, <1>3, <1>5 DEF AdmitRound
  <2>2. /\ device' = TargetSpan(device, q, tokens) /\ pool' = Commit(pool, q + Len(tokens))
        /\ pc' = "decide" /\ UNCHANGED <<request, generated, served, round, saved>>
    BY <1>6, <2>1 DEF Verify
  <2>3. /\ Verified \in Seq(Letters) /\ Follows(tokens, Verified, q) /\ Agree(Said, Verified, q)
    <3> DEFINE s == Said
    <3>1. /\ s \in Seq(Letters) /\ q \in Nat /\ q <= Len(s) /\ tokens \in Seq(Token)
          /\ Verified = SubSeq(s, 1, q) \o tokens
      BY <1>2, <1>3 DEF Verified
    <3> HIDE DEF s, q, tokens
    <3>2. LET v == SubSeq(s, 1, q) \o tokens IN
          v \in Seq(Letters) /\ Follows(tokens, v, q) /\ Agree(s, v, q)
      BY ONLY <3>1, VerifiedFacts
    <3> QED  BY <3>1, <3>2 DEF s
  <2>4. Ran(device, Verified, q)  BY <1>5, <2>3, SameText
  <2>5. tokens \in Seq(Letters) /\ tokens # << >>
    BY <1>2, <1>4, SeqMonotonic, EmptySeq
  <2>6. /\ Shapes' /\ IdleSound' /\ SlotSound' /\ SteadySound' /\ RoundSound'
        /\ DecisionSound'
        /\ pool'.tokens = q + Len(tokens) /\ Spanned(device', Verified, q, Len(tokens))
    <3>1. q + Len(tokens) <= Mapped(pool)  BY <1>2
    <3> HIDE DEF tokens
    <3> QED  BY <1>1, <1>6, <2>2, <2>3, <2>4, <2>5, <3>1, SpanHolds
  <2>7. Verified' = Verified  BY <2>2 DEF Verified, Said
  <2>8. TargetSound'  BY <2>2, <2>6, <2>7 DEF TargetSound
  <2> QED  BY <2>6, <2>8 DEF IInv
<1>7. CASE pc = "replay"
  <2> DEFINE m == k + 1
             tokens == SubSeq(round.inputs, 1, m)
  <2>1. m \in Nat \ {0} /\ m <= n /\ q + m <= Mapped(pool) /\ q + m = q + k + 1
    BY <1>2
  <2>2. tokens \in Seq(Token) /\ Len(tokens) = m /\ \A i \in 1 .. m : tokens[i] = round.inputs[i]
    <3> HIDE DEF m
    <3> QED  BY <1>2, <2>1, PrefixFacts
  <2>3. q + m <= Len(Said) /\ \A i \in 1 .. m : Said[q + i] = round.inputs[i]
    BY <1>2, <1>7, <2>1 DEF DecisionSound
  <2>4. AdmitRound(q, Len(tokens))  BY <1>2, <1>3, <1>5, <2>1, <2>2 DEF AdmitRound
  <2>5. /\ device' = TargetSpan(device, q, tokens) /\ pool' = Commit(pool, q + Len(tokens))
        /\ pc' = "realign" /\ UNCHANGED <<request, generated, served, round, saved>>
    BY <1>7, <2>4 DEF Verify
  <2> HIDE DEF m, tokens
  <2>6. Follows(tokens, Said, q)  BY <2>2, <2>3 DEF Follows
  <2>7. tokens \in Seq(Letters) /\ tokens # << >>
    BY <1>4, <2>1, <2>2, SeqMonotonic, EmptySeq
  <2>8. /\ Shapes' /\ IdleSound' /\ SlotSound' /\ SteadySound' /\ RoundSound'
        /\ DecisionSound'
        /\ pool'.tokens = q + Len(tokens) /\ Spanned(device', Said, q, Len(tokens))
    <3>1. q + Len(tokens) <= Mapped(pool)  BY <2>1, <2>2
    <3> QED  BY <1>1, <1>3, <1>5, <1>7, <2>5, <2>6, <2>7, <3>1, SpanHolds
  <2>9. Said' = Said  BY <2>5 DEF Said
  <2>10. TargetSound'
    <3>1. pool'.tokens = q + k + 1 /\ Spanned(device', Said, q, k + 1)
      BY <2>1, <2>2, <2>8 DEF m
    <3> QED  BY <2>5, <2>9, <3>1 DEF TargetSound
  <2> QED  BY <2>8, <2>10 DEF IInv
<1> QED  BY <1>1, <1>6, <1>7

(* The accepted inputs of a round and what follows them, after the text.   *)
LEMMA DecidedFacts ==
    ASSUME NEW prompt \in Seq(Letters), NEW before \in Seq(Token), before # << >>,
           NEW inputs \in Seq(Token), NEW k \in Nat, k + 1 <= Len(inputs),
           inputs[1] = Last(before), NEW after \in Seq(Token),
           Len(after) >= k, \A i \in 1 .. k : after[i] = inputs[i + 1]
    PROVE  LET n == Len(prompt) + Len(before)
               t == prompt \o (before \o after)
           IN  /\ before \o after \in Seq(Token)
               /\ Len(before \o after) = Len(before) + Len(after)
               /\ Agree(prompt \o before, t, n)
               /\ (n - 1) + (k + 1) <= Len(t)
               /\ \A i \in 1 .. k + 1 : t[(n - 1) + i] = inputs[i]
<1> DEFINE m == Len(prompt)
           b == Len(before)
           a == Len(after)
           c == before \o after
           n == m + b
           t == prompt \o c
<1>1. /\ c \in Seq(Token) /\ Len(c) = b + a
      /\ \A i \in 1 .. b + a : c[i] = IF i <= b THEN before[i] ELSE after[i - b]
  BY ConcatProperties
<1>2. m \in Nat /\ b \in Nat \ {0} /\ a \in Nat /\ a >= k
  BY LenProperties, EmptySeq
<1>3. inputs[1] = before[b]  BY DEF Last
<1> HIDE DEF m, b, a, c
<1>4. \A i \in 1 .. b : c[i] = before[i]  BY <1>1, <1>2
<1>5. \A i \in 1 .. a : c[b + i] = after[i]
  <2>1. ASSUME NEW i \in 1 .. a PROVE c[b + i] = after[i]
    <3>1. b + i \in 1 .. b + a /\ ~(b + i <= b) /\ (b + i) - b = i  BY <1>2
    <3> QED  BY <1>1, <3>1
  <2> QED  BY <2>1
<1>6. /\ t \in Seq(Letters) /\ Len(t) = m + (b + a)
      /\ \A i \in 1 .. b + a : t[m + i] = c[i]
  BY <1>1, JoinFacts DEF m
<1>7. Agree(prompt \o before, t, n)
  <2>1. Len(before) <= Len(c)  BY <1>1, <1>2 DEF b
  <2> QED  BY <1>1, <1>4, <2>1, JoinAgrees DEF m, b
<1> HIDE DEF t
<1>8. (n - 1) + (k + 1) <= Len(t)  BY <1>2, <1>6
<1>9. ASSUME NEW i \in 1 .. k + 1 PROVE t[(n - 1) + i] = inputs[i]
  <2>1. CASE i = 1
    <3>1. (n - 1) + i = m + b /\ b \in 1 .. b + a /\ b \in 1 .. b  BY <1>2, <2>1
    <3>2. t[m + b] = c[b] /\ c[b] = before[b]  BY <1>4, <1>6, <3>1
    <3> QED  BY <1>3, <2>1, <3>1, <3>2
  <2>2. CASE i # 1
    <3> DEFINE j == i - 1
    <3>1. /\ j \in 1 .. k /\ j \in 1 .. a /\ j + 1 = i /\ b + j \in 1 .. b + a
          /\ (n - 1) + i = m + (b + j)
      BY <1>2, <2>2
    <3> HIDE DEF j, n
    <3>2. t[m + (b + j)] = c[b + j] /\ c[b + j] = after[j] /\ after[j] = inputs[j + 1]
      BY <1>5, <1>6, <3>1
    <3> QED  BY <3>1, <3>2
  <2> QED  BY <2>1, <2>2
<1> QED  BY <1>1, <1>7, <1>8, <1>9 DEF m, b, a, c, t

(* The drafts a round accepts.                                             *)
LEMMA AcceptedFacts ==
    ASSUME NEW inputs \in Seq(Token), NEW k \in Nat, k + 1 <= Len(inputs)
    PROVE  /\ SubSeq(inputs, 2, k + 1) \in Seq(Token) /\ Len(SubSeq(inputs, 2, k + 1)) = k
           /\ \A i \in 1 .. k : SubSeq(inputs, 2, k + 1)[i] = inputs[i + 1]
<1> DEFINE o == 2
           e == k + 1
<1>1. o \in Nat \ {0} /\ e \in Nat /\ o <= e + 1 /\ e <= Len(inputs) /\ (e - o) + 1 = k
      /\ \A i \in 1 .. k : (o + i) - 1 = i + 1
  OBVIOUS
<1> HIDE DEF o, e
<1>2. /\ SubSeq(inputs, o, e) \in Seq(Token) /\ Len(SubSeq(inputs, o, e)) = e - o + 1
      /\ \A i \in 1 .. e - o + 1 : SubSeq(inputs, o, e)[i] = inputs[o + i - 1]
  BY <1>1, PartFacts
<1>3. /\ SubSeq(inputs, o, e) \in Seq(Token) /\ Len(SubSeq(inputs, o, e)) = k
      /\ \A i \in 1 .. k : SubSeq(inputs, o, e)[i] = inputs[i + 1]
  BY <1>1, <1>2
<1> QED  BY <1>3 DEF o, e

(* What a decision commits: the accepted drafts, and one more token unless *)
(* the last of them stops.                                                 *)
LEMMA DecideFacts ==
    ASSUME IInv, Decide
    PROVE  \E k \in 0 .. Len(round.inputs) - 1 : \E after \in Seq(Token) :
             /\ Len(after) >= k /\ Len(after) > 0 /\ Len(after) <= k + 1
             /\ \A i \in 1 .. k : after[i] = round.inputs[i + 1]
             /\ Last(after) = Stop \/ Len(after) = k + 1
             /\ generated' = generated \o after
             /\ round' = [round EXCEPT !.accepted = k]
             /\ pc' = IF k + 1 = Len(round.inputs) THEN "realign" ELSE "restore"
<1> DEFINE inputs == round.inputs
<1>1. pc = "decide" /\ InRound  BY DEF Decide, InRound
<1>2. inputs \in Seq(Token) /\ Len(inputs) \in Nat /\ Len(inputs) > 1
  BY <1>1, RoundFacts
<1>3. PICK k \in 0 .. Len(inputs) - 1 :
        LET accepted == SubSeq(inputs, 2, k + 1)
            stops == k > 0 /\ Last(accepted) = Stop
            all == k + 1 = Len(inputs)
        IN /\ \/ stops /\ generated' = generated \o accepted
              \/ /\ ~stops
                 /\ \E t \in IF all THEN Token ELSE Token \ {inputs[k + 2]} :
                       generated' = generated \o Append(accepted, t)
           /\ round' = [round EXCEPT !.accepted = k]
           /\ pc' = IF all THEN "realign" ELSE "restore"
  BY DEF Decide
<1> HIDE DEF inputs
<1>4. k \in Nat /\ k + 1 <= Len(inputs)  BY <1>2
<1> DEFINE accepted == SubSeq(inputs, 2, k + 1)
<1>5. /\ accepted \in Seq(Token) /\ Len(accepted) = k
      /\ \A i \in 1 .. k : accepted[i] = inputs[i + 1]
  BY <1>2, <1>4, AcceptedFacts
<1> HIDE DEF accepted
<1>6. CASE k > 0 /\ Last(accepted) = Stop /\ generated' = generated \o accepted
  <2>1. Len(accepted) >= k /\ Len(accepted) > 0 /\ Len(accepted) <= k + 1
    BY <1>4, <1>5, <1>6
  <2> QED  BY <1>3, <1>5, <1>6, <2>1 DEF inputs
<1>7. ASSUME NEW t \in Token, generated' = generated \o Append(accepted, t)
      PROVE  \E after \in Seq(Token) :
               /\ Len(after) >= k /\ Len(after) > 0 /\ Len(after) <= k + 1
               /\ \A i \in 1 .. k : after[i] = inputs[i + 1]
               /\ Len(after) = k + 1 /\ generated' = generated \o after
  <2> DEFINE after == Append(accepted, t)
  <2>1. /\ after \in Seq(Token) /\ Len(after) = k + 1
        /\ \A i \in 1 .. k : after[i] = accepted[i]
    BY <1>5, AppendProperties
  <2> HIDE DEF after
  <2>2. \A i \in 1 .. k : after[i] = inputs[i + 1]  BY <1>5, <2>1
  <2>3. Len(after) >= k /\ Len(after) > 0 /\ Len(after) <= k + 1  BY <1>4, <2>1
  <2>4. generated' = generated \o after  BY <1>7 DEF after
  <2> QED  BY <2>1, <2>2, <2>3, <2>4
<1>8. \/ k > 0 /\ Last(accepted) = Stop /\ generated' = generated \o accepted
      \/ \E t \in Token : generated' = generated \o Append(accepted, t)
  BY <1>3 DEF accepted
<1> QED  BY <1>3, <1>6, <1>7, <1>8 DEF inputs

LEMMA DecideHolds ==
    ASSUME IInv, Decide
    PROVE  IInv'
<1>1. /\ pc = "decide" /\ InRound /\ request' = request /\ served' = served /\ pool' = pool
      /\ saved' = saved /\ device' = device
  BY DEF Decide, InRound
<1>2. PICK k \in 0 .. Len(round.inputs) - 1, after \in Seq(Token) :
        /\ Len(after) >= k /\ Len(after) > 0 /\ Len(after) <= k + 1
        /\ \A i \in 1 .. k : after[i] = round.inputs[i + 1]
        /\ Last(after) = Stop \/ Len(after) = k + 1
        /\ generated' = generated \o after
        /\ round' = [round EXCEPT !.accepted = k]
        /\ pc' = IF k + 1 = Len(round.inputs) THEN "realign" ELSE "restore"
  BY DecideFacts
<1> DEFINE q == round.position
           inputs == round.inputs
           N == Len(inputs)
           m == Len(request.prompt)
           b == Len(generated)
           a == Len(after)
           B == request.budget
<1>3. /\ pc # "idle" /\ RoundSound /\ DecisionSound /\ TargetSound /\ q \in Nat
      /\ m <= q /\ inputs \in Seq(Token) /\ N \in Nat /\ N > 1
      /\ q < Len(Said) /\ Said[q + 1] = inputs[1]
      /\ Mirrored(device, Said, q + 1)
      /\ saved.recurrent = SubSeq(Said, 1, q)
  BY <1>1, RoundFacts
<1>4. /\ Shapes /\ SlotSound /\ generated \in Seq(Token) /\ Said \in Seq(Letters)
      /\ Len(Said) = m + b /\ Position \in Nat
  BY <1>3, ActiveFacts
<1>5. /\ request \in Requests /\ request.prompt \in Seq(Letters) /\ m \in Nat
      /\ b \in Nat /\ B \in Nat \ {0}
  BY <1>3, <1>4, SlotFacts
<1>6. /\ served = b /\ generated # << >> /\ ~Finished /\ q = Position /\ N <= B - b
  BY <1>1, <1>3 DEF DecisionSound, Drained, Remaining
<1>7. b \in Nat \ {0} /\ q = m + b - 1 /\ q + 1 = m + b
  <2>1. b \in Nat \ {0} /\ q = m + b - 1  BY <1>4, <1>5, <1>6, PositionFacts
  <2> HIDE DEF q, m, b
  <2> QED  BY <1>5, <2>1
<1>8. /\ k \in Nat /\ k + 1 <= N /\ a \in Nat /\ a >= k /\ a > 0 /\ a <= k + 1
  BY <1>2, <1>3, LenProperties
<1>9. inputs[1] = Last(generated)
  <2>1. \A i \in 1 .. b : Said[m + i] = generated[i]  BY <1>4, <1>5, JoinFacts DEF Said
  <2>2. b \in 1 .. b  BY <1>7
  <2> QED  BY <1>3, <1>7, <2>1, <2>2 DEF Last
<1>10. /\ generated' \in Seq(Token) /\ Len(generated') = b + a
       /\ Said' = request.prompt \o (generated \o after)
       /\ Agree(Said, Said', q + 1)
       /\ q + (k + 1) <= Len(Said') /\ \A i \in 1 .. k + 1 : Said'[q + i] = inputs[i]
  <2> DEFINE n == m + b
             t == request.prompt \o (generated \o after)
  <2>1. /\ inputs \in Seq(Token) /\ k \in Nat /\ k + 1 <= Len(inputs)
        /\ inputs[1] = Last(generated) /\ Len(after) >= k
        /\ \A i \in 1 .. k : after[i] = inputs[i + 1]
    BY <1>2, <1>3, <1>8, <1>9
  <2>2. /\ generated \o after \in Seq(Token)
        /\ Len(generated \o after) = Len(generated) + Len(after)
        /\ Agree(request.prompt \o generated, t, n)
        /\ (n - 1) + (k + 1) <= Len(t)
        /\ \A i \in 1 .. k + 1 : t[(n - 1) + i] = inputs[i]
    <3> DEFINE prompt == request.prompt
               before == generated
    <3>1. /\ prompt \in Seq(Letters) /\ before \in Seq(Token) /\ before # << >>
          /\ inputs[1] = Last(before)
      BY <1>4, <1>5, <1>6, <2>1
    <3> HIDE DEF inputs, prompt, before
    <3>2. LET l == Len(prompt) + Len(before)
              u == prompt \o (before \o after)
          IN  /\ before \o after \in Seq(Token)
              /\ Len(before \o after) = Len(before) + Len(after)
              /\ Agree(prompt \o before, u, l)
              /\ (l - 1) + (k + 1) <= Len(u)
              /\ \A i \in 1 .. k + 1 : u[(l - 1) + i] = inputs[i]
      BY <2>1, <3>1, DecidedFacts
    <3> QED  BY <3>2 DEF prompt, before
  <2>3. Said' = t /\ generated' = generated \o after  BY <1>1, <1>2 DEF Said
  <2>4. n - 1 = q /\ n = q + 1  BY <1>7
  <2> HIDE DEF n, t
  <2> QED  BY <2>2, <2>3, <2>4 DEF Said, t
<1>11. /\ round'.position = q /\ round'.inputs = inputs /\ round'.accepted = k
       /\ round' = [position |-> round'.position, inputs |-> round'.inputs,
                    accepted |-> round'.accepted]
  <2>1. round = [position |-> q, inputs |-> inputs, accepted |-> round.accepted]
    BY <1>1, <1>3 DEF RoundSound
  <2>2. PICK r : r = round'  OBVIOUS
  <2>3. r = [position |-> q, inputs |-> inputs, accepted |-> k]
    <3> HIDE DEF q, inputs
    <3>1. r = [round EXCEPT !.accepted = k]  BY <1>2, <2>2
    <3> QED  BY <2>1, <3>1
  <2> QED  BY <2>2, <2>3
<1>12. pc' \in {"realign", "restore"} /\ pc' # "idle"  BY <1>2
<1>13. /\ b + a <= B /\ served \in 0 .. b + a /\ served # b + a
  <2>1. /\ N \in Nat /\ B \in Nat /\ b \in Nat /\ a \in Nat /\ served = b
        /\ N <= B - b /\ k + 1 <= N /\ a <= k + 1 /\ a > 0
    BY <1>3, <1>5, <1>6, <1>8
  <2> HIDE DEF N, m, b, a, B
  <2> QED  BY <1>8, <2>1
<1>14. Shapes'
  <2>1. generated' \in Seq(Token) /\ served' \in 0 .. Len(generated')
    BY <1>1, <1>10, <1>13
  <2>2. request' # None  BY <1>1, <1>5, Constants
  <2> QED  BY <1>1, <1>4, <1>5, <1>12, <2>1, <2>2 DEF Shapes
<1>15. SlotSound'
  BY <1>1, <1>3, <1>4, <1>10, <1>13 DEF SlotSound, Required, Reserved
<1>16. IdleSound' /\ SteadySound'  BY <1>12 DEF IdleSound, SteadySound, Steady
<1>17. Agree(Said, Said', q) /\ SubSeq(Said, 1, q) = SubSeq(Said', 1, q)
  <2>1. q \in Nat /\ q <= q + 1  BY <1>3
  <2>2. Agree(Said, Said', q + 1)  BY <1>10
  <2> HIDE DEF q
  <2> QED  BY ONLY <2>1, <2>2, AgreeFacts
<1>18. RoundSound'
  <2>1. Mirrored(device', Said', q + 1)  BY <1>1, <1>3, <1>10, SameText
  <2>2. q < Len(Said') /\ Said'[q + 1] = inputs[1]
    <3>1. 1 \in 1 .. k + 1  BY <1>8
    <3>2. Len(Said') \in Nat  BY <1>10, LenProperties DEF Agree
    <3>3. q < Len(Said')
      <4> DEFINE l == Len(Said')
      <4>1. q \in Nat /\ l \in Nat /\ q + (k + 1) <= l  BY <1>3, <1>10, <3>2
      <4> HIDE DEF q, l
      <4>2. q < l  BY <1>8, <4>1
      <4> QED  BY <4>2 DEF l
    <3> QED  BY <1>10, <3>1, <3>3
  <2>3. k \in 0 .. N - 1  BY <1>2
  <2>4. q + N <= Required(request)'
    BY <1>1, <1>3 DEF RoundSound, Required
  <2>5. saved' = [epoch |-> pool'.epoch, tokens |-> q, recurrent |-> SubSeq(Said', 1, q)]
    BY <1>1, <1>3, <1>17 DEF RoundSound
  <2> QED
    BY <1>1, <1>3, <1>11, <2>1, <2>2, <2>3, <2>4, <2>5 DEF RoundSound
<1>19. DecisionSound'
  <2>1. ~Drained'  BY <1>1, <1>10, <1>13 DEF Drained
  <2>2. q + k + 1 <= Len(Said')
    <3>1. q + (k + 1) = q + k + 1
      <4> HIDE DEF q
      <4> QED  BY <1>3, <1>8
    <3> QED  BY <1>10, <3>1
  <2>3. Finished' \/ Position' = q + k + 1
    <3>1. CASE Last(after) = Stop
      <4>1. generated' # << >>
        <5>1. b + a # 0  BY <1>7, <1>8
        <5> QED  BY <1>10, <5>1, EmptySeq
      <4>2. Last(generated') = Last(after)
        <5>1. \A i \in 1 .. b + a :
                 (generated \o after)[i] = IF i <= b THEN generated[i] ELSE after[i - b]
          BY <1>4, ConcatProperties
        <5>2. b + a \in 1 .. b + a /\ ~(b + a <= b) /\ (b + a) - b = a
          <6> HIDE DEF a, b
          <6> QED  BY <1>7, <1>8
        <5>3. (generated \o after)[b + a] = after[a]
          <6> DEFINE c == generated \o after
                     e == b + a
          <6>1. \A i \in 1 .. e : c[i] = IF i <= b THEN generated[i] ELSE after[i - b]
            BY <5>1
          <6>2. e \in 1 .. e /\ ~(e <= b) /\ e - b = a  BY <5>2
          <6> HIDE DEF c, e
          <6>3. c[e] = after[a]  BY <6>1, <6>2
          <6> QED  BY <6>3 DEF c, e
        <5> QED  BY <1>2, <1>10, <5>3 DEF Last
      <4> QED  BY <3>1, <4>1, <4>2 DEF Finished
    <3>2. CASE a = k + 1
      <4>1. Len(generated') - 1 \in Int /\ 0 \in Int /\ Len(generated') - 1 >= 0
            /\ m + (Len(generated') - 1) = q + k + 1
        <5>1. Len(generated') = b + a  BY <1>10
        <5> HIDE DEF a, b, q, m
        <5> QED  BY <1>3, <1>5, <1>7, <1>8, <3>2, <5>1
      <4>2. Max({Len(generated') - 1, 0}) = Len(generated') - 1  BY <4>1, MaxOfTwo
      <4>3. Position' = m + Max({Len(generated') - 1, 0})  BY <1>1 DEF Position
      <4> QED  BY <4>1, <4>2, <4>3
    <3> QED  BY <1>2, <3>1, <3>2
  <2> QED  BY <1>10, <1>11, <1>12, <2>1, <2>2, <2>3 DEF DecisionSound
<1>20. TargetSound'
  <2>1. pool.tokens = q + N /\ Spanned(device, Verified, q, N)
    BY <1>1, <1>3 DEF TargetSound
  <2>2. Agree(Verified, Said', q + (k + 1))
    <3> DEFINE s == Said
    <3>1. /\ s \in Seq(Letters) /\ q \in Nat /\ q <= Len(s) /\ inputs \in Seq(Token)
          /\ Verified = SubSeq(s, 1, q) \o inputs
      BY <1>3, <1>4, <1>5 DEF Verified
    <3> HIDE DEF s, q, inputs
    <3>2. LET v == SubSeq(s, 1, q) \o inputs IN
          /\ v \in Seq(Letters) /\ Len(v) = q + Len(inputs)
          /\ \A i \in 1 .. q : v[i] = s[i]
          /\ Follows(inputs, v, q)
      BY ONLY <3>1, VerifiedFacts
    <3> DEFINE v == Verified
               t == Said'
    <3>3. /\ v \in Seq(Letters) /\ Len(v) = q + N /\ \A i \in 1 .. q : v[i] = s[i]
          /\ \A i \in 1 .. N : v[q + i] = inputs[i]
      BY <3>1, <3>2 DEF Follows
    <3>4. /\ t \in Seq(Letters) /\ q + (k + 1) <= Len(t)
          /\ \A i \in 1 .. q : t[i] = s[i]
          /\ \A i \in 1 .. k + 1 : t[q + i] = inputs[i]
      BY <1>10, <1>17 DEF Agree, s
    <3> HIDE DEF v, t, N
    <3>5. ASSUME NEW i \in 1 .. q + (k + 1) PROVE v[i] = t[i]
      <4>1. CASE i <= q
        <5>1. i \in 1 .. q  BY <3>1, <4>1
        <5> QED  BY <3>3, <3>4, <5>1
      <4>2. CASE ~(i <= q)
        <5> DEFINE j == i - q
        <5>1. j \in 1 .. k + 1 /\ j \in 1 .. N /\ q + j = i  BY <1>3, <1>8, <3>1, <4>2
        <5> HIDE DEF j
        <5>2. v[q + j] = inputs[j] /\ t[q + j] = inputs[j]  BY <3>3, <3>4, <5>1
        <5> QED  BY <5>1, <5>2
      <4> QED  BY <4>1, <4>2
    <3>6. q + (k + 1) \in Nat /\ q + (k + 1) <= Len(v)  BY <1>3, <1>8, <3>1, <3>3
    <3> QED  BY <3>3, <3>4, <3>5, <3>6 DEF Agree, v, t
  <2>3. /\ Rows(device, Said', q + (k + 1))
        /\ k + 1 = N => Spanned(device, Said', q, k + 1)
    <3> DEFINE l == k + 1
    <3>1. l \in Nat /\ l <= N  BY <1>8
    <3> HIDE DEF l, N, q
    <3>2. Rows(device, Said', q + l) /\ (l = N => Spanned(device, Said', q, l))
      BY <1>3, <2>1, <2>2, <3>1, SpannedText DEF l
    <3> QED  BY <3>2 DEF l
  <2>4. CASE pc' = "realign"
    <3>1. k + 1 = N  BY <1>2, <2>4
    <3>2. pool'.tokens = q + k + 1 /\ Spanned(device', Said', q, k + 1)
      <4>1. q + N = q + k + 1
        <5> HIDE DEF q, N
        <5> QED  BY <1>3, <1>8, <3>1
      <4> QED  BY <1>1, <2>1, <2>3, <3>1, <4>1
    <3> QED  BY <1>11, <2>4, <3>2 DEF TargetSound
  <2>5. CASE pc' = "restore"
    <3>1. q <= pool'.tokens
      <4>1. pool'.tokens = q + N  BY <1>1, <2>1
      <4> HIDE DEF q, N
      <4> QED  BY <1>3, <4>1
    <3>2. Rows(device', Said', q)
      <4>1. \A p \in 0 .. q - 1 : p \in 0 .. (q + (k + 1)) - 1
        <5> HIDE DEF q
        <5> QED  BY <1>3, <1>8
      <4> QED  BY <1>1, <2>3, <4>1 DEF Rows
    <3> QED  BY <1>11, <2>5, <3>1, <3>2 DEF TargetSound
  <2> QED  BY <1>12, <2>4, <2>5
<1> QED  BY <1>14, <1>15, <1>16, <1>18, <1>19, <1>20 DEF IInv

LEMMA RestoreHolds ==
    ASSUME IInv, Restore
    PROVE  IInv'
<1>1. pc = "restore" /\ InRound  BY DEF Restore, InRound
<1> DEFINE q == round.position
<1>2. /\ pc # "idle" /\ RoundSound /\ DecisionSound /\ TargetSound /\ q \in Nat
      /\ q <= Reserved(request) /\ saved.epoch = pool.epoch /\ saved.tokens = q
      /\ saved.recurrent = SubSeq(Said, 1, q) /\ SubSeq(Said, 1, q) \in Seq(Letters)
      /\ Mirrored(device, Said, q + 1)
  BY <1>1, RoundFacts
<1>3. Shapes /\ SlotSound /\ IsDevice(device) /\ IsPool(pool) /\ Partition(pool)
  BY <1>2, ActiveFacts DEF Shapes
<1>4. /\ request \in Requests /\ Reserved(request) \in Nat /\ pool.active
      /\ Len(pool.pages) = PagesFor(Reserved(request)) /\ device.table = pool.pages
      /\ pool.tokens \in Nat
  BY <1>2, <1>3, SlotFacts
<1>5. q <= pool.tokens /\ Rows(device, Said, q)  BY <1>1, <1>2 DEF TargetSound
<1>6. Restored(pool) = [pool EXCEPT !.tokens = saved.tokens]
  BY <1>2, <1>3, <1>4, RestoreKeepsMapping
<1>7. /\ pool' = Restored(pool)
      /\ device' = [device EXCEPT !.recurrent = Rewound(device),
                                  !.table = Restored(pool).pages]
      /\ pc' = "replay" /\ request' = request /\ generated' = generated
      /\ served' = served /\ round' = round /\ saved' = saved
  <2>1. ~(pool.epoch # saved.epoch \/ pool.tokens < saved.tokens)  BY <1>2, <1>4, <1>5
  <2> QED  BY <2>1 DEF Restore
<1>8. /\ IsPool(pool') /\ Partition(pool') /\ pool'.tokens = q /\ pool'.pages = pool.pages
      /\ pool'.active = pool.active /\ pool'.epoch = pool.epoch
  <2>1. PICK r : r = pool'  OBVIOUS
  <2>2. r = [pool EXCEPT !.tokens = q]  BY <1>2, <1>6, <1>7, <2>1
  <2> HIDE DEF q
  <2>3. r = [free |-> pool.free, pages |-> pool.pages, tokens |-> q,
             active |-> pool.active, epoch |-> pool.epoch]
    BY <1>3, <2>2 DEF IsPool
  <2>4. /\ r.free = pool.free /\ r.pages = pool.pages /\ r.tokens = q
        /\ r.active = pool.active /\ r.epoch = pool.epoch
    BY <2>3
  <2>5. IsPool(r)  BY <1>2, <1>3, <2>3, <2>4 DEF IsPool
  <2>6. Partition(r)  BY <1>3, <2>4 DEF Partition
  <2> QED  BY <2>1, <2>4, <2>5, <2>6
<1>9. /\ IsDevice(device') /\ device'.table = device.table /\ device'.kv = device.kv
      /\ device'.mirror = device.mirror /\ device'.carry = device.carry
      /\ device'.recurrent = SubSeq(Said, 1, q)
  <2> DEFINE s == SubSeq(Said, 1, q)
  <2>1. Restored(pool).pages = device.table  BY <1>4, <1>7, <1>8
  <2>2. Rewound(device) = s  BY <1>2 DEF Rewound
  <2> HIDE DEF s
  <2>3. PICK e : e = device'  OBVIOUS
  <2>4. e = [device EXCEPT !.recurrent = s, !.table = device.table]
    BY <1>7, <2>1, <2>2, <2>3
  <2>5. e = [table |-> device.table, kv |-> device.kv, keys |-> device.keys,
             mirror |-> device.mirror, ring |-> device.ring, recurrent |-> s,
             carry |-> device.carry, published |-> device.published]
    BY <1>3, <2>4 DEF IsDevice
  <2>6. /\ IsDevice(e) /\ e.table = device.table /\ e.kv = device.kv
        /\ e.mirror = device.mirror /\ e.carry = device.carry /\ e.recurrent = s
    BY <2>5 DEF IsDevice
  <2> QED  BY <2>3, <2>6 DEF s
<1>10. Said' = Said /\ Position' = Position /\ Drained' = Drained /\ Finished' = Finished
       /\ Remaining' = Remaining
  BY <1>7 DEF Said, Position, Drained, Finished, Remaining
<1>11. Shapes'
  <2>1. pool'.tokens <= Mapped(pool') /\ pool'.epoch <= MaxEpoch + 1
    <3>1. Mapped(pool') = Mapped(pool)  BY <1>8 DEF Mapped
    <3>2. Mapped(pool) \in Nat /\ pool.tokens <= Mapped(pool) /\ pool.epoch <= MaxEpoch + 1
      BY <1>2, <1>3, SlotFacts DEF Shapes
    <3> QED  BY <1>2, <1>4, <1>5, <1>8, <3>1, <3>2
  <2>2. request' # None /\ pc' = "replay"  BY <1>4, <1>7, Constants
  <2>3. generated' \in Seq(Token) /\ served' \in 0 .. Len(generated')
    BY <1>3, <1>7 DEF Shapes
  <2>4. device'.recurrent \in Seq(Letters) /\ device'.carry \in Seq(Letters)
    BY <1>2, <1>3, <1>9 DEF Shapes
  <2> QED  BY <1>4, <1>7, <1>8, <1>9, <2>1, <2>2, <2>3, <2>4 DEF Shapes
<1>12. SlotSound'  BY <1>2, <1>3, <1>7, <1>8, <1>9 DEF SlotSound, Required, Reserved
<1>13. IdleSound' /\ SteadySound'  BY <1>7 DEF IdleSound, SteadySound, Steady
<1>14. RoundSound'
  <2>1. Mirrored(device', Said, q + 1)  BY <1>2, <1>9, ExactFields
  <2>2. Required(request)' = Required(request)  BY <1>7 DEF Required
  <2> QED  BY <1>1, <1>2, <1>7, <1>8, <1>10, <2>1, <2>2 DEF RoundSound
<1>15. DecisionSound'  BY <1>1, <1>2, <1>7, <1>10 DEF DecisionSound
<1>16. TargetSound'
  <2>1. Rows(device', Said, q)  BY <1>5, <1>9, ExactFields
  <2> QED  BY <1>7, <1>8, <1>9, <1>10, <2>1 DEF TargetSound, Ran
<1> QED  BY <1>11, <1>12, <1>13, <1>14, <1>15, <1>16 DEF IInv

LEMMA RealignHolds ==
    ASSUME IInv, Realign
    PROVE  IInv'
<1>1. pc = "realign" /\ InRound  BY DEF Realign, InRound
<1> DEFINE q == round.position
           k == round.accepted
           inputs == round.inputs
           N == Len(inputs)
           l == q + k + 1
<1>2. /\ pc # "idle" /\ RoundSound /\ DecisionSound /\ TargetSound /\ q \in Nat /\ k \in Nat
      /\ inputs \in Seq(Token) /\ N \in Nat /\ k + 1 <= N
      /\ l <= Mapped(pool) /\ Mapped(pool) \in Nat /\ Mirrored(device, Said, q + 1)
  BY <1>1, RoundFacts
<1>3. /\ Shapes /\ SlotSound /\ IsDevice(device) /\ generated \in Seq(Token)
      /\ served \in 0 .. Len(generated) /\ served \in Nat /\ Said \in Seq(Letters)
      /\ Len(Said) \in Nat
  BY <1>2, ActiveFacts
<1>4. /\ TableSound(device) /\ Room(device) = Mapped(pool)
      /\ Len(request.prompt) \in Nat /\ Len(generated) \in Nat
      /\ Len(generated) <= request.budget
  BY <1>2, <1>3, SlotFacts
<1>5. /\ ~Drained /\ l <= Len(Said)
      /\ \A i \in 1 .. k + 1 : Said[q + i] = inputs[i]
      /\ Finished \/ Position = l
      /\ pool.tokens = l /\ Spanned(device, Said, q, k + 1)
  BY <1>1, <1>2 DEF DecisionSound, TargetSound
<1>6. HandOut(generated, served + 1, Realigned)
  <2>1. ~(round.position + round.accepted + 1 > Mapped(pool))
    <3> HIDE DEF q, k
    <3>1. ~(q + k + 1 > Mapped(pool))  BY <1>2
    <3> QED  BY <3>1 DEF q, k
  <2> QED  BY <2>1 DEF Realign
<1> DEFINE tokens == SubSeq(inputs, 2, k + 1)
           e == DraftRows(device, q + 1, device.published, tokens)
<1>7. tokens \in Seq(Token) /\ Len(tokens) = k /\ \A i \in 1 .. k : tokens[i] = inputs[i + 1]
  <2> DEFINE o == 2
             z == k + 1
  <2>1. o \in Nat \ {0} /\ z \in Nat /\ o <= z + 1 /\ z <= Len(inputs) /\ (z - o) + 1 = k
        /\ \A i \in 1 .. k : (o + i) - 1 = i + 1
    <3> HIDE DEF k
    <3> QED  BY <1>2
  <2> HIDE DEF o, z, k, inputs
  <2>2. /\ SubSeq(inputs, o, z) \in Seq(Token) /\ Len(SubSeq(inputs, o, z)) = z - o + 1
        /\ \A i \in 1 .. z - o + 1 : SubSeq(inputs, o, z)[i] = inputs[o + i - 1]
    BY <1>2, <2>1, PartFacts
  <2>3. /\ SubSeq(inputs, o, z) \in Seq(Token) /\ Len(SubSeq(inputs, o, z)) = k
        /\ \A i \in 1 .. k : SubSeq(inputs, o, z)[i] = inputs[i + 1]
    <3>1. z - o + 1 = k  BY <2>1
    <3> DEFINE part == SubSeq(inputs, o, z)
    <3>2. \A i \in 1 .. k : part[i] = inputs[o + i - 1]  BY ONLY <2>2, <3>1
    <3>3. \A i \in 1 .. k : o + i - 1 = i + 1  BY ONLY <2>1
    <3>4. part \in Seq(Token) /\ Len(part) = k  BY ONLY <2>2, <3>1
    <3> HIDE DEF part
    <3>5. \A i \in 1 .. k : part[i] = inputs[i + 1]  BY ONLY <3>2, <3>3
    <3> QED  BY <3>4, <3>5 DEF part
  <2> QED  BY <2>3 DEF o, z
<1>8. Realigned = CarryTargetRow(e, k + 1)  BY DEF Realigned
<1> HIDE DEF q, k, inputs, N, l, tokens
<1>9. q + 1 \in Nat /\ (q + 1) + k = l /\ l \in Nat /\ q + (k + 1) = l  BY <1>2 DEF l
<1>10. /\ IsDevice(e) /\ e.table = device.table /\ e.kv = device.kv
       /\ e.recurrent = device.recurrent /\ e.published = device.published
       /\ Mirrored(e, Said, l)
  <2>1. ASSUME NEW i \in 1 .. k
        PROVE  /\ device.published[i] = SubSeq(Said, 1, q + 1 + i - 1)
               /\ tokens[i] = Said[q + 1 + i]
    <3>1. /\ i \in 1 .. k + 1 /\ i + 1 \in 1 .. k + 1 /\ q + i = q + 1 + i - 1
          /\ q + (i + 1) = q + 1 + i
      BY <1>2
    <3>2. device.published[i] = SubSeq(Said, 1, q + i)  BY <1>5, <3>1 DEF Spanned
    <3>3. tokens[i] = inputs[i + 1] /\ Said[q + (i + 1)] = inputs[i + 1]
      BY <1>5, <1>7, <3>1
    <3> QED  BY <3>1, <3>2, <3>3
  <2>2. (q + 1) + k <= Room(device)  BY <1>2, <1>4, <1>9
  <2>3. DOMAIN tokens = 1 .. k /\ k \in 0 .. k  BY <1>2, <1>7, LenProperties
  <2> DEFINE f == q + 1
             streams == device.published
  <2>4. CanDraft(device, Said, f, streams, tokens, k, k)
    BY <1>2, <1>3, <1>4, <1>9, <2>1, <2>2, <2>3 DEF CanDraft
  <2> HIDE DEF f, streams
  <2>5. LET c == DraftRows(device, f, streams, tokens) IN
        /\ IsDevice(c) /\ c.table = device.table /\ c.kv = device.kv
        /\ c.recurrent = device.recurrent /\ c.carry = device.carry
        /\ c.published = device.published /\ Mirrored(c, Said, f + k)
    BY ONLY <2>4, DraftRowsFacts
  <2>6. f + k = l  BY <1>9 DEF f
  <2> QED  BY <2>5, <2>6 DEF f, streams
<1> HIDE DEF e
<1>11. PICK d : d = CarryTargetRow(e, k + 1)  OBVIOUS
<1>12. d = [table |-> e.table, kv |-> e.kv, keys |-> e.keys, mirror |-> e.mirror,
            ring |-> e.ring, recurrent |-> e.recurrent, carry |-> e.published[k + 1],
            published |-> e.published]
  BY <1>10, <1>11 DEF CarryTargetRow, IsDevice
<1>13. /\ IsDevice(d) /\ d.table = device.table /\ d.kv = device.kv /\ d.mirror = e.mirror
       /\ d.recurrent = device.recurrent /\ d.carry = device.published[k + 1]
  BY <1>10, <1>12 DEF IsDevice
<1>14. d.carry = SubSeq(Said, 1, l) /\ d.recurrent = SubSeq(Said, 1, l)
  <2>1. k + 1 \in 1 .. k + 1  BY <1>2
  <2> QED  BY <1>5, <1>9, <1>13, <2>1 DEF Spanned, Ran
<1>15. Primed(d, Said, l)
  <2>1. Rows(device, Said, l)  BY <1>5, <1>9 DEF Spanned, Ran
  <2>2. Rows(d, Said, l)  BY <1>13, <2>1, ExactFields
  <2>3. Mirrored(d, Said, l)
    <3>1. d.table = e.table  BY <1>10, <1>13
    <3> QED  BY <1>10, <1>13, <3>1, ExactFields
  <2> QED  BY <1>14, <2>2, <2>3 DEF Primed, Ran
<1>16. SubSeq(Said, 1, l) \in Seq(Letters)  BY <1>3, <1>5, <1>9, PrefixFacts
<1>17. generated # << >> /\ served + 1 \in 0 .. Len(generated)
  <2>1. served + 1 \in 0 .. Len(generated)  BY <1>3, <1>4, <1>5 DEF Drained
  <2>2. Len(generated) # 0  BY <1>3, <1>4, <2>1
  <2> QED  BY <2>1, <2>2, EmptySeq
<1>18. CanHandOut(generated, served + 1, d)
  <2>1. ~(Last(generated) = Stop \/ Len(generated) = request.budget) => ~Finished
    BY <1>17 DEF Finished
  <2>2. Position = Len(request.prompt) + Len(generated) - 1
    BY <1>3, <1>4, <1>17, PositionFacts
  <2>3. d.recurrent \in Seq(Letters) /\ d.carry \in Seq(Letters)  BY <1>14, <1>16
  <2> QED
    BY <1>3, <1>4, <1>5, <1>13, <1>15, <1>17, <2>1, <2>2, <2>3 DEF CanHandOut, Said
<1>19. HandOut(generated, served + 1, d)  BY <1>6, <1>8, <1>11
<1> QED  BY <1>2, <1>18, <1>19, HandOutHolds

LEMMA StepHolds == IInv /\ [Next]_vars => IInv'
<1> SUFFICES ASSUME IInv, [Next]_vars PROVE IInv'  OBVIOUS
<1>1. CASE \E r \in Requests : Admit(r)  BY <1>1, AdmitHolds
<1>2. CASE \E r \in Requests : AdmitFails(r)  BY <1>2, AdmitFailsHolds
<1>3. CASE StartAnchor  BY <1>3, StartAnchorHolds
<1>4. CASE TakeQueued  BY <1>4, TakeQueuedHolds
<1>5. CASE FinalTargetStep  BY <1>5, FinalTargetStepHolds
<1>6. CASE Draft  BY <1>6, DraftHolds
<1>7. CASE Verify  BY <1>7, VerifyHolds
<1>8. CASE Decide  BY <1>8, DecideHolds
<1>9. CASE Restore  BY <1>9, RestoreHolds
<1>10. CASE Realign  BY <1>10, RealignHolds
<1>11. CASE Cancel  BY <1>11, CancelHolds
<1>12. CASE UNCHANGED vars
  BY <1>12
  DEF vars, IInv, Shapes, IdleSound, SlotSound, SteadySound, Steady, RoundSound, InRound,
      DecisionSound, TargetSound, Said, Position, Drained, Finished, Remaining, Verified,
      Required, Reserved
<1> QED
  BY <1>1, <1>2, <1>3, <1>4, <1>5, <1>6, <1>7, <1>8, <1>9, <1>10, <1>11, <1>12 DEF Next

LEMMA Invariance == Spec => []IInv
BY InitHolds, StepHolds, PTL DEF Spec

-----------------------------------------------------------------------------
(* The theorems.                                                           *)

(* Whatever is admitted, drafted, rejected, restored, cancelled or fails   *)
(* on the way, no variable leaves its type and every funded page is in the *)
(* free list or the slot's mapping, at one place of the two                *)
(* (slot_lifecycle.rs, reserve, truncate_mapping, recycle).                *)
THEOREM TypeCorrect == Spec => []TypeOK
<1>1. IInv => TypeOK
  <2> SUFFICES ASSUME IInv PROVE TypeOK  OBVIOUS
  <2>1. /\ IsPool(pool) /\ Partition(pool) /\ pool.tokens <= Mapped(pool)
        /\ pool.epoch <= MaxEpoch + 1
        /\ device.recurrent \in Seq(Letters) /\ device.carry \in Seq(Letters)
        /\ pc \in {"idle", "primed", "ready", "verify", "decide", "restore", "replay", "realign"}
        /\ request \in Requests \cup {None} /\ (request = None <=> pc = "idle")
        /\ generated \in Seq(Token) /\ served \in 0 .. Len(generated)
    BY DEF IInv, Shapes
  <2>2. Len(pool.pages) \in Nat /\ Mapped(pool) \in Nat
    <3>1. Len(pool.pages) \in Nat  BY <2>1, LenProperties DEF IsPool
    <3> QED  BY <3>1, Constants DEF Mapped
  <2>3. pool.tokens \in 0 .. Mapped(pool) /\ pool.epoch \in 0 .. MaxEpoch + 1
        /\ pool.active \in BOOLEAN
    BY <2>1, <2>2, Constants DEF IsPool
  <2>4. Contexts = Seq(Letters)  BY DEF Contexts, Letters
  <2> QED  BY <2>1, <2>3, <2>4 DEF TypeOK, Partition
<1> QED  BY Invariance, <1>1, PTL

(* Between two rounds the target is where plain decoding of the committed  *)
(* tokens would be, and no check of the engine ever fails                  *)
(* (run_speculative_round, restore_slot, admit_round).                     *)
THEOREM TargetStaysExact == Spec => []TargetIsExact
<1>1. IInv => TargetIsExact
  <2> SUFFICES ASSUME IInv PROVE TargetIsExact  OBVIOUS
  <2>1. pc # "failed"  BY DEF IInv, Shapes
  <2>2. ASSUME Steady
        PROVE  /\ pool.active /\ pool.tokens = Position
               /\ device.recurrent = Processed /\ device.carry = Processed
               /\ \A p \in 0 .. Position - 1 : device.kv[Cell(device, p)] = Prefix(p + 1)
    <3>1. pool.active  BY <2>2 DEF IInv, SlotSound, Steady
    <3>2. pool.tokens = Position /\ Primed(device, Said, Position)
      BY <2>2 DEF IInv, SteadySound
    <3> QED  BY <3>1, <3>2 DEF Primed, Ran, Rows, Said, Processed, Prefix
  <2> QED  BY <2>1, <2>2 DEF TargetIsExact
<1> QED  BY Invariance, <1>1, PTL

(* Between two rounds every row of the draft's mirror below the append     *)
(* position holds the committed token there and the target's stream row    *)
(* before it, the rows a rejected round drafted over included (prime_pair, *)
(* run_speculative_round).                                                 *)
THEOREM DraftStaysAligned == Spec => []DraftIsAligned
<1>1. IInv => DraftIsAligned
  <2> SUFFICES ASSUME IInv, Steady, NEW p \in 0 .. Position - 1
               PROVE  device.mirror[Cell(device, p)]
                        = [stream |-> Prefix(p), token |-> Prefix(p + 1)[p + 1]]
    BY DEF DraftIsAligned
  <2>1. pc # "idle"  BY DEF Steady
  <2>2. Mirrored(device, Said, Position)  BY DEF IInv, SteadySound, Primed
  <2>3. Said \in Seq(Letters) /\ Len(Said) \in Nat /\ Position \in Nat /\ Position <= Len(Said)
    BY <2>1, ActiveFacts
  <2>4. SubSeq(Said, 1, p + 1)[p + 1] = Said[p + 1]
    <3> DEFINE n == p + 1
    <3>1. n \in Nat /\ n <= Len(Said) /\ n \in 1 .. n  BY <2>3
    <3> HIDE DEF n
    <3>2. SubSeq(Said, 1, n)[n] = Said[n]  BY <2>3, <3>1, PrefixFacts
    <3> QED  BY <3>2 DEF n
  <2> QED  BY <2>2, <2>4 DEF Mirrored, Prefix, Said
<1> QED  BY Invariance, <1>1, PTL

-----------------------------------------------------------------------------
(* The output of a request.                                                *)

(* A text has its stop token at its end.                                   *)
Ended(text) == \A i \in DOMAIN text : text[i] = Stop => i = Len(text)

(* A round that commits several tokens at once generates none behind the   *)
(* stop token and none over the budget of the request (Decide, Draft).     *)
OutputEnds == request # None => Ended(generated) /\ Len(generated) <= request.budget

(* A token that was committed is never taken back or replaced, and what    *)
(* was handed out stays so, whatever a later round drafts and rejects.     *)
Stands ==
    request # None /\ request' = request =>
        /\ served <= served' /\ Len(generated) <= Len(generated')
        /\ \A i \in DOMAIN generated : generated'[i] = generated[i]
OutputStands == [][Stands]_vars

LEMMA EndedJoin ==
    ASSUME NEW s \in Seq(Token), NEW u \in Seq(Token), u # << >>,
           Ended(s), s # << >> => Last(s) # Stop, Ended(u)
    PROVE  /\ Ended(s \o u) /\ Len(s) <= Len(s \o u)
           /\ \A i \in DOMAIN s : (s \o u)[i] = s[i]
<1> DEFINE a == Len(s)
           b == Len(u)
           c == s \o u
<1>1. /\ Len(c) = a + b /\ DOMAIN c = 1 .. a + b
      /\ \A i \in 1 .. a + b : c[i] = IF i <= a THEN s[i] ELSE u[i - a]
  BY ConcatProperties
<1>2. a \in Nat /\ b \in Nat /\ b # 0 /\ DOMAIN s = 1 .. a /\ DOMAIN u = 1 .. b
  BY LenProperties, EmptySeq
<1>3. \A i \in 1 .. a : s[i] # Stop
  <2> SUFFICES ASSUME NEW i \in 1 .. a, s[i] = Stop PROVE FALSE  OBVIOUS
  <2>1. i = a  BY <1>2 DEF Ended
  <2>2. s # << >>  BY <1>2
  <2>3. s[a] # Stop  BY <2>2 DEF Last
  <2> QED  BY <2>1, <2>3
<1>4. \A i \in 1 .. b : u[i] = Stop => i = b  BY <1>2 DEF Ended
<1> HIDE DEF a, b, c
<1>5. \A i \in 1 .. a : c[i] = s[i]  BY <1>1, <1>2
<1>6. ASSUME NEW i \in 1 .. a + b, c[i] = Stop PROVE i = a + b
  <2>1. ~(i <= a)  BY <1>2, <1>3, <1>5, <1>6
  <2>2. i - a \in 1 .. b /\ c[i] = u[i - a]  BY <1>1, <1>2, <2>1
  <2>3. i - a = b  BY <1>4, <1>6, <2>2
  <2> QED  BY <1>2, <2>3
<1>7. Ended(c)  BY <1>1, <1>6 DEF Ended
<1> QED  BY <1>1, <1>2, <1>5, <1>7 DEF a, c

LEMMA EndedOne ==
    ASSUME NEW t \in Token
    PROVE  <<t>> \in Seq(Token) /\ Ended(<<t>>) /\ <<t>> # << >>
BY DEF Ended

(* What a decision commits has its stop token at its end.                  *)
LEMMA DecisionEnds ==
    ASSUME IInv, Decide
    PROVE  \E after \in Seq(Token) :
              after # << >> /\ Ended(after) /\ generated' = generated \o after
<1> DEFINE inputs == round.inputs
<1>1. inputs \in Seq(Token) /\ Len(inputs) \in Nat
  BY RoundFacts DEF Decide, InRound
<1>2. PICK k \in 0 .. Len(inputs) - 1 :
        LET accepted == SubSeq(inputs, 2, k + 1)
            stops == k > 0 /\ Last(accepted) = Stop
        IN /\ \A i \in 1 .. k - 1 : accepted[i] # Stop
           /\ \/ stops /\ generated' = generated \o accepted
              \/ ~stops /\ \E t \in Token : generated' = generated \o Append(accepted, t)
  BY DEF Decide
<1> HIDE DEF inputs
<1> DEFINE accepted == SubSeq(inputs, 2, k + 1)
<1>3. k \in Nat /\ k + 1 <= Len(inputs)  BY <1>1
<1>4. accepted \in Seq(Token) /\ Len(accepted) = k
  BY <1>1, <1>3, AcceptedFacts
<1>5. /\ \A i \in 1 .. k - 1 : accepted[i] # Stop
      /\ \/ k > 0 /\ generated' = generated \o accepted
         \/ /\ ~(k > 0 /\ Last(accepted) = Stop)
            /\ \E t \in Token : generated' = generated \o Append(accepted, t)
  BY <1>2
<1> HIDE DEF accepted
<1>6. DOMAIN accepted = 1 .. k /\ \A i \in 1 .. k : i \in 1 .. k - 1 \/ i = k
  BY <1>3, <1>4
<1>7. Ended(accepted)  BY <1>4, <1>5, <1>6 DEF Ended
<1>8. CASE k > 0 /\ generated' = generated \o accepted
  <2>1. accepted # << >>  BY <1>4, <1>8
  <2> QED  BY <1>4, <1>7, <1>8, <2>1
<1>9. ASSUME NEW t \in Token, ~(k > 0 /\ Last(accepted) = Stop),
             generated' = generated \o Append(accepted, t)
      PROVE  \E after \in Seq(Token) :
                after # << >> /\ Ended(after) /\ generated' = generated \o after
  <2>1. accepted # << >> => Last(accepted) # Stop  BY <1>3, <1>4, <1>9
  <2>2. Ended(accepted \o <<t>>)  BY <1>4, <1>7, <2>1, EndedOne, EndedJoin
  <2>3. /\ Append(accepted, t) = accepted \o <<t>>
        /\ Append(accepted, t) \in Seq(Token) /\ Append(accepted, t) # << >>
    BY <1>4
  <2> QED  BY <1>9, <2>2, <2>3
<1> QED  BY <1>5, <1>8, <1>9

LEMMA HandOutStands ==
    ASSUME IInv, NEW tokens, NEW count, NEW d, HandOut(tokens, count, d), request # None,
           Ended(tokens), served <= count, Len(generated) <= Len(tokens),
           \A i \in DOMAIN generated : tokens[i] = generated[i]
    PROVE  Ended(generated)' /\ Stands
<1>1. Ended(<< >>)  BY DEF Ended
<1>2. CASE request' = None /\ generated' = << >>
  BY <1>1, <1>2 DEF Ended, Stands
<1>3. CASE generated' = tokens /\ served' = count
  BY <1>3 DEF Ended, Stands
<1> QED  BY <1>2, <1>3 DEF HandOut, Released

LEMMA OutputStep == IInv /\ Ended(generated) /\ [Next]_vars => Ended(generated)' /\ Stands
<1> SUFFICES ASSUME IInv, Ended(generated), [Next]_vars PROVE Ended(generated)' /\ Stands
  OBVIOUS
<1>0. /\ generated \in Seq(Token) /\ Len(generated) \in Nat /\ served \in Nat
      /\ served <= Len(generated) /\ (request = None <=> pc = "idle")
  <2>1. generated \in Seq(Token) /\ served \in 0 .. Len(generated)
        /\ (request = None <=> pc = "idle")
    BY DEF IInv, Shapes
  <2> QED  BY <2>1, LenProperties
<1>1. ASSUME UNCHANGED <<generated, served>> PROVE Ended(generated)' /\ Stands
  BY <1>0, <1>1 DEF Ended, Stands
<1>2. CASE \E r \in Requests : Admit(r) \/ AdmitFails(r)
  BY <1>1, <1>2 DEF Admit, AdmitFails
<1>3. CASE StartAnchor
  <2>1. pc = "primed" /\ request # None  BY <1>0, <1>3 DEF StartAnchor
  <2>2. PICK t \in Token : HandOut(<<t>>, 1, device)  BY <1>3 DEF StartAnchor
  <2>3. generated = << >>  BY <2>1 DEF IInv, SteadySound
  <2>4. served <= 1 /\ Len(generated) <= Len(<<t>>) /\ DOMAIN generated = {}
    BY <1>0, <2>3
  <2> QED  BY <2>1, <2>2, <2>4, EndedOne, HandOutStands
<1>4. CASE TakeQueued
  <2>1. request # None /\ HandOut(generated, served + 1, device)
    BY <1>0, <1>4 DEF TakeQueued
  <2> QED  BY <1>0, <2>1, HandOutStands
<1>5. CASE FinalTargetStep
  <2>1. /\ request # None /\ ~Finished /\ generated # << >>
    BY <1>0, <1>5 DEF FinalTargetStep, IInv, SteadySound
  <2>2. Last(generated) # Stop  BY <2>1 DEF Finished
  <2>3. CASE Fails  BY <1>1, <2>3 DEF Fails
  <2>4. ASSUME NEW t \in Token, NEW d, HandOut(Append(generated, t), served + 1, d)
        PROVE  Ended(generated)' /\ Stands
    <3>1. /\ Ended(generated \o <<t>>) /\ Len(generated) <= Len(generated \o <<t>>)
          /\ \A i \in DOMAIN generated : (generated \o <<t>>)[i] = generated[i]
      BY <1>0, <2>2, EndedOne, EndedJoin
    <3>2. Append(generated, t) = generated \o <<t>>  BY <1>0
    <3>3. HandOut(generated \o <<t>>, served + 1, d)  BY <2>4, <3>2
    <3>4. served <= served + 1  BY <1>0
    <3> DEFINE tokens == generated \o <<t>>
               count == served + 1
    <3>5. /\ HandOut(tokens, count, d) /\ Ended(tokens) /\ served <= count
          /\ Len(generated) <= Len(tokens) /\ \A i \in DOMAIN generated : tokens[i] = generated[i]
      BY ONLY <3>1, <3>3, <3>4
    <3> HIDE DEF tokens, count
    <3> QED  BY ONLY IInv, <2>1, <3>5, HandOutStands
  <2> QED  BY <1>5, <2>3, <2>4 DEF FinalTargetStep
<1>6. CASE Draft \/ Verify \/ Restore
  BY <1>1, <1>6 DEF Draft, Verify, Restore, Fails
<1>7. CASE Decide
  <2>1. PICK after \in Seq(Token) :
           after # << >> /\ Ended(after) /\ generated' = generated \o after
    BY <1>7, DecisionEnds
  <2>2. pc = "decide" /\ served' = served  BY <1>7 DEF Decide
  <2>3. generated # << >> /\ ~Finished  BY <2>2 DEF IInv, DecisionSound
  <2>4. Last(generated) # Stop  BY <2>3 DEF Finished
  <2>5. /\ Ended(generated \o after) /\ Len(generated) <= Len(generated \o after)
        /\ \A i \in DOMAIN generated : (generated \o after)[i] = generated[i]
    BY <1>0, <2>1, <2>4, EndedJoin
  <2> QED  BY <1>0, <2>1, <2>2, <2>5 DEF Stands, Ended
<1>8. CASE Realign
  <2>1. request # None  BY <1>0, <1>8 DEF Realign
  <2>2. CASE Fails  BY <1>1, <2>2 DEF Fails
  <2>3. CASE HandOut(generated, served + 1, Realigned)
    BY <1>0, <2>1, <2>3, HandOutStands
  <2> QED  BY <1>8, <2>2, <2>3 DEF Realign
<1>9. CASE Cancel
  <2>1. generated' = << >> /\ request' = None /\ Ended(<< >>)
    BY <1>9 DEF Cancel, Released, Ended
  <2> QED  BY <2>1 DEF Stands, Ended
<1>10. CASE UNCHANGED vars  BY <1>1, <1>10 DEF vars
<1> QED  BY <1>2, <1>3, <1>4, <1>5, <1>6, <1>7, <1>8, <1>9, <1>10 DEF Next

LEMMA EndedAlways == Spec => []Ended(generated)
<1>1. Init => Ended(generated)  BY DEF Init, Idle, Ended
<1> QED  BY <1>1, Invariance, OutputStep, PTL DEF Spec

(* No token is generated behind the stop token or over the budget, though  *)
(* a round commits up to DRAFT_WINDOW + 1 at once (OutputEnds).            *)
THEOREM OutputsEnd == Spec => []OutputEnds
<1>1. IInv /\ Ended(generated) => OutputEnds
  <2> SUFFICES ASSUME IInv, Ended(generated), request # None
               PROVE  Len(generated) <= request.budget
    BY DEF OutputEnds
  <2> QED  BY DEF IInv, Shapes, SlotSound
<1> QED  BY <1>1, Invariance, EndedAlways, PTL

(* No committed token is taken back (OutputStands).                        *)
THEOREM OutputsStand == Spec => OutputStands
<1>1. IInv /\ Ended(generated) /\ [Next]_vars => [Stands]_vars  BY OutputStep
<1> QED  BY <1>1, Invariance, EndedAlways, PTL DEF Spec, OutputStands
=============================================================================
