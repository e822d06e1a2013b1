------------------------ MODULE MtpScheduler_proofs ------------------------
(***************************************************************************)
(* Safety of MtpScheduler for any number of slots and pages, any window    *)
(* and any chats: types, the state of running and retained slots, the      *)
(* books, the rows reserved for a round and the honesty of a refusal.      *)
(***************************************************************************)
EXTENDS MtpScheduler, FiniteSetTheorems, SequenceTheorems, TLAPS

-----------------------------------------------------------------------------
(* The inductive invariant.                                                *)

(* The device state of a running request is exactly that of the tokens it  *)
(* has processed, its row has the positions it required, and until it ends *)
(* it has generated no stop token.                                         *)
RunsExactly(s) ==
    LET x == session[s]
        all == x.prompt \o x.generated
    IN  /\ x.generated \in Seq(Text)
        /\ x.position = IF x.generated = << >> THEN Len(x.prompt) ELSE Len(all) - 1
        /\ pool[s] = [state |-> "Active", tokens |-> Len(x.prompt) + x.budget - 1]
        /\ device[s].kv = Processed(x)
        /\ device[s].gdn = Processed(x)
        /\ device[s].hidden = Processed(x)
        /\ device[s].mtp = Tail(all)
        /\ snapshot[s] = SubSeq(x.prompt, 1, x.boundary)

(* A prefix ends at its message boundary, or it is a chat with the answer  *)
(* generated so far.                                                       *)
OpenOrCut(x) ==
    \/ x.boundary = Len(x.tokens)
    \/ \E q \in Requests, g \in Seq(Text) :
          x.tokens = q.prompt \o g /\ x.boundary = q.boundary

(* What a slot without a request keeps is the state of its prefix; K/V and *)
(* draft rows behind the prefix may be there and mean nothing.             *)
KeptExactly(s) ==
    LET x == retained[s] IN
    /\ IsPrefix(x.tokens, device[s].kv)
    /\ device[s].gdn = x.tokens
    /\ device[s].hidden = x.tokens
    /\ IsPrefix(Tail(x.tokens), device[s].mtp)
    /\ pool[s] = [state |-> "Retained", tokens |-> Len(x.tokens)]
    /\ snapshot[s] = SubSeq(x.tokens, 1, x.boundary)
    /\ OpenOrCut(x)

(* No slot is listed twice, neither as running nor as kept.                *)
Distinct(seq) == \A i, j \in DOMAIN seq : seq[i] = seq[j] => i = j

Books ==
    /\ Running \cap Held = {}
    /\ ToSet(active) = Running /\ Distinct(active)
    /\ ToSet(order) = Held /\ Distinct(order)
    /\ \A s \in Slots :
          /\ pool[s].state = "Retained" <=> s \in Held
          /\ pool[s].state = "Vacant" => pool[s].tokens = 0
    /\ FreePages(pool) >= 0

IInv ==
    /\ TypeOK
    /\ \A s \in Running : RunsExactly(s)
    /\ \A s \in Held : KeptExactly(s)
    /\ Books
    /\ RefusalIsHonest

-----------------------------------------------------------------------------
(* Sequences: what is cut off and glued together again.                    *)

LEMMA Cut ==
    ASSUME NEW T, NEW s \in Seq(T), NEW n \in 0 .. Len(s)
    PROVE  /\ SubSeq(s, 1, n) \in Seq(T)
           /\ Len(SubSeq(s, 1, n)) = n
           /\ \A i \in 1 .. n : SubSeq(s, 1, n)[i] = s[i]
<1>1. Len(s) \in Nat /\ \A i \in 1 .. n : s[i] \in T  BY LenProperties, ElementOfSeq
<1>2. /\ SubSeq(s, 1, n) \in Seq(T)
      /\ Len(SubSeq(s, 1, n)) = IF 1 <= n THEN n - 1 + 1 ELSE 0
      /\ \A i \in 1 .. n - 1 + 1 : SubSeq(s, 1, n)[i] = s[1 + i - 1]
  BY <1>1, SubSeqProperties
<1> QED  BY <1>1, <1>2

LEMMA Rest ==
    ASSUME NEW T, NEW s \in Seq(T), NEW n \in 0 .. Len(s)
    PROVE  /\ SubSeq(s, n + 1, Len(s)) \in Seq(T)
           /\ Len(SubSeq(s, n + 1, Len(s))) = Len(s) - n
           /\ \A i \in 1 .. Len(s) - n : SubSeq(s, n + 1, Len(s))[i] = s[n + i]
<1>1. Len(s) \in Nat /\ \A i \in n + 1 .. Len(s) : s[i] \in T  BY LenProperties, ElementOfSeq
<1>2. /\ SubSeq(s, n + 1, Len(s)) \in Seq(T)
      /\ Len(SubSeq(s, n + 1, Len(s))) = IF n + 1 <= Len(s) THEN Len(s) - (n + 1) + 1 ELSE 0
      /\ \A i \in 1 .. Len(s) - (n + 1) + 1 : SubSeq(s, n + 1, Len(s))[i] = s[n + 1 + i - 1]
  BY <1>1, SubSeqProperties
<1> QED  BY <1>1, <1>2

(* A prefix, entry by entry.                                               *)
LEMMA PrefixMeans ==
    ASSUME NEW T, NEW s \in Seq(T), NEW t \in Seq(T)
    PROVE  IsPrefix(s, t) <=>
             Len(s) <= Len(t) /\ \A i \in 1 .. Len(s) : s[i] = t[i]
<1>1. Len(s) \in Nat /\ Len(t) \in Nat  BY LenProperties
<1>2. CASE Len(s) <= Len(t)
  <2>1. /\ SubSeq(t, 1, Len(s)) \in Seq(T) /\ Len(SubSeq(t, 1, Len(s))) = Len(s)
        /\ \A i \in 1 .. Len(s) : SubSeq(t, 1, Len(s))[i] = t[i]
    BY <1>1, <1>2, Cut
  <2>2. SubSeq(s, 1, Len(s)) = s  BY SubSeqFull
  <2>3. s = SubSeq(t, 1, Len(s)) <=> \A i \in 1 .. Len(s) : s[i] = t[i]
    BY <2>1, SeqEqual
  <2> QED  BY <1>2, <2>2, <2>3 DEF IsPrefix
<1> QED  BY <1>2 DEF IsPrefix

LEMMA PrefixIsCut ==
    ASSUME NEW T, NEW s \in Seq(T), NEW t \in Seq(T), IsPrefix(s, t)
    PROVE  Len(s) \in 0 .. Len(t) /\ s = SubSeq(t, 1, Len(s))
BY SubSeqFull, LenProperties DEF IsPrefix

LEMMA CutIsPrefix ==
    ASSUME NEW T, NEW s \in Seq(T), NEW n \in 0 .. Len(s)
    PROVE  IsPrefix(SubSeq(s, 1, n), s)
<1>1. Len(s) \in Nat  BY LenProperties
<1> DEFINE c == SubSeq(s, 1, n)
<1>2. c \in Seq(T) /\ Len(c) = n /\ \A i \in 1 .. n : c[i] = s[i]  BY Cut
<1> HIDE DEF c
<1>3. Len(c) <= Len(s) /\ \A i \in 1 .. Len(c) : c[i] = s[i]  BY <1>1, <1>2
<1>4. IsPrefix(c, s)  BY <1>2, <1>3, PrefixMeans
<1> QED  BY <1>4 DEF c

LEMMA PrefixOfPrefix ==
    ASSUME NEW T, NEW s \in Seq(T), NEW t \in Seq(T), NEW u \in Seq(T),
           IsPrefix(s, t), IsPrefix(t, u)
    PROVE  IsPrefix(s, u)
<1>1. Len(s) \in Nat /\ Len(t) \in Nat /\ Len(u) \in Nat  BY LenProperties
<1>2. Len(s) <= Len(t) /\ \A i \in 1 .. Len(s) : s[i] = t[i]  BY PrefixMeans
<1>3. Len(t) <= Len(u) /\ \A i \in 1 .. Len(t) : t[i] = u[i]  BY PrefixMeans
<1>4. Len(s) <= Len(u) /\ \A i \in 1 .. Len(s) : s[i] = u[i]  BY <1>1, <1>2, <1>3
<1> QED  BY <1>4, PrefixMeans

LEMMA CutPrefix ==
    ASSUME NEW T, NEW s \in Seq(T), NEW t \in Seq(T), IsPrefix(s, t),
           NEW n \in 0 .. Len(s)
    PROVE  n \in 0 .. Len(t) /\ SubSeq(s, 1, n) = SubSeq(t, 1, n)
<1>1. Len(s) \in Nat /\ Len(t) \in Nat  BY LenProperties
<1>2. Len(s) <= Len(t) /\ \A i \in 1 .. Len(s) : s[i] = t[i]  BY PrefixMeans
<1>3. n \in 0 .. Len(t)  BY <1>1, <1>2
<1>4. /\ SubSeq(s, 1, n) \in Seq(T) /\ Len(SubSeq(s, 1, n)) = n
      /\ \A i \in 1 .. n : SubSeq(s, 1, n)[i] = s[i]
  BY Cut
<1>5. /\ SubSeq(t, 1, n) \in Seq(T) /\ Len(SubSeq(t, 1, n)) = n
      /\ \A i \in 1 .. n : SubSeq(t, 1, n)[i] = t[i]
  BY <1>3, Cut
<1>6. \A i \in 1 .. n : SubSeq(s, 1, n)[i] = SubSeq(t, 1, n)[i]
  BY <1>1, <1>2, <1>4, <1>5
<1> QED  BY <1>3, <1>4, <1>5, <1>6, SeqEqual

LEMMA ConcatIsLonger ==
    ASSUME NEW T, NEW s \in Seq(T), NEW t \in Seq(T)
    PROVE  /\ s \o t \in Seq(T) /\ Len(s \o t) = Len(s) + Len(t)
           /\ IsPrefix(s, s \o t)
           /\ SubSeq(s \o t, 1, Len(s)) = s
<1>1. Len(s) \in Nat /\ Len(t) \in Nat  BY LenProperties
<1>2. /\ s \o t \in Seq(T) /\ Len(s \o t) = Len(s) + Len(t)
      /\ \A i \in 1 .. Len(s) + Len(t) :
           (s \o t)[i] = IF i <= Len(s) THEN s[i] ELSE t[i - Len(s)]
  BY ConcatProperties
<1>5. Len(s) <= Len(s \o t) /\ \A i \in 1 .. Len(s) : s[i] = (s \o t)[i]  BY <1>1, <1>2
<1>3. IsPrefix(s, s \o t)
  <2> DEFINE c == s \o t
  <2>1. c \in Seq(T) /\ Len(s) <= Len(c) /\ \A i \in 1 .. Len(s) : s[i] = c[i]
    BY <1>2, <1>5
  <2> HIDE DEF c
  <2>2. IsPrefix(s, c)  BY <2>1, PrefixMeans
  <2> QED  BY <2>2 DEF c
<1>4. SubSeq(s \o t, 1, Len(s)) = s  BY <1>2, <1>3, PrefixIsCut
<1> QED  BY <1>2, <1>3, <1>4

LEMMA Glue ==
    ASSUME NEW T, NEW s \in Seq(T), NEW n \in 0 .. Len(s)
    PROVE  SubSeq(s, 1, n) \o SubSeq(s, n + 1, Len(s)) = s
<1>1. Len(s) \in Nat  BY LenProperties
<1>2. SubSeq(s, 1, n) \o SubSeq(s, n + 1, Len(s)) = SubSeq(s, 1, Len(s))
  <2>1. 1 \in 1 .. Len(s) + 1 /\ n \in 1 - 1 .. Len(s) /\ Len(s) \in n .. Len(s)
    BY <1>1
  <2> QED  BY <2>1, ConcatAdjacentSubSeq
<1> QED  BY <1>2, SubSeqFull

LEMMA TailMeans ==
    ASSUME NEW T, NEW s \in Seq(T), s # << >>
    PROVE  /\ Len(s) \in Nat \ {0}
           /\ Tail(s) \in Seq(T) /\ Len(Tail(s)) = Len(s) - 1
           /\ \A i \in 1 .. Len(s) - 1 : Tail(s)[i] = s[i + 1]
BY HeadTailProperties, EmptySeq

(* The rows after the first, filled up to n and then from n on.            *)
LEMMA TailGlue ==
    ASSUME NEW T, NEW s \in Seq(T), NEW n \in 1 .. Len(s)
    PROVE  /\ SubSeq(Tail(s), 1, n - 1) \o SubSeq(s, n + 1, Len(s)) = Tail(s)
           /\ Tail(SubSeq(s, 1, n)) = SubSeq(Tail(s), 1, n - 1)
           /\ SubSeq(s, 1, n) # << >>
<1>1. Len(s) \in Nat /\ s # << >>  BY LenProperties, EmptySeq
<1> DEFINE t == Tail(s)
<1>2. /\ t \in Seq(T) /\ Len(t) = Len(s) - 1
      /\ \A i \in 1 .. Len(s) - 1 : t[i] = s[i + 1]
  BY <1>1, TailMeans
<1> HIDE DEF t
<1> DEFINE a == SubSeq(t, 1, n - 1)  b == SubSeq(s, n + 1, Len(s))
<1>3. a \in Seq(T) /\ Len(a) = n - 1 /\ \A i \in 1 .. n - 1 : a[i] = t[i]
  BY <1>1, <1>2, Cut
<1>4. b \in Seq(T) /\ Len(b) = Len(s) - n /\ \A i \in 1 .. Len(s) - n : b[i] = s[n + i]
  BY <1>1, Rest
<1> HIDE DEF a, b
<1>5. /\ a \o b \in Seq(T) /\ Len(a \o b) = Len(a) + Len(b)
      /\ \A i \in 1 .. Len(a) + Len(b) :
           (a \o b)[i] = IF i <= Len(a) THEN a[i] ELSE b[i - Len(a)]
  BY <1>3, <1>4, ConcatProperties
<1>6. Len(a \o b) = Len(t)  BY <1>1, <1>2, <1>3, <1>4, <1>5
<1>7. \A i \in 1 .. Len(t) : (a \o b)[i] = t[i]
  <2> SUFFICES ASSUME NEW i \in 1 .. Len(t) PROVE (a \o b)[i] = t[i]  OBVIOUS
  <2>1. (a \o b)[i] = IF i <= Len(a) THEN a[i] ELSE b[i - Len(a)]  BY <1>5, <1>6
  <2>2. CASE i <= n - 1  BY <1>1, <1>2, <1>3, <2>1, <2>2
  <2>3. CASE ~(i <= n - 1)
    <3>1. i - (n - 1) \in 1 .. Len(s) - n  BY <1>1, <1>2, <2>3
    <3>2. b[i - (n - 1)] = s[n + (i - (n - 1))]  BY <1>4, <3>1
    <3>3. n + (i - (n - 1)) = i + 1  BY <1>1, <1>2
    <3>4. t[i] = s[i + 1]  BY <1>1, <1>2
    <3> QED  BY <1>3, <2>1, <2>3, <3>2, <3>3, <3>4
  <2> QED  BY <2>2, <2>3
<1>8. a \o b = t  BY <1>2, <1>5, <1>6, <1>7, SeqEqual
<1> DEFINE c == SubSeq(s, 1, n)
<1>9. c \in Seq(T) /\ Len(c) = n /\ \A i \in 1 .. n : c[i] = s[i]  BY <1>1, Cut
<1>10. c # << >>  BY <1>9, EmptySeq
<1>11. /\ Tail(c) \in Seq(T) /\ Len(Tail(c)) = n - 1
       /\ \A i \in 1 .. n - 1 : Tail(c)[i] = c[i + 1]
  BY <1>9, <1>10, TailMeans
<1>12. \A i \in 1 .. n - 1 : Tail(c)[i] = a[i]
  <2> SUFFICES ASSUME NEW i \in 1 .. n - 1 PROVE Tail(c)[i] = a[i]  OBVIOUS
  <2>1. i + 1 \in 1 .. n /\ i \in 1 .. Len(s) - 1  BY <1>1
  <2> QED  BY <1>2, <1>3, <1>9, <1>11, <2>1
<1>13. Tail(c) = a  BY <1>3, <1>11, <1>12, SeqEqual
<1> QED  BY <1>8, <1>10, <1>13 DEF a, b, c, t

LEMMA TailConcat ==
    ASSUME NEW T, NEW s \in Seq(T), NEW t \in Seq(T), s # << >>
    PROVE  Tail(s \o t) = Tail(s) \o t
<1>1. Len(s) \in Nat \ {0} /\ Len(t) \in Nat  BY LenProperties, EmptySeq
<1>2. /\ s \o t \in Seq(T) /\ Len(s \o t) = Len(s) + Len(t)
      /\ \A i \in 1 .. Len(s) + Len(t) :
           (s \o t)[i] = IF i <= Len(s) THEN s[i] ELSE t[i - Len(s)]
  BY ConcatProperties
<1>3. s \o t # << >>  BY <1>1, <1>2, EmptySeq
<1>4. /\ Tail(s \o t) \in Seq(T) /\ Len(Tail(s \o t)) = Len(s) + Len(t) - 1
      /\ \A i \in 1 .. Len(s) + Len(t) - 1 : Tail(s \o t)[i] = (s \o t)[i + 1]
  BY <1>2, <1>3, TailMeans
<1>5. /\ Tail(s) \in Seq(T) /\ Len(Tail(s)) = Len(s) - 1
      /\ \A i \in 1 .. Len(s) - 1 : Tail(s)[i] = s[i + 1]
  BY TailMeans
<1>6. /\ Tail(s) \o t \in Seq(T) /\ Len(Tail(s) \o t) = Len(s) - 1 + Len(t)
      /\ \A i \in 1 .. Len(s) - 1 + Len(t) :
           (Tail(s) \o t)[i] = IF i <= Len(s) - 1 THEN Tail(s)[i] ELSE t[i - (Len(s) - 1)]
  BY <1>5, ConcatProperties
<1>7. \A i \in 1 .. Len(s) + Len(t) - 1 : Tail(s \o t)[i] = (Tail(s) \o t)[i]
  <2> SUFFICES ASSUME NEW i \in 1 .. Len(s) + Len(t) - 1
               PROVE  Tail(s \o t)[i] = (Tail(s) \o t)[i]
    OBVIOUS
  <2>1. Tail(s \o t)[i] = IF i + 1 <= Len(s) THEN s[i + 1] ELSE t[i + 1 - Len(s)]
    BY <1>1, <1>2, <1>4
  <2>2. (Tail(s) \o t)[i] = IF i <= Len(s) - 1 THEN Tail(s)[i] ELSE t[i - (Len(s) - 1)]
    BY <1>1, <1>6
  <2>3. i + 1 - Len(s) = i - (Len(s) - 1) /\ (i + 1 <= Len(s) <=> i <= Len(s) - 1)
    BY <1>1
  <2>4. i <= Len(s) - 1 => Tail(s)[i] = s[i + 1]  BY <1>1, <1>5
  <2> QED  BY <2>1, <2>2, <2>3, <2>4
<1> QED  BY <1>1, <1>4, <1>6, <1>7, SeqEqual

-----------------------------------------------------------------------------
(* Least elements, and lists from which some slots are removed.            *)

LEMMA Least ==
    ASSUME NEW S \in SUBSET Nat, S # {}
    PROVE  \E m \in S : \A n \in S : m <= n
<1>1. \E m \in S : \A n \in S : ~(<<n, m>> \in OpToRel(<, Nat))
  BY WFMin, NatLessThanWellFounded, Zenon
<1>2. PICK m \in S : \A n \in S : ~(<<n, m>> \in OpToRel(<, Nat))  BY <1>1
<1>3. \A n \in S : ~(n < m)
  <2> SUFFICES ASSUME NEW n \in S, n < m PROVE FALSE  OBVIOUS
  <2>1. <<n, m>> \in Nat \X Nat /\ <<n, m>>[1] < <<n, m>>[2]  OBVIOUS
  <2>2. <<n, m>> \in OpToRel(<, Nat)  BY <2>1, Zenon DEF OpToRel
  <2> QED  BY <1>2, <2>2
<1> QED  BY <1>3

LEMMA MinIsLeast ==
    ASSUME NEW S \in SUBSET Nat, S # {}
    PROVE  Min(S) \in S /\ \A n \in S : Min(S) <= n
BY Least DEF Min

(* The definition of Without is by recursion on the index; the recursion   *)
(* has a solution.                                                         *)
LEMMA WithoutIsDefined ==
    ASSUME NEW T, NEW seq \in Seq(T), NEW S
    PROVE  \E kept :
             /\ kept = [i \in 0 .. Len(seq) |->
                          IF i = 0 THEN << >>
                          ELSE IF seq[i] \in S THEN kept[i - 1]
                          ELSE Append(kept[i - 1], seq[i])]
             /\ Without(seq, S) = kept[Len(seq)]
<1> DEFINE Upto(n) ==
      \E k : k = [i \in 0 .. n |-> IF i = 0 THEN << >>
                                   ELSE IF seq[i] \in S THEN k[i - 1]
                                   ELSE Append(k[i - 1], seq[i])]
<1>1. Upto(0)
  <2> DEFINE k == [i \in 0 .. 0 |-> << >>]
  <2>1. k = [i \in 0 .. 0 |-> IF i = 0 THEN << >>
                              ELSE IF seq[i] \in S THEN k[i - 1]
                              ELSE Append(k[i - 1], seq[i])]
    OBVIOUS
  <2> QED  BY <2>1
<1>2. ASSUME NEW n \in Nat, Upto(n) PROVE Upto(n + 1)
  <2>1. PICK k : k = [i \in 0 .. n |-> IF i = 0 THEN << >>
                                       ELSE IF seq[i] \in S THEN k[i - 1]
                                       ELSE Append(k[i - 1], seq[i])]
    BY <1>2
  <2> DEFINE l == [i \in 0 .. n + 1 |->
                     IF i <= n THEN k[i]
                     ELSE IF seq[n + 1] \in S THEN k[n]
                     ELSE Append(k[n], seq[n + 1])]
  <2>2. ASSUME NEW i \in 0 .. n + 1
        PROVE  l[i] = IF i = 0 THEN << >>
                      ELSE IF seq[i] \in S THEN l[i - 1]
                      ELSE Append(l[i - 1], seq[i])
    <3>1. CASE i = 0  BY <2>1, <3>1
    <3>2. CASE i \in 1 .. n
      <4>1. l[i] = k[i] /\ l[i - 1] = k[i - 1]  BY <3>2
      <4>3. i \in 0 .. n /\ i # 0  BY <3>2
      <4>2. k[i] = IF seq[i] \in S THEN k[i - 1] ELSE Append(k[i - 1], seq[i])
        <5> DEFINE e(j) == IF j = 0 THEN << >>
                           ELSE IF seq[j] \in S THEN k[j - 1]
                           ELSE Append(k[j - 1], seq[j])
        <5>1. k = [j \in 0 .. n |-> e(j)]  BY <2>1
        <5> HIDE DEF e
        <5>2. k[i] = e(i)  BY <4>3, <5>1
        <5> QED  BY <4>3, <5>2 DEF e
      <4> QED  BY <3>2, <4>1, <4>2
    <3>3. CASE i = n + 1
      <4>1. l[i - 1] = k[n]  BY <3>3
      <4>2. l[i] = IF seq[n + 1] \in S THEN k[n] ELSE Append(k[n], seq[n + 1])  BY <3>3
      <4> QED  BY <3>3, <4>1, <4>2
    <3> QED  BY <3>1, <3>2, <3>3
  <2> HIDE DEF l
  <2>3. DOMAIN l = 0 .. n + 1 /\ l = [i \in 0 .. n + 1 |-> l[i]]  BY DEF l
  <2>4. l = [i \in 0 .. n + 1 |-> IF i = 0 THEN << >>
                                  ELSE IF seq[i] \in S THEN l[i - 1]
                                  ELSE Append(l[i - 1], seq[i])]
    BY <2>2, <2>3
  <2> QED  BY <2>4
<1> HIDE DEF Upto
<1>3. \A n \in Nat : Upto(n)
  <2> DEFINE Bad == { n \in Nat : ~Upto(n) }
  <2> SUFFICES ASSUME Bad # {} PROVE FALSE  OBVIOUS
  <2>1. PICK m \in Bad : \A n \in Bad : m <= n  BY Least
  <2>2. m # 0 /\ m - 1 \in Nat /\ (m - 1) + 1 = m  BY <1>1, <2>1
  <2>3. Upto(m - 1)  BY <2>1, <2>2
  <2> QED  BY <1>2, <2>1, <2>2, <2>3
<1>4. Upto(Len(seq))  BY <1>3, LenProperties
<1> DEFINE f[i \in 0 .. Len(seq)] == IF i = 0 THEN << >>
                                     ELSE IF seq[i] \in S THEN f[i - 1]
                                     ELSE Append(f[i - 1], seq[i])
<1>5. f = [i \in 0 .. Len(seq) |-> IF i = 0 THEN << >>
                                     ELSE IF seq[i] \in S THEN f[i - 1]
                                     ELSE Append(f[i - 1], seq[i])]
  BY <1>4 DEF Upto
<1>6. Without(seq, S) = f[Len(seq)]  BY DEF Without
<1> HIDE DEF f
<1> QED  BY <1>5, <1>6

(* What is left of a list: the entries outside S, none twice that was not. *)
LEMMA WithoutKeeps ==
    ASSUME NEW T, NEW seq \in Seq(T), NEW S
    PROVE  /\ Without(seq, S) \in Seq(T)
           /\ ToSet(Without(seq, S)) = ToSet(seq) \ S
           /\ Distinct(seq) => Distinct(Without(seq, S))
<1> DEFINE N == Len(seq)
<1>1. N \in Nat /\ DOMAIN seq = 1 .. N /\ \A i \in 1 .. N : seq[i] \in T
  BY LenProperties, ElementOfSeq
<1>2. PICK kept :
        /\ kept = [i \in 0 .. N |-> IF i = 0 THEN << >>
                                    ELSE IF seq[i] \in S THEN kept[i - 1]
                                    ELSE Append(kept[i - 1], seq[i])]
        /\ Without(seq, S) = kept[N]
  BY WithoutIsDefined
<1> DEFINE Sound(n) == /\ kept[n] \in Seq(T)
                       /\ ToSet(kept[n]) = { seq[i] : i \in 1 .. n } \ S
                       /\ Distinct(seq) => Distinct(kept[n])
<1>3. Sound(0)
  <2>1. kept[0] = << >>  BY <1>1, <1>2
  <2>2. << >> \in Seq(T) /\ DOMAIN << >> = {}  BY EmptySeq
  <2>3. ToSet(<< >>) = {} /\ Distinct(<< >>)  BY <2>2 DEF ToSet, Distinct
  <2> QED  BY <2>1, <2>2, <2>3
<1>4. ASSUME NEW n \in 0 .. N - 1, Sound(n) PROVE Sound(n + 1)
  <2>1. n + 1 \in 1 .. N /\ n \in Nat /\ (n + 1) - 1 = n /\ n + 1 # 0  BY <1>1
  <2>2. kept[n + 1] = IF seq[n + 1] \in S THEN kept[n] ELSE Append(kept[n], seq[n + 1])
    <3> DEFINE e(j) == IF j = 0 THEN << >>
                       ELSE IF seq[j] \in S THEN kept[j - 1]
                       ELSE Append(kept[j - 1], seq[j])
    <3>1. kept = [j \in 0 .. N |-> e(j)]  BY <1>2
    <3> HIDE DEF e
    <3>2. n + 1 \in 0 .. N  BY <1>1, <2>1
    <3>3. kept[n + 1] = e(n + 1)  BY <3>1, <3>2
    <3> QED  BY <2>1, <3>3 DEF e
  <2>3. { seq[i] : i \in 1 .. n + 1 } = { seq[i] : i \in 1 .. n } \cup {seq[n + 1]}
    BY <2>1
  <2>4. CASE seq[n + 1] \in S  BY <1>4, <2>2, <2>3, <2>4
  <2>5. CASE seq[n + 1] \notin S
    <3> DEFINE e == seq[n + 1]  k == kept[n]  l == Append(k, e)
    <3>1. k \in Seq(T) /\ e \in T  BY <1>1, <1>4, <2>1
    <3>2. Len(k) \in Nat /\ DOMAIN k = 1 .. Len(k)  BY <3>1, LenProperties
    <3>3. /\ l \in Seq(T) /\ Len(l) = Len(k) + 1
          /\ \A i \in 1 .. Len(k) : l[i] = k[i]
          /\ l[Len(k) + 1] = e
      BY <3>1, AppendProperties
    <3>4. DOMAIN l = 1 .. Len(k) + 1  BY <3>3, LenProperties
    <3> HIDE DEF l
    <3>5. ToSet(l) = ToSet(k) \cup {e}
      <4>1. \A i \in 1 .. Len(k) + 1 : i \in 1 .. Len(k) \/ i = Len(k) + 1  BY <3>2
      <4>2. 1 .. Len(k) \subseteq 1 .. Len(k) + 1 /\ Len(k) + 1 \in 1 .. Len(k) + 1
        BY <3>2
      <4> QED  BY <3>2, <3>3, <3>4, <4>1, <4>2 DEF ToSet
    <3>6. ToSet(l) = { seq[i] : i \in 1 .. n + 1 } \ S  BY <1>4, <2>3, <2>5, <3>5
    <3>7. ASSUME Distinct(seq) PROVE Distinct(l)
      <4>1. Distinct(k)  BY <1>4, <3>7
      <4>2. \A i \in 1 .. Len(k) : k[i] # e
        <5> SUFFICES ASSUME NEW i \in 1 .. Len(k), k[i] = e PROVE FALSE  OBVIOUS
        <5>1. k[i] \in ToSet(k)  BY <3>2 DEF ToSet
        <5>2. PICK j \in 1 .. n : seq[j] = e  BY <1>4, <5>1
        <5>3. j \in 1 .. N /\ j # n + 1  BY <1>1, <2>1
        <5> QED  BY <1>1, <2>1, <3>7, <5>2, <5>3 DEF Distinct
      <4>3. ASSUME NEW i \in 1 .. Len(k) + 1, NEW j \in 1 .. Len(k) + 1, l[i] = l[j]
            PROVE  i = j
        <5>1. CASE i \in 1 .. Len(k) /\ j \in 1 .. Len(k)
          BY <3>2, <3>3, <4>1, <4>3, <5>1 DEF Distinct
        <5>2. CASE i = Len(k) + 1 /\ j = Len(k) + 1  BY <5>2
        <5>3. CASE i \in 1 .. Len(k) /\ j = Len(k) + 1  BY <3>3, <4>2, <4>3, <5>3
        <5>4. CASE i = Len(k) + 1 /\ j \in 1 .. Len(k)  BY <3>3, <4>2, <4>3, <5>4
        <5> QED  BY <3>2, <5>1, <5>2, <5>3, <5>4
      <4> QED  BY <3>4, <4>3 DEF Distinct
    <3>8. kept[n + 1] = l  BY <2>2, <2>5 DEF l
    <3> QED  BY <3>3, <3>6, <3>7, <3>8
  <2> QED  BY <2>4, <2>5
<1> HIDE DEF Sound
<1>5. \A n \in 0 .. N : Sound(n)
  <2> DEFINE Bad == { n \in 0 .. N : ~Sound(n) }
  <2> SUFFICES ASSUME Bad # {} PROVE FALSE  OBVIOUS
  <2>0. Bad \in SUBSET Nat  BY <1>1
  <2>1. PICK m \in Bad : \A n \in Bad : m <= n
    <3> HIDE DEF Bad
    <3> QED  BY <2>0, Least
  <2>2. m # 0 /\ m - 1 \in 0 .. N - 1 /\ (m - 1) + 1 = m  BY <1>1, <1>3, <2>1
  <2>3. Sound(m - 1)  BY <1>1, <2>1, <2>2
  <2> QED  BY <1>4, <2>1, <2>2, <2>3
<1>6. Sound(N)  BY <1>1, <1>5
<1>7. { seq[i] : i \in 1 .. N } = ToSet(seq)  BY <1>1 DEF ToSet
<1> QED  BY <1>2, <1>6, <1>7 DEF Sound

(* A list without repetitions is as long as the set of its entries.        *)
LEMMA DistinctCounts ==
    ASSUME NEW T, NEW seq \in Seq(T), Distinct(seq)
    PROVE  Len(seq) = Cardinality(ToSet(seq))
<1>1. /\ Len(seq) \in Nat /\ DOMAIN seq = 1 .. Len(seq)
      /\ seq \in [1 .. Len(seq) -> T]
  BY LenProperties
<1>2. seq \in Bijection(1 .. Len(seq), ToSet(seq))
  <2>1. seq \in [1 .. Len(seq) -> ToSet(seq)]  BY <1>1 DEF ToSet
  <2>2. \A e \in ToSet(seq) : \E i \in 1 .. Len(seq) : seq[i] = e  BY <1>1 DEF ToSet
  <2>3. IsInjective(seq)  BY DEF IsInjective, Distinct
  <2> QED  BY <2>1, <2>2, <2>3 DEF Bijection, Injection, Surjection
<1>3. ExistsBijection(1 .. Len(seq), ToSet(seq))  BY <1>2 DEF ExistsBijection
<1> QED  BY <1>1, <1>3, FS_CountingElements

LEMMA DistinctJoin ==
    ASSUME NEW T, NEW s \in Seq(T), NEW t \in Seq(T)
    PROVE  /\ s \o t \in Seq(T)
           /\ ToSet(s \o t) = ToSet(s) \cup ToSet(t)
           /\ Distinct(s) /\ Distinct(t) /\ ToSet(s) \cap ToSet(t) = {} => Distinct(s \o t)
<1> DEFINE m == Len(s)  n == Len(t)  u == s \o t
<1>1. /\ m \in Nat /\ n \in Nat
      /\ DOMAIN s = 1 .. m /\ DOMAIN t = 1 .. n
  BY LenProperties
<1>2. /\ u \in Seq(T) /\ Len(u) = m + n
      /\ \A i \in 1 .. m + n : u[i] = IF i <= m THEN s[i] ELSE t[i - m]
  BY ConcatProperties
<1>3. DOMAIN u = 1 .. m + n  BY <1>2, LenProperties
<1> HIDE DEF u, m, n
<1>4. \A i \in 1 .. m : i \in DOMAIN u /\ u[i] = s[i]  BY <1>1, <1>2, <1>3
<1>5. \A i \in 1 .. n : m + i \in DOMAIN u /\ u[m + i] = t[i]
  <2> SUFFICES ASSUME NEW i \in 1 .. n PROVE m + i \in DOMAIN u /\ u[m + i] = t[i]
    OBVIOUS
  <2> DEFINE k == m + i
  <2>1. k \in 1 .. m + n /\ ~(k <= m) /\ k - m = i  BY <1>1
  <2> HIDE DEF k
  <2>2. u[k] = t[k - m]  BY <1>2, <2>1
  <2>3. k \in DOMAIN u /\ u[k] = t[i]  BY <1>3, <2>1, <2>2
  <2> QED  BY <2>3 DEF k
<1>6. \A i \in DOMAIN u : i \in 1 .. m \/ (i - m \in 1 .. n /\ i = m + (i - m))
  BY <1>1, <1>3
<1>7. ToSet(u) = ToSet(s) \cup ToSet(t)
  <2>1. \A i \in DOMAIN u : u[i] \in ToSet(s) \cup ToSet(t)
    BY <1>1, <1>4, <1>5, <1>6 DEF ToSet
  <2>2. \A i \in 1 .. m : s[i] \in ToSet(u)  BY <1>4 DEF ToSet
  <2>3. \A i \in 1 .. n : t[i] \in ToSet(u)  BY <1>5 DEF ToSet
  <2> QED  BY <1>1, <2>1, <2>2, <2>3 DEF ToSet
<1>8. ASSUME Distinct(s), Distinct(t), ToSet(s) \cap ToSet(t) = {} PROVE Distinct(u)
  <2>1. \A i \in 1 .. m, j \in 1 .. n : s[i] # t[j]
    BY <1>1, <1>8 DEF ToSet
  <2>2. \A i, j \in 1 .. m : s[i] = s[j] => i = j  BY <1>1, <1>8 DEF Distinct
  <2>3. \A i, j \in 1 .. n : t[i] = t[j] => i = j  BY <1>1, <1>8 DEF Distinct
  <2> SUFFICES ASSUME NEW i \in DOMAIN u, NEW j \in DOMAIN u, u[i] = u[j]
               PROVE  i = j
    BY DEF Distinct
  <2>4. CASE i \in 1 .. m /\ j \in 1 .. m  BY <1>4, <2>2, <2>4
  <2>5. CASE i \in 1 .. m /\ j - m \in 1 .. n
    <3>1. u[j] = t[j - m]  BY <1>1, <1>3, <1>5, <2>5
    <3> QED  BY <1>4, <2>1, <2>5, <3>1
  <2>6. CASE i - m \in 1 .. n /\ j \in 1 .. m
    <3>1. u[i] = t[i - m]  BY <1>1, <1>3, <1>5, <2>6
    <3> QED  BY <1>4, <2>1, <2>6, <3>1
  <2>7. CASE i - m \in 1 .. n /\ j - m \in 1 .. n
    <3>1. u[i] = t[i - m] /\ u[j] = t[j - m]  BY <1>1, <1>3, <1>5, <2>7
    <3>2. i - m = j - m  BY <2>3, <2>7, <3>1
    <3> QED  BY <1>1, <1>3, <3>2
  <2> QED  BY <1>6, <2>4, <2>5, <2>6, <2>7
<1> QED  BY <1>2, <1>7, <1>8 DEF u

LEMMA DistinctAppend ==
    ASSUME NEW T, NEW s \in Seq(T), NEW e \in T
    PROVE  /\ Append(s, e) \in Seq(T)
           /\ ToSet(Append(s, e)) = ToSet(s) \cup {e}
           /\ Distinct(s) /\ e \notin ToSet(s) => Distinct(Append(s, e))
<1> DEFINE t == <<e>>
<1>1. t \in Seq(T) /\ Len(t) = 1 /\ t[1] = e /\ DOMAIN t = 1 .. 1  OBVIOUS
<1>2. Append(s, e) = s \o t  BY AppendIsConcat
<1> HIDE DEF t
<1>3. ToSet(t) = {e} /\ Distinct(t)  BY <1>1 DEF ToSet, Distinct
<1> QED  BY <1>1, <1>2, <1>3, DistinctJoin

-----------------------------------------------------------------------------
(* Pages: how many a row needs, and how many some rows own.                *)

LEMMA PagesBounds ==
    ASSUME NEW n \in Nat
    PROVE  /\ Pages(n) \in Nat
           /\ n <= Pages(n) * ATTENTION_PAGE_SIZE
           /\ \A k \in Nat : n <= k * ATTENTION_PAGE_SIZE => Pages(n) <= k
<1> DEFINE B == ATTENTION_PAGE_SIZE
           a == n + B - 1
<1>1. B \in Nat \ {0} /\ a \in Nat  BY SchedulerAssumption
<1>2. a \div B \in Nat /\ B * (a \div B) <= a /\ a < B * (a \div B) + B  BY <1>1
<1>3. Pages(n) = a \div B  BY DEF Pages
<1> HIDE DEF a, B
<1> QED  BY <1>1, <1>2, <1>3 DEF a, B

LEMMA PagesMonotone ==
    /\ Pages(0) = 0
    /\ \A m, n \in Nat : m <= n => Pages(m) <= Pages(n)
<1>1. ATTENTION_PAGE_SIZE \in Nat  BY SchedulerAssumption
<1>2. Pages(0) \in Nat /\ Pages(0) <= 0  BY <1>1, PagesBounds
<1>3. ASSUME NEW m \in Nat, NEW n \in Nat, m <= n PROVE Pages(m) <= Pages(n)
  <2>1. Pages(n) \in Nat /\ n <= Pages(n) * ATTENTION_PAGE_SIZE  BY PagesBounds
  <2>2. m <= Pages(n) * ATTENTION_PAGE_SIZE  BY <1>1, <1>3, <2>1
  <2> QED  BY <2>1, <2>2, PagesBounds
<1> QED  BY <1>2, <1>3

Rows == [state : {"Vacant", "Active", "Retained"}, tokens : 0 .. ContextCapacity]

LEMMA Sizes ==
    /\ MAX_BATCH \in Nat \ {0} /\ PhysicalPages \in Nat /\ ContextCapacity \in Nat
    /\ DRAFT_WINDOW \in Nat \ {0}
    /\ Slots \subseteq Nat /\ 0 \in Slots /\ IsFiniteSet(Slots)
<1>1. MAX_BATCH \in Nat \ {0} /\ PhysicalPages \in Nat /\ ContextCapacity \in Nat
      /\ DRAFT_WINDOW \in Nat \ {0}
  BY SchedulerAssumption
<1>2. IsFiniteSet(0 .. MAX_BATCH - 1)  BY <1>1, FS_Interval
<1> QED  BY <1>1, <1>2 DEF Slots

LEMMA EntriesFinite ==
    ASSUME NEW rows, NEW S \in SUBSET Slots
    PROVE  IsFiniteSet(Entries(rows, S)) /\ PagesOf(rows, S) \in Nat
<1> DEFINE W == 1 .. Pages(ContextCapacity)
<1>1. Pages(ContextCapacity) \in Nat  BY Sizes, PagesBounds
<1>2. IsFiniteSet(W)  BY <1>1, FS_Interval
<1>3. IsFiniteSet(S)  BY Sizes, FS_Subset
<1>4. IsFiniteSet(S \X W)  BY <1>2, <1>3, FS_Product
<1>5. Entries(rows, S) \in SUBSET (S \X W)  BY DEF Entries
<1>6. IsFiniteSet(Entries(rows, S))  BY <1>4, <1>5, FS_Subset
<1> QED  BY <1>6, FS_CardinalityType DEF PagesOf

LEMMA PagesAdd ==
    ASSUME NEW rows, NEW S \in SUBSET Slots, NEW U \in SUBSET Slots, S \cap U = {}
    PROVE  PagesOf(rows, S \cup U) = PagesOf(rows, S) + PagesOf(rows, U)
<1> DEFINE A == Entries(rows, S)  B == Entries(rows, U)
<1>1. IsFiniteSet(A) /\ IsFiniteSet(B)  BY EntriesFinite
<1>2. A \cap B = {}  BY DEF Entries
<1>3. Entries(rows, S \cup U) = A \cup B  BY DEF Entries
<1> HIDE DEF A, B
<1>4. Cardinality(A \cup B) = Cardinality(A) + Cardinality(B) - Cardinality(A \cap B)
  BY <1>1, FS_Union
<1>5. Cardinality(A) \in Nat /\ Cardinality(B) \in Nat /\ Cardinality(A \cap B) = 0
  BY <1>1, <1>2, FS_CardinalityType, FS_EmptySet
<1>6. PagesOf(rows, S) = Cardinality(A) /\ PagesOf(rows, U) = Cardinality(B)
      /\ PagesOf(rows, S \cup U) = Cardinality(A \cup B)
  BY <1>3 DEF PagesOf, A, B
<1> QED  BY <1>4, <1>5, <1>6

LEMMA PagesOfOne ==
    ASSUME NEW rows, NEW s \in Slots, rows[s].tokens \in 0 .. ContextCapacity
    PROVE  PagesOf(rows, {s}) = Pages(rows[s].tokens)
<1> DEFINE n == Pages(rows[s].tokens)
<1>1. n \in Nat /\ Pages(ContextCapacity) \in Nat /\ n <= Pages(ContextCapacity)
  BY Sizes, PagesBounds, PagesMonotone
<1>2. Entries(rows, {s}) = {s} \X (1 .. n)
  <2> HIDE DEF n
  <2>1. \A e : e \in {s} \X (1 .. Pages(ContextCapacity)) /\ e[2] <= n
               <=> e \in {s} \X (1 .. n)
    BY <1>1
  <2>2. \A e \in {s} \X (1 .. Pages(ContextCapacity)) : Pages(rows[e[1]].tokens) = n
    BY DEF n
  <2> QED  BY <2>1, <2>2 DEF Entries
<1> HIDE DEF n
<1>3. IsFiniteSet(1 .. n) /\ Cardinality(1 .. n) = n  BY <1>1, FS_Interval
<1>4. IsFiniteSet({s}) /\ Cardinality({s}) = 1  BY FS_Singleton
<1>5. Cardinality({s} \X (1 .. n)) = 1 * n
  <2> DEFINE A == {s}
             B == 1 .. n
  <2>1. /\ IsFiniteSet(A) /\ Cardinality(A) = 1
        /\ IsFiniteSet(B) /\ Cardinality(B) = n
    BY <1>3, <1>4
  <2> HIDE DEF A, B
  <2>2. Cardinality(A \X B) = Cardinality(A) * Cardinality(B)  BY ONLY <2>1, FS_Product
  <2>3. Cardinality(A \X B) = 1 * n  BY ONLY <2>1, <2>2
  <2> QED  BY <2>3 DEF A, B
<1>6. PagesOf(rows, {s}) = n  BY <1>1, <1>2, <1>5 DEF PagesOf
<1> QED  BY <1>6 DEF n

LEMMA PagesSame ==
    ASSUME NEW rows, NEW others, NEW S \in SUBSET Slots,
           \A s \in S : rows[s] = others[s]
    PROVE  PagesOf(rows, S) = PagesOf(others, S)
<1>1. Entries(rows, S) = Entries(others, S)
  <2>1. \A e \in S \X (1 .. Pages(ContextCapacity)) : rows[e[1]] = others[e[1]]  OBVIOUS
  <2> QED  BY <2>1 DEF Entries
<1> QED  BY <1>1 DEF PagesOf

LEMMA PagesOfNone ==
    ASSUME NEW rows, NEW S \in SUBSET Slots, \A s \in S : rows[s].tokens = 0
    PROVE  PagesOf(rows, S) = 0
<1>1. \A e \in S \X (1 .. Pages(ContextCapacity)) : ~(e[2] <= Pages(rows[e[1]].tokens))
  <2> SUFFICES ASSUME NEW e \in S \X (1 .. Pages(ContextCapacity))
               PROVE  ~(e[2] <= Pages(rows[e[1]].tokens))
    OBVIOUS
  <2>1. e[1] \in S /\ e[2] \in 1 .. Pages(ContextCapacity)  OBVIOUS
  <2>2. Pages(rows[e[1]].tokens) = 0  BY <2>1, PagesMonotone
  <2>3. Pages(ContextCapacity) \in Nat  BY Sizes, PagesBounds
  <2> QED  BY <2>1, <2>2, <2>3
<1>2. Entries(rows, S) = {}  BY <1>1 DEF Entries
<1> QED  BY <1>2, FS_EmptySet DEF PagesOf

-----------------------------------------------------------------------------
(* What the invariant says of one slot, and of a request.                  *)

LEMMA RequestFacts ==
    ASSUME NEW r \in Requests
    PROVE  /\ r \in Chats /\ r.prompt \in Seq(Tokens) /\ r.prompt # << >>
           /\ Len(r.prompt) \in Nat \ {0, 1}
           /\ r.boundary \in Nat \ {0} /\ r.boundary < Len(r.prompt)
           /\ r.budget \in Nat
           /\ r = [prompt |-> r.prompt, boundary |-> r.boundary, budget |-> r.budget]
           /\ Required(r) \in Nat
           /\ r.budget > 0 => Required(r) = Len(r.prompt) + r.budget - 1
<1>1. r \in Chats /\ r.boundary \in 1 .. Len(r.prompt) - 1  BY SchedulerAssumption
<1>2. /\ r.prompt \in Seq(Tokens) /\ r.budget \in Nat
      /\ r = [prompt |-> r.prompt, boundary |-> r.boundary, budget |-> r.budget]
  BY <1>1 DEF Chats
<1>3. Len(r.prompt) \in Nat  BY <1>2, LenProperties
<1>4. Len(r.prompt) \in Nat \ {0, 1} /\ r.boundary \in Nat \ {0} /\ r.boundary < Len(r.prompt)
  <2> DEFINE n == Len(r.prompt)  b == r.boundary
  <2>1. n \in Nat /\ b \in 1 .. n - 1  BY <1>1, <1>3
  <2> HIDE DEF n, b
  <2>2. n \in Nat /\ n # 0 /\ n # 1 /\ b \in Nat /\ b # 0 /\ b < n  BY <2>1
  <2>3. n \in Nat \ {0, 1} /\ b \in Nat \ {0} /\ b < n  BY <2>2
  <2> QED  BY <2>3 DEF n, b
<1>5. r.prompt # << >>  BY <1>4, EmptySeq
<1> QED  BY <1>1, <1>2, <1>4, <1>5 DEF Required

LEMMA NoneIsNone ==
    /\ None \notin Sessions /\ None \notin RetainedPrefixes /\ None \notin Seq(Tokens)
BY SchedulerAssumption

LEMMA TextIsTokens == Text \subseteq Tokens /\ Stop \in Tokens /\ Garbage \in Tokens
BY DEF Tokens

(* A running request, and what it has processed.                           *)
LEMMA RunningFacts ==
    ASSUME TypeOK, NEW s \in Running, RunsExactly(s)
    PROVE  LET x == session[s]
               all == x.prompt \o x.generated
               q == [prompt |-> x.prompt, boundary |-> x.boundary, budget |-> x.budget]
           IN  /\ s \in Slots /\ x \in Sessions /\ q \in Requests
               /\ x.prompt \in Seq(Tokens) /\ x.generated \in Seq(Tokens)
               /\ x.generated \in Seq(Text)
               /\ Len(x.prompt) \in Nat \ {0, 1} /\ Len(x.generated) \in Nat
               /\ x.prompt # << >>
               /\ x.boundary \in Nat \ {0} /\ x.boundary < Len(x.prompt)
               /\ x.budget \in Nat /\ Len(x.generated) < x.budget
               /\ all \in Seq(Tokens) /\ all # << >>
               /\ Len(all) = Len(x.prompt) + Len(x.generated)
               /\ x.position \in Nat /\ x.position <= Len(all)
               /\ Processed(x) \in Seq(Tokens) /\ Len(Processed(x)) = x.position
               /\ x.generated = << >> <=> Len(x.generated) = 0
<1> DEFINE x == session[s]
           all == x.prompt \o x.generated
           q == [prompt |-> x.prompt, boundary |-> x.boundary, budget |-> x.budget]
<1>1. s \in Slots /\ x # None  BY DEF Running
<1>2. x \in Sessions  BY <1>1 DEF TypeOK
<1>3. q \in Requests /\ Len(x.generated) < x.budget  BY DEF TypeOK
<1>4. /\ x.prompt \in Seq(Tokens) /\ x.generated \in Seq(Tokens)
      /\ x.budget \in Nat /\ x.position \in 1 .. ContextCapacity
  BY <1>2 DEF Sessions
<1>5. /\ q.prompt = x.prompt /\ q.boundary = x.boundary
      /\ Len(x.prompt) \in Nat \ {0, 1} /\ x.prompt # << >>
      /\ x.boundary \in Nat \ {0} /\ x.boundary < Len(x.prompt)
  <2> HIDE DEF x
  <2>1. q.prompt = x.prompt /\ q.boundary = x.boundary  OBVIOUS
  <2>2. /\ Len(q.prompt) \in Nat \ {0, 1} /\ q.prompt # << >>
        /\ q.boundary \in Nat \ {0} /\ q.boundary < Len(q.prompt)
    BY <1>3, RequestFacts
  <2> QED  BY <2>1, <2>2
<1>6. Len(x.generated) \in Nat /\ (x.generated = << >> <=> Len(x.generated) = 0)
  BY <1>4, LenProperties, EmptySeq
<1>7. all \in Seq(Tokens) /\ Len(all) = Len(x.prompt) + Len(x.generated)
  BY <1>4, ConcatIsLonger
<1>8. all # << >>  BY <1>5, <1>6, <1>7, EmptySeq
<1>9. /\ x.generated \in Seq(Text)
      /\ x.position = IF x.generated = << >> THEN Len(x.prompt) ELSE Len(all) - 1
  BY DEF RunsExactly
<1>10. x.position \in 0 .. Len(all)
  <2> DEFINE m == Len(x.prompt)  n == Len(x.generated)  k == Len(all)  j == x.position
  <2>1. /\ m \in Nat /\ n \in Nat /\ m # 0 /\ k = m + n
        /\ j = (IF x.generated = << >> THEN m ELSE k - 1)
    BY <1>5, <1>6, <1>7, <1>9
  <2> HIDE DEF m, n, k, j, x, all
  <2>2. j \in 0 .. k  BY <2>1
  <2> QED  BY <2>2 DEF j, k
<1>11. Processed(x) \in Seq(Tokens) /\ Len(Processed(x)) = x.position
  BY <1>7, <1>10, Cut DEF Processed
<1> HIDE DEF x, all, q
<1>12. x.position \in Nat /\ x.position <= Len(all)
  <2> DEFINE k == Len(all)
  <2>1. k \in Nat  BY <1>7, LenProperties
  <2>2. x.position \in 0 .. k  BY <1>10
  <2> HIDE DEF k
  <2>3. x.position \in Nat /\ x.position <= k  BY <2>1, <2>2
  <2> QED  BY <2>3 DEF k
<1> QED
  BY <1>1, <1>2, <1>3, <1>4, <1>5, <1>6, <1>7, <1>8, <1>9, <1>11, <1>12 DEF x, all, q

(* A retained prefix.                                                      *)
LEMMA HeldFacts ==
    ASSUME TypeOK, NEW s \in Held
    PROVE  LET x == retained[s]
           IN  /\ s \in Slots /\ x \in RetainedPrefixes
               /\ x.tokens \in Seq(Tokens) /\ Len(x.tokens) \in Nat \ {0}
               /\ x.tokens # << >>
               /\ x.boundary \in Nat \ {0} /\ x.boundary <= Len(x.tokens)
               /\ x.boundary \in 0 .. Len(x.tokens)
<1> DEFINE x == retained[s]
<1>1. s \in Slots /\ x # None  BY DEF Held
<1>2. x \in RetainedPrefixes /\ x.boundary \in 1 .. Len(x.tokens)  BY <1>1 DEF TypeOK
<1>3. x.tokens \in Seq(Tokens)  BY <1>2 DEF RetainedPrefixes
<1>4. Len(x.tokens) \in Nat  BY <1>3, LenProperties
<1>5. Len(x.tokens) \in Nat \ {0} /\ x.boundary \in Nat \ {0} /\ x.boundary <= Len(x.tokens)
  BY <1>2, <1>4
<1>6. x.tokens # << >>  BY <1>5, EmptySeq
<1> QED  BY <1>1, <1>2, <1>3, <1>5, <1>6

Devices == [kv : Seq(Tokens), gdn : Seq(Tokens), hidden : Seq(Tokens), mtp : Seq(Tokens)]

LEMMA DeviceFacts ==
    ASSUME TypeOK, NEW s \in Slots
    PROVE  /\ device[s] \in Devices
           /\ device[s].kv \in Seq(Tokens) /\ device[s].gdn \in Seq(Tokens)
           /\ device[s].hidden \in Seq(Tokens) /\ device[s].mtp \in Seq(Tokens)
           /\ pool[s] \in Rows /\ pool[s].tokens \in 0 .. ContextCapacity
           /\ snapshot[s] \in Seq(Tokens) \cup {None}
BY DEF TypeOK, Devices, Rows

(* A slot that a step leaves alone stays as it is.                         *)
LEMMA RunsFrame ==
    ASSUME NEW s \in Slots, RunsExactly(s), session'[s] = session[s], pool'[s] = pool[s],
           device'[s] = device[s], snapshot'[s] = snapshot[s]
    PROVE  RunsExactly(s)'
BY DEF RunsExactly

LEMMA KeptFrame ==
    ASSUME NEW s \in Slots, KeptExactly(s), retained'[s] = retained[s], pool'[s] = pool[s],
           device'[s] = device[s], snapshot'[s] = snapshot[s]
    PROVE  KeptExactly(s)'
BY DEF KeptExactly

-----------------------------------------------------------------------------
(* A call that changes nothing but its answer.                             *)

Kinds == {"none", "ok", "context", "slots", "pages", "boundary", "busy",
          "aborted", "disconnected", "failed", "internal"}

LEMMA QuietInv ==
    ASSUME IInv, UNCHANGED state, answer' \in [kind : Kinds, need : Nat],
           answer'.kind = "pages" =>
             Pages(answer'.need)
               + PagesOf(pool, { s \in Slots : pool[s].state = "Active" }) > PhysicalPages
    PROVE  IInv'
<1> USE DEF state
<1>1. TypeOK'  BY DEF IInv, TypeOK, Kinds, Running, Held
<1>2. Running' = Running /\ Held' = Held  BY DEF Running, Held
<1>3. \A s \in Running' : RunsExactly(s)'  BY <1>2, RunsFrame DEF IInv, Running
<1>4. \A s \in Held' : KeptExactly(s)'  BY <1>2, KeptFrame DEF IInv, Held
<1>5. Books'  BY <1>2 DEF IInv, Books, FreePages
<1>6. RefusalIsHonest'  BY DEF RefusalIsHonest
<1> QED  BY <1>1, <1>3, <1>4, <1>5, <1>6 DEF IInv

-----------------------------------------------------------------------------
(* What select_slot finds: a slot without request, fresh or with a prefix  *)
(* of the prompt.                                                          *)

Choosable(c) ==
    /\ c.slot \in Slots /\ c.slot \notin Running
    /\ c.reset \in BOOLEAN /\ c.fallback \in BOOLEAN /\ c.reused \in Nat
    /\ c.reset => c.reused = 0 /\ ~c.fallback
    /\ c.fallback => c.slot \in Held /\ c.reused = retained[c.slot].boundary

LEMMA SelectedFacts ==
    ASSUME IInv, NEW prompt \in Seq(Tokens), NEW c \in Selected(prompt)
    PROVE  /\ Choosable(c)
           /\ ~c.reset /\ ~c.fallback =>
                /\ c.slot \in Held /\ c.reused = Len(retained[c.slot].tokens)
                /\ IsPrefix(retained[c.slot].tokens, prompt)
           /\ c.fallback =>
                /\ c.slot \in Held /\ c.reused = retained[c.slot].boundary
                /\ IsPrefix(SubSeq(retained[c.slot].tokens, 1, c.reused), prompt)
<1>1. Held \subseteq Slots /\ Running \cap Held = {}
  BY DEF IInv, Books, Held
<1>2. ASSUME c \in Reuses(prompt)
      PROVE  /\ Choosable(c) /\ ~c.reset
             /\ ~c.fallback =>
                /\ c.slot \in Held /\ c.reused = Len(retained[c.slot].tokens)
                /\ IsPrefix(retained[c.slot].tokens, prompt)
             /\ c.fallback =>
                /\ c.slot \in Held /\ c.reused = retained[c.slot].boundary
                /\ IsPrefix(SubSeq(retained[c.slot].tokens, 1, c.reused), prompt)
  <2>1. CASE \E s \in Held : /\ IsPrefix(retained[s].tokens, prompt)
                             /\ c = [slot |-> s, reused |-> Len(retained[s].tokens),
                                     reset |-> FALSE, fallback |-> FALSE]
    <3>1. PICK s \in Held : /\ IsPrefix(retained[s].tokens, prompt)
                            /\ c = [slot |-> s, reused |-> Len(retained[s].tokens),
                                    reset |-> FALSE, fallback |-> FALSE]
      BY <2>1
    <3>2. /\ c.slot = s /\ c.reused = Len(retained[s].tokens)
          /\ c.reset = FALSE /\ c.fallback = FALSE
      BY <3>1
    <3>3. Len(retained[s].tokens) \in Nat  BY HeldFacts DEF IInv
    <3> QED  BY <1>1, <3>1, <3>2, <3>3 DEF Choosable
  <2>2. CASE \E s \in Held :
               /\ IsPrefix(SubSeq(retained[s].tokens, 1, retained[s].boundary), prompt)
               /\ c = [slot |-> s, reused |-> retained[s].boundary,
                       reset |-> FALSE, fallback |-> TRUE]
    <3>1. PICK s \in Held :
               /\ IsPrefix(SubSeq(retained[s].tokens, 1, retained[s].boundary), prompt)
               /\ c = [slot |-> s, reused |-> retained[s].boundary,
                       reset |-> FALSE, fallback |-> TRUE]
      BY <2>2
    <3>2. /\ c.slot = s /\ c.reused = retained[s].boundary
          /\ c.reset = FALSE /\ c.fallback = TRUE
      BY <3>1
    <3>3. retained[s].boundary \in Nat  BY HeldFacts DEF IInv
    <3> QED  BY <1>1, <3>1, <3>2, <3>3 DEF Choosable
  <2> QED  BY <1>2, <2>1, <2>2 DEF Reuses
<1>3. ASSUME NEW s \in Slots, s \notin Running, c = Reset(s)
      PROVE  Choosable(c) /\ c.reset /\ ~c.fallback
  BY <1>3 DEF Reset, Choosable
<1> DEFINE free == Slots \ (Running \cup Held)
<1>4. CASE Reuses(prompt) # {}
  <2>1. Selected(prompt) = Best(Reuses(prompt))  BY <1>4 DEF Selected
  <2> QED  BY <1>2, <2>1 DEF Best
<1>5. CASE Reuses(prompt) = {} /\ free # {}
  <2>1. c = Reset(Min(free))  BY <1>5 DEF Selected
  <2>2. Min(free) \in free
    <3>1. free \in SUBSET Nat  BY Sizes
    <3> HIDE DEF free
    <3> QED  BY <1>5, <3>1, MinIsLeast
  <2> QED  BY <1>3, <2>1, <2>2
<1>6. CASE Reuses(prompt) = {} /\ free = {} /\ order # << >>
  <2>1. c = Reset(Head(order))  BY <1>6 DEF Selected
  <2>2. order \in Seq(Slots) /\ ToSet(order) = Held  BY DEF IInv, TypeOK, Books
  <2>3. Len(order) \in Nat \ {0} /\ DOMAIN order = 1 .. Len(order)
    BY <1>6, <2>2, EmptySeq, LenProperties
  <2>4. 1 \in DOMAIN order /\ Head(order) = order[1]  BY <2>2, <2>3, <1>6
  <2>5. Head(order) \in Held  BY <2>2, <2>4 DEF ToSet
  <2> QED  BY <1>1, <1>3, <2>1, <2>5
<1>7. CASE Reuses(prompt) = {} /\ free = {} /\ order = << >>
  <2>1. Selected(prompt) = {}  BY <1>7 DEF Selected
  <2> QED  BY <2>1
<1> QED  BY <1>4, <1>5, <1>6, <1>7

LEMMA ChoiceFacts ==
    ASSUME IInv, NEW r \in Requests, NEW c \in Choice(r)
    PROVE  /\ Choosable(c) /\ c.reused <= r.boundary
           /\ r.budget > 0 /\ Required(r) \in 0 .. ContextCapacity
           /\ ~c.reset /\ ~c.fallback =>
                /\ c.slot \in Held /\ c.reused = Len(retained[c.slot].tokens)
                /\ IsPrefix(retained[c.slot].tokens, r.prompt)
           /\ c.fallback =>
                /\ c.slot \in Held /\ c.reused = retained[c.slot].boundary
                /\ IsPrefix(SubSeq(retained[c.slot].tokens, 1, c.reused), r.prompt)
<1>1. c \in Selected(r.prompt) /\ Required(r) <= ContextCapacity /\ r.budget > 0
      /\ c.reused <= r.boundary
  BY DEF Choice
<1>2. Required(r) \in Nat /\ r.prompt \in Seq(Tokens)  BY RequestFacts
<1> QED  BY <1>1, <1>2, SelectedFacts, Sizes

(* A slot that goes on from what it keeps holds the state of that part of  *)
(* the prompt, brought back by the restore where it needs one; a slot that *)
(* starts at the message boundary of the prompt has its snapshot.          *)
LEMMA RestoredIsExact ==
    ASSUME IInv, NEW r \in Requests, NEW c \in Choice(r), ~c.reset
    PROVE  LET p == SubSeq(r.prompt, 1, c.reused)
               d == Restored(c)
           IN  /\ c.slot \in Held /\ c.reused \in 1 .. Len(r.prompt)
               /\ p \in Seq(Tokens) /\ p # << >> /\ Len(p) = c.reused
               /\ d \in Devices
               /\ IsPrefix(p, d.kv) /\ d.gdn = p /\ d.hidden = p
               /\ IsPrefix(Tail(p), d.mtp)
               /\ c.reused = r.boundary => snapshot[c.slot] = p
<1> DEFINE s == c.slot  x == retained[s]
           p == SubSeq(r.prompt, 1, c.reused)
<1>1. /\ r.prompt \in Seq(Tokens) /\ Len(r.prompt) \in Nat
      /\ r.boundary \in Nat /\ r.boundary < Len(r.prompt)
  BY RequestFacts
<1>2. /\ Choosable(c) /\ s \in Held /\ c.reused <= r.boundary
      /\ ~c.fallback => c.reused = Len(x.tokens) /\ IsPrefix(x.tokens, r.prompt)
      /\ c.fallback => /\ c.reused = x.boundary
                       /\ IsPrefix(SubSeq(x.tokens, 1, c.reused), r.prompt)
  BY ChoiceFacts
<1>3. /\ s \in Slots /\ x.tokens \in Seq(Tokens) /\ Len(x.tokens) \in Nat \ {0}
      /\ x.tokens # << >>
      /\ x.boundary \in Nat \ {0} /\ x.boundary <= Len(x.tokens)
      /\ x.boundary \in 0 .. Len(x.tokens)
  BY <1>2, HeldFacts DEF IInv
<1>4. /\ IsPrefix(x.tokens, device[s].kv)
      /\ device[s].gdn = x.tokens /\ device[s].hidden = x.tokens
      /\ IsPrefix(Tail(x.tokens), device[s].mtp)
      /\ snapshot[s] = SubSeq(x.tokens, 1, x.boundary)
      /\ OpenOrCut(x)
  BY <1>2 DEF IInv, KeptExactly
<1>5. /\ device[s] \in Devices
      /\ device[s].kv \in Seq(Tokens) /\ device[s].mtp \in Seq(Tokens)
  BY <1>3, DeviceFacts DEF IInv
<1>6. c.reused \in 1 .. Len(r.prompt) /\ c.reused \in 1 .. Len(x.tokens)
  BY <1>1, <1>2, <1>3 DEF Choosable
<1> HIDE DEF x, s
<1>7. p = SubSeq(x.tokens, 1, c.reused)
  <2>1. CASE c.fallback
    <3> DEFINE q == SubSeq(x.tokens, 1, c.reused)
    <3>1. q \in Seq(Tokens) /\ Len(q) = c.reused  BY <1>3, <1>6, Cut
    <3>2. IsPrefix(q, r.prompt)  BY <1>2, <2>1
    <3> HIDE DEF q
    <3>3. q = SubSeq(r.prompt, 1, c.reused)  BY <1>1, <3>1, <3>2, PrefixIsCut
    <3> QED  BY <3>3 DEF q
  <2>2. CASE ~c.fallback
    <3>1. x.tokens = SubSeq(r.prompt, 1, c.reused)  BY <1>1, <1>2, <1>3, <2>2, PrefixIsCut
    <3>2. SubSeq(x.tokens, 1, c.reused) = x.tokens  BY <1>2, <1>3, <2>2, SubSeqFull
    <3> QED  BY <3>1, <3>2
  <2> QED  BY <2>1, <2>2
<1>8. p \in Seq(Tokens) /\ Len(p) = c.reused  BY <1>1, <1>6, Cut
<1>9. p # << >>  BY <1>6, <1>8, EmptySeq
<1> HIDE DEF p
<1>10. IsPrefix(p, device[s].kv)
  <2>1. IsPrefix(p, x.tokens)  BY <1>3, <1>6, <1>7, CutIsPrefix
  <2> QED  BY <1>3, <1>4, <1>5, <1>8, <2>1, PrefixOfPrefix
<1>11. IsPrefix(Tail(p), device[s].mtp)
  <2>1. Tail(p) = SubSeq(Tail(x.tokens), 1, c.reused - 1)  BY <1>3, <1>6, <1>7, TailGlue
  <2>2. Tail(x.tokens) \in Seq(Tokens) /\ Len(Tail(x.tokens)) = Len(x.tokens) - 1
    BY <1>3, TailMeans
  <2>3. c.reused - 1 \in 0 .. Len(Tail(x.tokens))  BY <1>3, <1>6, <2>2
  <2>4. IsPrefix(Tail(p), Tail(x.tokens))  BY <2>1, <2>2, <2>3, CutIsPrefix
  <2>5. Tail(p) \in Seq(Tokens)  BY <1>8, <1>9, TailMeans
  <2> QED  BY <1>4, <1>5, <2>2, <2>4, <2>5, PrefixOfPrefix
<1>12. /\ Restored(c) \in Devices
       /\ Restored(c).kv = device[s].kv /\ Restored(c).mtp = device[s].mtp
       /\ Restored(c).gdn = p /\ Restored(c).hidden = p
  <2>1. CASE c.fallback
    <3>1. snapshot[s] = p  BY <1>2, <1>4, <1>7, <2>1
    <3>2. Restored(c) = [device[s] EXCEPT !.gdn = p, !.hidden = p]
      BY <2>1, <3>1 DEF Restored, s
    <3> QED  BY <1>5, <1>8, <3>2 DEF Devices
  <2>2. CASE ~c.fallback
    <3>1. x.tokens = p  BY <1>2, <1>3, <1>7, <2>2, SubSeqFull
    <3>2. Restored(c) = device[s]  BY <2>2 DEF Restored, s
    <3> QED  BY <1>4, <1>5, <3>1, <3>2
  <2> QED  BY <2>1, <2>2
<1>13. ASSUME c.reused = r.boundary PROVE snapshot[s] = p
  <2>1. CASE c.fallback  BY <1>2, <1>4, <1>7, <2>1
  <2>2. CASE ~c.fallback /\ x.boundary = Len(x.tokens)
    BY <1>2, <1>4, <1>7, <2>2
  <2>3. CASE ~c.fallback /\ \E q \in Requests, g \in Seq(Text) :
                              x.tokens = q.prompt \o g /\ x.boundary = q.boundary
    (* The prefix would be an open answer that ends where the boundary is. *)
    <3>1. PICK q \in Requests, g \in Seq(Text) : x.tokens = q.prompt \o g  BY <2>3
    <3>2. q.prompt \in Seq(Tokens) /\ Len(q.prompt) \in Nat  BY RequestFacts
    <3>3. g \in Seq(Tokens)  BY TextIsTokens, SeqMonotonic
    <3>4. Len(g) \in Nat  BY LenProperties
    <3>5. /\ Len(x.tokens) = Len(q.prompt) + Len(g)
          /\ \A i \in 1 .. Len(q.prompt) + Len(g) :
                x.tokens[i] = IF i <= Len(q.prompt) THEN q.prompt[i]
                              ELSE g[i - Len(q.prompt)]
      BY <3>1, <3>2, <3>3, ConcatProperties
    <3>6. IsPrefix(q.prompt, x.tokens)  BY <3>1, <3>2, <3>3, ConcatIsLonger
    <3>7. x.tokens = SubSeq(r.prompt, 1, r.boundary)
      BY <1>2, <1>3, <1>7, <1>13, <2>3, SubSeqFull DEF p
    <3>8. PICK k \in Len(q.prompt) + 1 .. r.boundary : r.prompt[k] \notin Text
      BY <3>6, <3>7, ClosedAnswers
    <3>9. r.boundary = Len(q.prompt) + Len(g)  BY <1>2, <1>13, <2>3, <3>5
    <3>10. x.tokens[k] = g[k - Len(q.prompt)]  BY <3>2, <3>4, <3>5, <3>9
    <3>11. k - Len(q.prompt) \in 1 .. Len(g)  BY <3>2, <3>4, <3>9
    <3>12. g[k - Len(q.prompt)] \in Text  BY <3>11, ElementOfSeq
    <3>13. r.boundary \in 0 .. Len(r.prompt) /\ k \in 1 .. r.boundary  BY <1>1, <3>2
    <3>14. SubSeq(r.prompt, 1, r.boundary)[k] = r.prompt[k]  BY <1>1, <3>13, Cut
    <3> QED  BY <3>7, <3>8, <3>10, <3>12, <3>14
  <2> QED  BY <1>4, <2>1, <2>2, <2>3 DEF OpenOrCut
<1> QED
  BY <1>2, <1>6, <1>8, <1>9, <1>10, <1>11, <1>12, <1>13 DEF p, s

(* The prefill leaves the state of the whole prompt, whatever the slot     *)
(* held, and the snapshot of its message boundary.                         *)
LEMMA PrefilledIsExact ==
    ASSUME IInv, NEW r \in Requests, NEW c \in Choice(r)
    PROVE  LET filled == Prefilled(c, r, Restored(c))
           IN  /\ filled \in Devices
               /\ filled.kv = r.prompt /\ filled.gdn = r.prompt
               /\ filled.hidden = r.prompt /\ filled.mtp = Tail(r.prompt)
               /\ Captured(c, r, filled) = SubSeq(r.prompt, 1, r.boundary)
<1> DEFINE w == r.prompt  n == c.reused  kept == Restored(c)
           fresh == SubSeq(w, n + 1, Len(w))
           first == Max({n, 1})
           filled == Prefilled(c, r, kept)
           rest == SubSeq(w, first + 1, Len(w))
<1>1. /\ w \in Seq(Tokens) /\ Len(w) \in Nat \ {0, 1} /\ w # << >>
      /\ r.boundary \in Nat \ {0} /\ r.boundary < Len(w)
  BY RequestFacts
<1>2. Choosable(c) /\ n <= r.boundary /\ n \in Nat  BY ChoiceFacts DEF Choosable
<1>3. n \in 0 .. Len(w)  BY <1>1, <1>2
<1>4. first = IF n = 0 THEN 1 ELSE n
  <2>1. PICK m \in {n, 1} : \A y \in {n, 1} : m >= y  BY <1>2
  <2>2. first \in {n, 1} /\ \A y \in {n, 1} : first >= y  BY <2>1 DEF Max
  <2> QED  BY <1>2, <2>2
<1> HIDE DEF first
<1>5. first \in 1 .. Len(w)  BY <1>1, <1>3, <1>4
<1>6. filled = [kv |-> SubSeq(kept.kv, 1, n) \o fresh,
                gdn |-> (IF c.reset THEN << >> ELSE kept.gdn) \o fresh,
                hidden |-> (IF c.reset THEN << >> ELSE kept.gdn) \o fresh,
                mtp |-> SubSeq(kept.mtp, 1, first - 1) \o rest]
  BY DEF Prefilled, first
<1>7. Tail(w) \in Seq(Tokens)  BY <1>1, TailMeans
<1>8. /\ SubSeq(kept.kv, 1, n) \o fresh = w
      /\ (IF c.reset THEN << >> ELSE kept.gdn) \o fresh = w
      /\ SubSeq(kept.mtp, 1, first - 1) \o rest = Tail(w)
  <2>1. CASE c.reset
    <3>1. n = 0 /\ first = 1  BY <1>2, <1>4, <2>1 DEF Choosable
    <3>2. SubSeq(kept.kv, 1, 0) = << >> /\ SubSeq(kept.mtp, 1, 0) = << >>
      BY SubSeqEmpty
    <3>3. SubSeq(w, 1, Len(w)) = w /\ Tail(w) = SubSeq(w, 2, Len(w))
      BY <1>1, SubSeqFull, TailIsSubSeq
    <3>4. << >> \o w = w /\ << >> \o Tail(w) = Tail(w)
      BY <1>1, <1>7, ConcatEmptySeq
    <3> QED  BY <2>1, <3>1, <3>2, <3>3, <3>4
  <2>2. CASE ~c.reset
    <3> DEFINE p == SubSeq(w, 1, n)
    <3>1. /\ n \in 1 .. Len(w) /\ p \in Seq(Tokens) /\ p # << >> /\ Len(p) = n
          /\ kept \in Devices
          /\ IsPrefix(p, kept.kv) /\ kept.gdn = p /\ IsPrefix(Tail(p), kept.mtp)
      BY <2>2, RestoredIsExact
    <3>2. kept.kv \in Seq(Tokens) /\ kept.mtp \in Seq(Tokens)  BY <3>1 DEF Devices
    <3>3. SubSeq(kept.kv, 1, n) = p
      <4> HIDE DEF p
      <4> QED  BY <3>1, <3>2, PrefixIsCut
    <3>4. SubSeq(kept.mtp, 1, n - 1) = Tail(p)
      <4> HIDE DEF p
      <4>1. Tail(p) \in Seq(Tokens) /\ Len(Tail(p)) = n - 1  BY <3>1, TailMeans
      <4> QED  BY <3>1, <3>2, <4>1, PrefixIsCut
    <3>5. p \o fresh = w  BY <1>1, <1>3, Glue
    <3>6. first = n  BY <1>4, <3>1
    <3>7. Tail(p) = SubSeq(Tail(w), 1, n - 1)
          /\ SubSeq(Tail(w), 1, n - 1) \o SubSeq(w, n + 1, Len(w)) = Tail(w)
      BY <1>1, <3>1, TailGlue
    <3> QED  BY <2>2, <3>1, <3>3, <3>4, <3>5, <3>6, <3>7
  <2> QED  BY <1>2, <2>1, <2>2 DEF Choosable
<1>9. filled = [kv |-> w, gdn |-> w, hidden |-> w, mtp |-> Tail(w)]
  BY <1>6, <1>8
<1> HIDE DEF filled
<1>10. Captured(c, r, filled) = SubSeq(w, 1, r.boundary)
  <2>1. CASE n < r.boundary  BY <1>9, <2>1 DEF Captured
  <2>2. CASE n = r.boundary
    <3>1. ~c.reset  BY <1>1, <1>2, <2>2 DEF Choosable
    <3> QED  BY <2>2, <3>1, RestoredIsExact DEF Captured
  <2> QED  BY <1>1, <1>2, <2>1, <2>2
<1>11. filled \in Devices  BY <1>1, <1>7, <1>9 DEF Devices
<1>12. /\ filled.kv = w /\ filled.gdn = w /\ filled.hidden = w /\ filled.mtp = Tail(w)
  BY <1>9
<1> QED  BY <1>10, <1>11, <1>12 DEF filled

-----------------------------------------------------------------------------
(* The pool while an admission looks for pages.                            *)

LEMMA RowFacts ==
    ASSUME NEW rows \in [Slots -> Rows], NEW s \in Slots
    PROVE  /\ rows[s].tokens \in 0 .. ContextCapacity /\ rows[s].tokens \in Nat
           /\ Pages(rows[s].tokens) \in Nat
<1>1. rows[s].tokens \in 0 .. ContextCapacity  BY DEF Rows
<1>2. rows[s].tokens \in Nat  BY <1>1, Sizes
<1> QED  BY <1>1, <1>2, PagesBounds

LEMMA RestoredRows ==
    ASSUME IInv, NEW c, Choosable(c)
    PROVE  LET rows == RowsRestored(c)
           IN  /\ rows \in [Slots -> Rows]
               /\ \A s \in Slots : s # c.slot => rows[s] = pool[s]
               /\ rows[c.slot].state = pool[c.slot].state
               /\ ~c.fallback => rows = pool
               /\ c.fallback => rows[c.slot].tokens = c.reused
               /\ FreePages(rows) \in Nat
<1> DEFINE rows == RowsRestored(c)  s == c.slot
<1>1. pool \in [Slots -> Rows] /\ FreePages(pool) >= 0 /\ s \in Slots
  BY DEF IInv, TypeOK, Rows, Books, Choosable
<1>2. CASE ~c.fallback
  <2>1. rows = pool  BY <1>2 DEF RowsRestored
  <2>2. PagesOf(pool, Slots) \in Nat  BY EntriesFinite
  <2> QED  BY <1>1, <1>2, <2>1, <2>2, Sizes DEF FreePages
<1>3. CASE c.fallback
  <2>1. /\ s \in Held /\ c.reused = retained[s].boundary
        /\ retained[s].boundary \in Nat /\ Len(retained[s].tokens) \in Nat
        /\ retained[s].boundary <= Len(retained[s].tokens)
        /\ pool[s].tokens = Len(retained[s].tokens)
    <3>1. s \in Held /\ c.reused = retained[s].boundary  BY <1>3 DEF Choosable
    <3>2. /\ retained[s].boundary \in Nat /\ Len(retained[s].tokens) \in Nat
          /\ retained[s].boundary <= Len(retained[s].tokens)
      BY <3>1, HeldFacts DEF IInv
    <3>3. pool[s] = [state |-> "Retained", tokens |-> Len(retained[s].tokens)]
      BY <3>1 DEF IInv, KeptExactly
    <3> QED  BY <3>1, <3>2, <3>3
  <2>2. rows = [pool EXCEPT ![s].tokens = c.reused]  BY <1>3 DEF RowsRestored
  <2>3. c.reused \in 0 .. ContextCapacity /\ c.reused <= pool[s].tokens
    <3>1. pool[s].tokens \in 0 .. ContextCapacity  BY <1>1 DEF Rows
    <3> QED  BY <2>1, <3>1, Sizes
  <2>4. /\ rows[s] = [pool[s] EXCEPT !.tokens = c.reused]
        /\ \A t \in Slots : t # s => rows[t] = pool[t]
    BY <1>1, <2>2
  <2>5. rows[s].tokens = c.reused /\ rows[s].state = pool[s].state /\ rows[s] \in Rows
    BY <1>1, <2>3, <2>4 DEF Rows
  <2>6. rows \in [Slots -> Rows]  BY <1>1, <2>2, <2>4, <2>5
  <2> HIDE DEF rows, s
  <2> DEFINE others == Slots \ {s}
  <2>7. PagesOf(rows, others) = PagesOf(pool, others)  BY <2>4, PagesSame
  <2>8. PagesOf(rows, {s}) <= PagesOf(pool, {s})
    <3>1. PagesOf(rows, {s}) = Pages(c.reused)  BY <1>1, <2>3, <2>5, PagesOfOne
    <3>2. PagesOf(pool, {s}) = Pages(pool[s].tokens)
      <4>1. pool[s].tokens \in 0 .. ContextCapacity  BY <1>1 DEF Rows
      <4> QED  BY <1>1, <4>1, PagesOfOne
    <3>3. pool[s].tokens \in Nat /\ c.reused \in Nat  BY <1>1, <2>1, Sizes DEF Rows
    <3> QED  BY <2>3, <3>1, <3>2, <3>3, PagesMonotone
  <2>9. others \cup {s} = Slots /\ others \cap {s} = {}
        /\ others \in SUBSET Slots /\ {s} \in SUBSET Slots
    BY <1>1
  <2>10. /\ PagesOf(rows, Slots) = PagesOf(rows, others) + PagesOf(rows, {s})
         /\ PagesOf(pool, Slots) = PagesOf(pool, others) + PagesOf(pool, {s})
    <3> HIDE DEF others
    <3>1. PagesOf(rows, others \cup {s}) = PagesOf(rows, others) + PagesOf(rows, {s})
      BY <2>9, PagesAdd
    <3>2. PagesOf(pool, others \cup {s}) = PagesOf(pool, others) + PagesOf(pool, {s})
      BY <2>9, PagesAdd
    <3> QED  BY <2>9, <3>1, <3>2
  <2>11. /\ PagesOf(rows, others) \in Nat /\ PagesOf(rows, {s}) \in Nat
         /\ PagesOf(pool, {s}) \in Nat
    BY <2>9, EntriesFinite
  <2>12. FreePages(rows) \in Nat
    BY <1>1, <2>7, <2>8, <2>10, <2>11, Sizes DEF FreePages
  <2> QED  BY <1>3, <2>4, <2>5, <2>6, <2>12 DEF rows, s
<1> QED  BY <1>2, <1>3 DEF Choosable

LEMMA MissingMeans ==
    ASSUME IInv, NEW c, Choosable(c), NEW need \in Nat
    PROVE  LET rows == RowsRestored(c)
           IN  /\ Missing(rows, c, need) \in Int
               /\ Missing(rows, c, need)
                    = Pages(need) - Pages(rows[c.slot].tokens) - FreePages(rows)
<1> DEFINE rows == RowsRestored(c)
<1>1. rows \in [Slots -> Rows] /\ FreePages(rows) \in Nat /\ c.slot \in Slots
  BY RestoredRows DEF Choosable
<1> HIDE DEF rows
<1>2. Pages(need) \in Nat /\ Pages(rows[c.slot].tokens) \in Nat
  BY <1>1, RowFacts, PagesBounds
<1>3. /\ Missing(rows, c, need) \in Int
      /\ Missing(rows, c, need)
           = Pages(need) - Pages(rows[c.slot].tokens) - FreePages(rows)
  BY <1>1, <1>2 DEF Missing
<1> QED  BY <1>3 DEF rows

(* The prefixes given up are enough, and none of them is the slot's own.   *)
LEMMA VictimsSuffice ==
    ASSUME IInv, NEW c, Choosable(c), NEW need \in Nat,
           Missing(RowsRestored(c), c, need) <= Reclaimable(RowsRestored(c), c)
    PROVE  LET rows == RowsRestored(c)
               gone == Victims(rows, c, need)
           IN  /\ gone \subseteq Held \ {c.slot}
               /\ Pages(need) - Pages(rows[c.slot].tokens) - FreePages(rows)
                    <= PagesOf(rows, gone)
<1> DEFINE rows == RowsRestored(c)
           others == Without(order, {c.slot})
           N == Len(others)
           First(k) == { others[i] : i \in 1 .. k }
           missing == Missing(rows, c, need)
           enough == { k \in 0 .. N : PagesOf(rows, First(k)) >= missing }
           gone == IF enough = {} THEN {} ELSE First(Min(enough))
<1>0. missing \in Int
      /\ missing = Pages(need) - Pages(rows[c.slot].tokens) - FreePages(rows)
  BY MissingMeans
<1>1. order \in Seq(Slots) /\ ToSet(order) = Held /\ Held \subseteq Slots
  BY DEF IInv, TypeOK, Books, Held
<1>2. others \in Seq(Slots) /\ ToSet(others) = Held \ {c.slot}
  BY <1>1, WithoutKeeps
<1> HIDE DEF others
<1>3. N \in Nat /\ DOMAIN others = 1 .. N  BY <1>2, LenProperties
<1>4. First(N) = Held \ {c.slot}  BY <1>2, <1>3 DEF ToSet
<1>5. \A k \in 0 .. N : First(k) \subseteq Held \ {c.slot}
  <2>1. \A k \in 0 .. N : 1 .. k \subseteq 1 .. N  BY <1>3
  <2> QED  BY <1>4, <2>1
<1>6. PagesOf(rows, First(N)) >= missing
  <2>1. missing <= PagesOf(rows, Held \ {c.slot})  BY DEF Reclaimable
  <2>2. missing \in Int /\ PagesOf(rows, Held \ {c.slot}) \in Nat
    <3>1. Held \ {c.slot} \in SUBSET Slots  BY <1>1
    <3> QED  BY <1>0, <3>1, EntriesFinite
  <2> HIDE DEF rows, missing, First
  <2> QED  BY <1>4, <2>1, <2>2
<1>7. N \in enough /\ enough # {}
  <2>1. N \in 0 .. N  BY <1>3
  <2> HIDE DEF First, missing, rows
  <2> QED  BY <1>6, <2>1
<1>8. Min(enough) \in enough
  <2>1. enough \in SUBSET Nat  BY <1>3
  <2> HIDE DEF enough
  <2> QED  BY <1>7, <2>1, MinIsLeast
<1>9. gone = First(Min(enough))  BY <1>7
<1>10. gone \subseteq Held \ {c.slot} /\ PagesOf(rows, gone) >= missing
  <2> DEFINE k == Min(enough)
  <2>1. k \in 0 .. N /\ PagesOf(rows, First(k)) >= missing  BY <1>8
  <2> HIDE DEF enough, k, gone
  <2> QED  BY <1>5, <1>9, <2>1 DEF k
<1>11. gone = Victims(rows, c, need)  BY DEF Victims, others
<1>13. PagesOf(rows, gone) \in Nat
  <2>1. gone \in SUBSET Slots  BY <1>1, <1>10
  <2> QED  BY <2>1, EntriesFinite
<1> HIDE DEF gone, missing, rows, First, enough
<1>14. missing <= PagesOf(rows, gone)  BY <1>0, <1>10, <1>13
<1> QED  BY <1>0, <1>10, <1>11, <1>14 DEF rows

(* A row is replaced and others are emptied: the pages still suffice.      *)
LEMMA ClaimFits ==
    ASSUME NEW rows \in [Slots -> Rows], NEW s \in Slots,
           NEW gone \in SUBSET (Slots \ {s}), NEW row \in Rows,
           Pages(row.tokens) - Pages(rows[s].tokens) - FreePages(rows)
             <= PagesOf(rows, gone)
    PROVE  FreePages([Given(rows, gone) EXCEPT ![s] = row]) >= 0
<1> DEFINE new == [Given(rows, gone) EXCEPT ![s] = row]
           rest == Slots \ (gone \cup {s})
<1>1. new \in [Slots -> Rows]  BY Sizes DEF Given, Rows, Vacant
<1>2. /\ new[s] = row /\ \A t \in rest : new[t] = rows[t]
      /\ \A t \in gone : new[t] = Vacant
  BY DEF Given
<1>3. gone \in SUBSET Slots /\ rest \in SUBSET Slots /\ {s} \in SUBSET Slots
      /\ rest \cup gone \in SUBSET Slots
      /\ rest \cap gone = {} /\ (rest \cup gone) \cap {s} = {}
      /\ (rest \cup gone) \cup {s} = Slots
  OBVIOUS
<1> HIDE DEF new, rest
<1>4. ASSUME NEW some
      PROVE  PagesOf(some, Slots)
               = PagesOf(some, rest) + PagesOf(some, gone) + PagesOf(some, {s})
  <2>1. PagesOf(some, rest \cup gone) = PagesOf(some, rest) + PagesOf(some, gone)
    BY <1>3, PagesAdd
  <2>2. PagesOf(some, (rest \cup gone) \cup {s})
          = PagesOf(some, rest \cup gone) + PagesOf(some, {s})
    BY <1>3, PagesAdd
  <2> QED  BY <1>3, <2>1, <2>2
<1>5. PagesOf(new, rest) = PagesOf(rows, rest)  BY <1>2, <1>3, PagesSame
<1>6. PagesOf(new, gone) = 0
  <2>1. \A t \in gone : new[t].tokens = 0  BY <1>2 DEF Vacant
  <2> QED  BY <1>3, <2>1, PagesOfNone
<1>7. PagesOf(new, {s}) = Pages(row.tokens)
  <2>1. new[s].tokens \in 0 .. ContextCapacity  BY <1>1, RowFacts
  <2> QED  BY <1>2, <2>1, PagesOfOne
<1>8. PagesOf(rows, {s}) = Pages(rows[s].tokens)
  <2>1. rows[s].tokens \in 0 .. ContextCapacity  BY RowFacts
  <2> QED  BY <2>1, PagesOfOne
<1>9. /\ PagesOf(rows, rest) \in Nat /\ PagesOf(rows, gone) \in Nat
      /\ PagesOf(rows, {s}) \in Nat /\ PagesOf(new, {s}) \in Nat
  BY <1>3, EntriesFinite
<1>10. FreePages(rows)
         = PhysicalPages - (PagesOf(rows, rest) + PagesOf(rows, gone) + PagesOf(rows, {s}))
  BY <1>4 DEF FreePages
<1>11. FreePages(new) = PhysicalPages - (PagesOf(rows, rest) + 0 + PagesOf(new, {s}))
  BY <1>4, <1>5, <1>6 DEF FreePages
<1>12. PagesOf(new, {s}) - PagesOf(rows, {s}) - FreePages(rows) <= PagesOf(rows, gone)
  BY <1>7, <1>8
<1>13. FreePages(new) >= 0  BY <1>9, <1>10, <1>11, <1>12, Sizes
<1> QED  BY <1>13 DEF new

(* Claiming a slot keeps the books of the others.                          *)
LEMMA ClaimBooks ==
    ASSUME IInv, NEW c, Choosable(c), NEW gone \in SUBSET (Held \ {c.slot}),
           NEW row \in Rows, row.state \in {"Active", "Vacant"},
           row.state = "Vacant" => row.tokens = 0,
           Pages(row.tokens) - Pages(RowsRestored(c)[c.slot].tokens)
               - FreePages(RowsRestored(c)) <= PagesOf(RowsRestored(c), gone),
           Claim(c, gone, row)
    PROVE  /\ retained' \in [Slots -> RetainedPrefixes \cup {None}]
           /\ pool' \in [Slots -> Rows]
           /\ Held' = Held \ (gone \cup {c.slot})
           /\ \A s \in Held' : /\ retained'[s] = retained[s] /\ pool'[s] = pool[s]
                               /\ retained'[s].boundary \in 1 .. Len(retained'[s].tokens)
           /\ \A s \in Running : pool'[s] = pool[s]
           /\ pool'[c.slot] = row
           /\ order' \in Seq(Slots) /\ ToSet(order') = Held' /\ Distinct(order')
           /\ \A s \in Slots : /\ pool'[s].state = "Retained" <=> s \in Held'
                               /\ pool'[s].state = "Vacant" => pool'[s].tokens = 0
           /\ FreePages(pool') >= 0
<1> DEFINE rows == RowsRestored(c)  s == c.slot  out == gone \cup {s}
<1>1. /\ s \in Slots /\ s \notin Running
      /\ retained \in [Slots -> RetainedPrefixes \cup {None}]
      /\ order \in Seq(Slots) /\ ToSet(order) = Held /\ Distinct(order)
      /\ Held \subseteq Slots /\ Running \cap Held = {} /\ Running \subseteq Slots
  BY DEF Choosable, IInv, TypeOK, Books, Held, Running
<1>2. /\ rows \in [Slots -> Rows]
      /\ \A t \in Slots : t # s => rows[t] = pool[t]
  BY RestoredRows
<1>3. /\ retained' = Cleared(retained, out) /\ order' = Without(order, out)
      /\ pool' = [Given(rows, gone) EXCEPT ![s] = row]
  BY DEF Claim
<1> HIDE DEF rows, s
<1>4. retained' = [t \in Slots |-> IF t \in out THEN None ELSE retained[t]]
  BY <1>3 DEF Cleared
<1> HIDE DEF out
<1>5. retained' \in [Slots -> RetainedPrefixes \cup {None}]  BY <1>1, <1>4
<1>6. Held' = Held \ out  BY <1>4 DEF Held
<1>7. /\ pool'[s] = row
      /\ \A t \in Slots \ out : pool'[t] = pool[t]
      /\ \A t \in gone : pool'[t] = Vacant
  <2>0. s \notin gone /\ gone \subseteq Slots /\ out = gone \cup {s}
    BY <1>1 DEF s, out
  <2>1. \A t \in Slots : t # s =>
          pool'[t] = IF t \in gone THEN Vacant ELSE rows[t]
    BY <1>3 DEF Given
  <2>2. pool'[s] = row  BY <1>1, <1>3 DEF Given
  <2>3. \A t \in Slots \ out : t # s /\ t \notin gone  BY <2>0
  <2>4. \A t \in Slots \ out : rows[t] = pool[t]  BY <1>2, <2>3 DEF s
  <2>5. \A t \in Slots \ out : pool'[t] = pool[t]  BY <2>1, <2>3, <2>4
  <2>6. \A t \in gone : pool'[t] = Vacant  BY <2>0, <2>1
  <2> QED  BY <2>2, <2>5, <2>6
<1>8. pool' \in [Slots -> Rows]  BY <1>1, <1>2, <1>3, Sizes DEF Given, Rows, Vacant
<1>9. ASSUME NEW t \in Held'
      PROVE  /\ retained'[t] = retained[t] /\ pool'[t] = pool[t]
             /\ retained'[t].boundary \in 1 .. Len(retained'[t].tokens)
  <2>1. t \in Slots \ out /\ t \in Held  BY <1>1, <1>6
  <2>2. retained'[t] = retained[t]  BY <1>4, <2>1
  <2>3. retained[t].boundary \in 1 .. Len(retained[t].tokens)  BY <2>1 DEF IInv, TypeOK
  <2> QED  BY <1>7, <2>1, <2>2, <2>3
<1>10. \A t \in Running : pool'[t] = pool[t]
  <2>1. \A t \in Running : t \in Slots \ out  BY <1>1 DEF out, s
  <2> QED  BY <1>7, <2>1
<1>11. order' \in Seq(Slots) /\ ToSet(order') = Held' /\ Distinct(order')
  BY <1>1, <1>3, <1>6, WithoutKeeps
<1>12. ASSUME NEW t \in Slots
       PROVE  /\ pool'[t].state = "Retained" <=> t \in Held'
              /\ pool'[t].state = "Vacant" => pool'[t].tokens = 0
  <2>1. /\ pool[t].state = "Retained" <=> t \in Held
        /\ pool[t].state = "Vacant" => pool[t].tokens = 0
    BY DEF IInv, Books
  <2>2. CASE t \in Slots \ out  BY <1>6, <1>7, <2>1, <2>2
  <2>3. CASE t \in gone  BY <1>6, <1>7, <2>3 DEF Vacant, out
  <2>4. CASE t = s  BY <1>6, <1>7, <2>4 DEF out
  <2> QED  BY <2>2, <2>3, <2>4 DEF out
<1>13. FreePages(pool') >= 0
  <2>1. gone \in SUBSET (Slots \ {s})  BY <1>1 DEF s
  <2>2. Pages(row.tokens) - Pages(rows[s].tokens) - FreePages(rows) <= PagesOf(rows, gone)
    BY DEF rows, s
  <2> QED  BY <1>1, <1>2, <1>3, <2>1, <2>2, ClaimFits
<1> QED
  BY <1>5, <1>6, <1>7, <1>8, <1>9, <1>10, <1>11, <1>12, <1>13 DEF s, out

(* What running requests and failed admissions hold is what the prefixes   *)
(* cannot give.                                                            *)
LEMMA ShortIsHonest ==
    ASSUME IInv, NEW c, Choosable(c), NEW need \in Nat,
           Missing(RowsRestored(c), c, need) > Reclaimable(RowsRestored(c), c)
    PROVE  LET rows == RowsRestored(c)
           IN  Pages(need) + PagesOf(rows, { s \in Slots : rows[s].state = "Active" })
                 > PhysicalPages
<1> DEFINE rows == RowsRestored(c)  slot == c.slot
           A == { s \in Slots : rows[s].state = "Active" }
           V == { s \in Slots : rows[s].state = "Vacant" }
<1>1. /\ rows \in [Slots -> Rows] /\ FreePages(rows) \in Nat
      /\ \A s \in Slots : rows[s].state = pool[s].state
      /\ \A s \in Slots : s # slot => rows[s] = pool[s]
      /\ ~c.fallback => rows = pool
      /\ slot \in Slots
  BY RestoredRows DEF Choosable
<1>2. /\ \A s \in Slots : /\ pool[s].state = "Retained" <=> s \in Held
                          /\ pool[s].state = "Vacant" => pool[s].tokens = 0
      /\ Held \subseteq Slots /\ pool \in [Slots -> Rows]
      /\ c.fallback => slot \in Held
  BY DEF IInv, TypeOK, Rows, Books, Held, Choosable
<1>3. /\ Missing(rows, c, need) \in Int
      /\ Missing(rows, c, need) = Pages(need) - Pages(rows[slot].tokens) - FreePages(rows)
  BY MissingMeans
<1>4. Missing(rows, c, need) > PagesOf(rows, Held \ {slot})  BY DEF Reclaimable
<1> HIDE DEF rows, slot
<1>5. /\ A \in SUBSET Slots /\ V \in SUBSET Slots /\ Held \in SUBSET Slots
      /\ A \cap Held = {} /\ (A \cup Held) \cap V = {} /\ (A \cup Held) \cup V = Slots
      /\ A \cup Held \in SUBSET Slots
  BY <1>1, <1>2 DEF Rows
<1>6. PagesOf(rows, V) = 0
  <2>1. \A s \in V : rows[s].tokens = 0
    <3> SUFFICES ASSUME NEW s \in V PROVE rows[s].tokens = 0  OBVIOUS
    <3>1. s \in Slots /\ pool[s].state = "Vacant" /\ pool[s].tokens = 0  BY <1>1, <1>2
    <3>2. rows[s] = pool[s]  BY <1>1, <1>2, <3>1
    <3> QED  BY <3>1, <3>2
  <2> HIDE DEF V
  <2> QED  BY <1>5, <2>1, PagesOfNone
<1> HIDE DEF A, V
<1>7. PagesOf(rows, Slots) = PagesOf(rows, A) + PagesOf(rows, Held)
  <2>1. PagesOf(rows, A \cup Held) = PagesOf(rows, A) + PagesOf(rows, Held)
    BY <1>5, PagesAdd
  <2>2. PagesOf(rows, (A \cup Held) \cup V) = PagesOf(rows, A \cup Held) + PagesOf(rows, V)
    BY <1>5, PagesAdd
  <2>3. PagesOf(rows, A \cup Held) \in Nat  BY <1>5, EntriesFinite
  <2>4. PagesOf(rows, Slots) = PagesOf(rows, A \cup Held) + 0
    BY <1>5, <1>6, <2>2
  <2> QED  BY <2>1, <2>3, <2>4
<1> DEFINE a == PagesOf(rows, A)  h == PagesOf(rows, Held)
           o == PagesOf(rows, Held \ {slot})  p == Pages(rows[slot].tokens)
<1>8. a \in Nat /\ h \in Nat /\ o \in Nat /\ p \in Nat /\ Pages(need) \in Nat
  <2>1. Held \ {slot} \in SUBSET Slots  BY <1>5
  <2> QED  BY <1>1, <1>5, <2>1, EntriesFinite, RowFacts, PagesBounds
<1>9. PagesOf(rows, {slot}) = p
  <2>1. rows[slot].tokens \in 0 .. ContextCapacity  BY <1>1, RowFacts
  <2> QED  BY <1>1, <2>1, PagesOfOne
<1>10. h <= o + p
  <2>1. CASE slot \in Held
    <3>1. Held \ {slot} \in SUBSET Slots /\ {slot} \in SUBSET Slots
          /\ (Held \ {slot}) \cap {slot} = {} /\ (Held \ {slot}) \cup {slot} = Held
      BY <1>1, <1>5, <2>1
    <3>2. PagesOf(rows, (Held \ {slot}) \cup {slot}) = o + PagesOf(rows, {slot})
      BY <3>1, PagesAdd
    <3>3. h = o + p  BY <1>9, <3>1, <3>2
    <3> QED  BY <1>8, <3>3
  <2>2. CASE slot \notin Held
    <3>1. Held \ {slot} = Held  BY <2>2
    <3> QED  BY <1>8, <3>1
  <2> QED  BY <2>1, <2>2
<1>11. Pages(need) - p - (PhysicalPages - (a + h)) > o
  BY <1>3, <1>4, <1>7 DEF FreePages
<1> HIDE DEF a, h, o, p
<1>12. Pages(need) + a > PhysicalPages  BY <1>8, <1>10, <1>11, Sizes
<1> QED  BY <1>12 DEF a, A, rows

(* The slots that an admission or a scoring request leaves alone.          *)
LEMMA OthersStay ==
    ASSUME IInv, NEW slot \in Slots, slot \notin Running,
           NEW gone \in SUBSET (Held \ {slot}),
           Held' = Held \ (gone \cup {slot}),
           \A s \in Held' : retained'[s] = retained[s] /\ pool'[s] = pool[s],
           \A s \in Running : pool'[s] = pool[s] /\ session'[s] = session[s],
           \A s \in Slots \ (gone \cup {slot}) :
              device'[s] = device[s] /\ snapshot'[s] = snapshot[s]
    PROVE  /\ \A s \in Running : RunsExactly(s)'
           /\ \A s \in Held' : KeptExactly(s)'
<1>1. Running \subseteq Slots /\ Held \subseteq Slots /\ Running \cap Held = {}
  BY DEF IInv, Books, Running, Held
<1>2. ASSUME NEW s \in Running PROVE RunsExactly(s)'
  <2>1. s \in Slots \ (gone \cup {slot})  BY <1>1
  <2> QED  BY <2>1, RunsFrame DEF IInv
<1>3. ASSUME NEW s \in Held' PROVE KeptExactly(s)'
  <2>1. s \in Slots \ (gone \cup {slot}) /\ s \in Held  BY <1>1
  <2>2. retained'[s] = retained[s] /\ pool'[s] = pool[s]  OBVIOUS
  <2>3. device'[s] = device[s] /\ snapshot'[s] = snapshot[s]  BY <2>1
  <2>4. KeptExactly(s)  BY <2>1 DEF IInv
  <2> QED  BY <2>1, <2>2, <2>3, <2>4, KeptFrame
<1> QED  BY <1>2, <1>3

-----------------------------------------------------------------------------
(* Each action preserves the invariant.                                    *)

LEMMA AdmitEarlyInv == ASSUME IInv, NEW r \in Requests, AdmitEarly(r) PROVE IInv'
<1>1. /\ UNCHANGED state
      /\ \E k \in Kinds \ {"pages"} : Answer(k, 0)
  BY DEF AdmitEarly, Kinds
<1>2. answer' \in [kind : Kinds, need : Nat] /\ answer'.kind # "pages"
  BY <1>1 DEF Answer
<1> QED  BY <1>1, <1>2, QuietInv

LEMMA AdmitRefusedInv == ASSUME IInv, NEW r \in Requests, AdmitRefused(r) PROVE IInv'
<1>1. PICK c \in Choice(r) :
        IF Inconsistent(c, r) THEN Answer("internal", 0) /\ UNCHANGED state
        ELSE /\ Short(c, r)
             /\ pool' = RowsRestored(c) /\ retained' = PrefixRestored(c)
             /\ device' = [device EXCEPT ![c.slot] = Restored(c)]
             /\ Answer("pages", Required(r))
             /\ UNCHANGED <<session, active, order, snapshot>>
  BY DEF AdmitRefused
<1>2. CASE Inconsistent(c, r)
  <2>1. UNCHANGED state /\ Answer("internal", 0)  BY <1>1, <1>2
  <2>2. answer' \in [kind : Kinds, need : Nat] /\ answer'.kind # "pages"
    BY <2>1 DEF Answer, Kinds
  <2> QED  BY <2>1, <2>2, QuietInv
<1>3. CASE ~Inconsistent(c, r)
  <2> DEFINE s == c.slot
  <2>1. /\ Short(c, r)
        /\ pool' = RowsRestored(c) /\ retained' = PrefixRestored(c)
        /\ device' = [device EXCEPT ![s] = Restored(c)]
        /\ Answer("pages", Required(r))
        /\ UNCHANGED <<session, active, order, snapshot>>
    BY <1>1, <1>3
  <2>2. /\ Choosable(c) /\ s \in Slots /\ s \notin Running /\ Required(r) \in Nat
        /\ c.fallback \in BOOLEAN
    BY ChoiceFacts, RequestFacts DEF Choosable
  <2>3. answer' = [kind |-> "pages", need |-> Required(r)]  BY <2>1 DEF Answer
  <2>4. answer' \in [kind : Kinds, need : Nat] /\ answer'.need = Required(r)
    BY <2>2, <2>3 DEF Kinds
  <2>5. Pages(Required(r))
          + PagesOf(RowsRestored(c), { t \in Slots : RowsRestored(c)[t].state = "Active" })
          > PhysicalPages
    BY <2>1, <2>2, ShortIsHonest DEF Short
  <2>6. CASE ~c.fallback
    <3>1. RowsRestored(c) = pool /\ PrefixRestored(c) = retained /\ Restored(c) = device[s]
      BY <2>6 DEF RowsRestored, PrefixRestored, Restored
    <3>2. device' = device  BY <2>1, <3>1 DEF IInv, TypeOK
    <3>3. UNCHANGED state  BY <2>1, <3>1, <3>2 DEF state
    <3>4. Pages(answer'.need) + PagesOf(pool, { t \in Slots : pool[t].state = "Active" })
            > PhysicalPages
      BY <2>4, <2>5, <3>1
    <3> QED  BY <2>4, <3>3, <3>4, QuietInv
  <2>7. CASE c.fallback
    <3> DEFINE x == retained[s]  b == x.boundary  cut == SubSeq(x.tokens, 1, b)
               d == Restored(c)
    <3>1. s \in Held /\ c.reused = b  BY <2>2, <2>7 DEF Choosable
    <3>2. /\ x \in RetainedPrefixes /\ x.tokens \in Seq(Tokens) /\ x.tokens # << >>
          /\ Len(x.tokens) \in Nat \ {0}
          /\ b \in Nat \ {0} /\ b <= Len(x.tokens) /\ b \in 0 .. Len(x.tokens)
      BY <3>1, HeldFacts DEF IInv
    <3>3. /\ IsPrefix(x.tokens, device[s].kv) /\ IsPrefix(Tail(x.tokens), device[s].mtp)
          /\ pool[s].state = "Retained"
          /\ snapshot[s] = cut
      <4>1. KeptExactly(s)  BY <3>1 DEF IInv
      <4>2. pool[s] = [state |-> "Retained", tokens |-> Len(retained[s].tokens)]
        BY <4>1 DEF KeptExactly
      <4>3. pool[s].state = "Retained"  BY <4>2
      <4> QED  BY <4>1, <4>3 DEF KeptExactly
    <3>4. /\ device \in [Slots -> Devices] /\ device[s] \in Devices
          /\ device[s].kv \in Seq(Tokens) /\ device[s].mtp \in Seq(Tokens)
      BY <2>2, DeviceFacts DEF IInv, TypeOK, Devices
    <3> HIDE DEF s, x
    <3>5. cut \in Seq(Tokens) /\ Len(cut) = b  BY <3>2, Cut
    <3>6. d = [device[s] EXCEPT !.gdn = cut, !.hidden = cut]
      BY <2>7, <3>3 DEF Restored, s
    <3>7. /\ d \in Devices /\ d.kv = device[s].kv /\ d.mtp = device[s].mtp
          /\ d.gdn = cut /\ d.hidden = cut
      BY <3>4, <3>5, <3>6 DEF Devices
    <3>8. retained' = [retained EXCEPT ![s].tokens = cut]
      BY <2>1, <2>7, <3>1 DEF PrefixRestored, s, x
    <3>9. retained \in [Slots -> RetainedPrefixes \cup {None}]  BY DEF IInv, TypeOK
    <3>10. /\ retained'[s] = [x EXCEPT !.tokens = cut]
           /\ \A t \in Slots : t # s => retained'[t] = retained[t]
      BY <2>2, <3>8, <3>9 DEF s, x
    <3>11. /\ retained'[s] \in RetainedPrefixes
           /\ retained'[s].tokens = cut /\ retained'[s].boundary = b
      BY <3>2, <3>5, <3>10 DEF RetainedPrefixes
    <3>12. retained' \in [Slots -> RetainedPrefixes \cup {None}]
      BY <3>8, <3>9, <3>10, <3>11
    <3>13. Held' = Held
      <4>1. retained'[s] # None /\ retained[s] # None  BY <3>1, <3>11, NoneIsNone DEF Held, s
      <4> QED  BY <3>10, <4>1 DEF Held
    <3>14. Running' = Running  BY <2>1 DEF Running
    <3>15. /\ pool' \in [Slots -> Rows]
           /\ \A t \in Slots : t # s => pool'[t] = pool[t]
           /\ pool'[s].state = "Retained" /\ pool'[s].tokens = b
           /\ FreePages(pool') >= 0
      BY <2>1, <2>2, <2>7, <3>1, <3>3, RestoredRows DEF s
    <3>16. device'[s] = d /\ \A t \in Slots : t # s => device'[t] = device[t]
      BY <2>1, <2>2, <3>4 DEF s
    <3>17. device' \in [Slots -> Devices]  BY <2>1, <2>2, <3>4, <3>7 DEF s
    <3>18. snapshot' = snapshot /\ session' = session /\ active' = active /\ order' = order
      BY <2>1
    <3> HIDE DEF b, d
    <3>19. TypeOK'
      <4>1. \A t \in Held' : retained'[t].boundary \in 1 .. Len(retained'[t].tokens)
        <5> SUFFICES ASSUME NEW t \in Held
                     PROVE  retained'[t].boundary \in 1 .. Len(retained'[t].tokens)
          BY <3>13
        <5>1. CASE t = s
          <6>1. b \in 1 .. b  BY <3>2
          <6> QED  BY <3>5, <3>11, <5>1, <6>1
        <5>2. CASE t # s
          <6>1. t \in Slots /\ retained[t].boundary \in 1 .. Len(retained[t].tokens)
            BY DEF IInv, TypeOK, Held
          <6> QED  BY <3>10, <5>2, <6>1
        <5> QED  BY <5>1, <5>2
      <4> QED
        BY <2>4, <3>12, <3>14, <3>15, <3>17, <3>18, <4>1
        DEF IInv, TypeOK, Kinds, Devices, Rows
    <3>20. \A t \in Running' : RunsExactly(t)'
      <4> SUFFICES ASSUME NEW t \in Running PROVE RunsExactly(t)'  BY <3>14
      <4>1. t \in Slots /\ t # s  BY <2>2 DEF Running, s
      <4> QED  BY <3>15, <3>16, <3>18, <4>1, RunsFrame DEF IInv
    <3>21. KeptExactly(s)'
      <4>1. pool'[s] = [state |-> "Retained", tokens |-> b]  BY <2>2, <3>15 DEF Rows, s
      <4>2. IsPrefix(cut, device[s].kv)
        <5>1. IsPrefix(cut, x.tokens)  BY <3>2, CutIsPrefix
        <5> HIDE DEF cut
        <5> QED  BY <3>2, <3>3, <3>4, <3>5, <5>1, PrefixOfPrefix
      <4>3. IsPrefix(Tail(cut), device[s].mtp)
        <5>1. b \in 1 .. Len(x.tokens)  BY <3>2
        <5>2. Tail(cut) = SubSeq(Tail(x.tokens), 1, b - 1) /\ cut # << >>
          BY <3>2, <5>1, TailGlue
        <5>3. Tail(x.tokens) \in Seq(Tokens) /\ Len(Tail(x.tokens)) = Len(x.tokens) - 1
          BY <3>2, TailMeans
        <5>4. b - 1 \in 0 .. Len(Tail(x.tokens))  BY <3>2, <5>3
        <5>5. IsPrefix(Tail(cut), Tail(x.tokens))  BY <5>2, <5>3, <5>4, CutIsPrefix
        <5>6. Tail(cut) \in Seq(Tokens)  BY <3>5, <5>2, TailMeans
        <5> QED  BY <3>3, <3>4, <5>3, <5>5, <5>6, PrefixOfPrefix
      <4>4. SubSeq(cut, 1, b) = cut  BY <3>5, SubSeqFull
      <4> HIDE DEF cut
      <4> QED
        BY <3>3, <3>5, <3>7, <3>11, <3>16, <3>18, <4>1, <4>2, <4>3, <4>4
        DEF KeptExactly, OpenOrCut
    <3>22. \A t \in Held' : KeptExactly(t)'
      <4> SUFFICES ASSUME NEW t \in Held, t # s PROVE KeptExactly(t)'  BY <3>13, <3>21
      <4>1. t \in Slots  BY DEF Held
      <4> QED  BY <3>10, <3>15, <3>16, <3>18, <4>1, KeptFrame DEF IInv
    <3>23. Books'
      <4>1. \A t \in Slots : /\ pool'[t].state = "Retained" <=> t \in Held'
                             /\ pool'[t].state = "Vacant" => pool'[t].tokens = 0
        <5> SUFFICES ASSUME NEW t \in Slots
                     PROVE  /\ pool'[t].state = "Retained" <=> t \in Held
                            /\ pool'[t].state = "Vacant" => pool'[t].tokens = 0
          BY <3>13
        <5>1. CASE t = s  BY <3>1, <3>15, <5>1 DEF s
        <5>2. CASE t # s  BY <3>15, <5>2 DEF IInv, Books
        <5> QED  BY <5>1, <5>2
      <4>2. FreePages(pool)' >= 0  BY <3>15 DEF FreePages
      <4> QED  BY <3>13, <3>14, <3>18, <4>1, <4>2 DEF IInv, Books
    <3>24. RefusalIsHonest'
      BY <2>1, <2>4, <2>5 DEF RefusalIsHonest
    <3> QED  BY <3>19, <3>20, <3>22, <3>23, <3>24 DEF IInv
  <2> QED  BY <2>2, <2>6, <2>7
<1> QED  BY <1>2, <1>3

(* An admission that gets its pages: what all its ends have in common.     *)
LEMMA AdmissibleFacts ==
    ASSUME IInv, NEW r \in Requests, NEW c \in Admissible(r)
    PROVE  LET gone == Victims(RowsRestored(c), c, Required(r))
           IN  /\ c \in Choice(r) /\ Choosable(c)
               /\ c.slot \in Slots /\ c.slot \notin Running
               /\ Required(r) \in 0 .. ContextCapacity
               /\ Required(r) = Len(r.prompt) + r.budget - 1 /\ r.budget > 0
               /\ gone \in SUBSET (Held \ {c.slot})
               /\ Pages(Required(r)) - Pages(RowsRestored(c)[c.slot].tokens)
                    - FreePages(RowsRestored(c)) <= PagesOf(RowsRestored(c), gone)
               /\ Pages(0) - Pages(RowsRestored(c)[c.slot].tokens)
                    - FreePages(RowsRestored(c)) <= PagesOf(RowsRestored(c), gone)
<1> DEFINE rows == RowsRestored(c)  gone == Victims(rows, c, Required(r))
<1>1. c \in Choice(r) /\ ~Short(c, r)  BY DEF Admissible
<1>2. /\ Choosable(c) /\ r.budget > 0 /\ Required(r) \in 0 .. ContextCapacity
      /\ Required(r) \in Nat /\ Required(r) = Len(r.prompt) + r.budget - 1
  BY <1>1, ChoiceFacts, RequestFacts
<1>3. c.slot \in Slots /\ c.slot \notin Running  BY <1>2 DEF Choosable
<1>4. Missing(rows, c, Required(r)) <= Reclaimable(rows, c)
  <2>1. ~(Missing(rows, c, Required(r)) > Reclaimable(rows, c))  BY <1>1 DEF Short
  <2>2. Missing(rows, c, Required(r)) \in Int  BY <1>2, MissingMeans
  <2>3. Reclaimable(rows, c) \in Nat
    <3>1. Held \ {c.slot} \in SUBSET Slots  BY DEF Held
    <3> QED  BY <3>1, EntriesFinite DEF Reclaimable
  <2> HIDE DEF rows
  <2> QED  BY <2>1, <2>2, <2>3
<1>5. /\ gone \subseteq Held \ {c.slot}
      /\ Pages(Required(r)) - Pages(rows[c.slot].tokens) - FreePages(rows)
           <= PagesOf(rows, gone)
  BY <1>2, <1>4, VictimsSuffice
<1>6. Pages(0) - Pages(rows[c.slot].tokens) - FreePages(rows) <= PagesOf(rows, gone)
  <2>1. rows \in [Slots -> Rows] /\ FreePages(rows) \in Nat  BY <1>2, RestoredRows
  <2>2. gone \in SUBSET Slots  BY <1>5 DEF Held
  <2> HIDE DEF rows, gone
  <2>3. PagesOf(rows, gone) \in Nat /\ Pages(rows[c.slot].tokens) \in Nat
    BY <1>3, <2>1, <2>2, EntriesFinite, RowFacts
  <2> QED  BY <2>1, <2>3, PagesMonotone
<1> QED  BY <1>1, <1>2, <1>3, <1>5, <1>6

LEMMA AdmitInv == ASSUME IInv, NEW r \in Requests, Admit(r) PROVE IInv'
<1>1. PICK c \in Admissible(r) :
        LET gone == Victims(RowsRestored(c), c, Required(r))
            filled == Prefilled(c, r, Restored(c))
        IN  /\ Claim(c, gone, [state |-> "Active", tokens |-> Required(r)])
            /\ session' = [session EXCEPT ![c.slot] =
                  [prompt |-> r.prompt, boundary |-> r.boundary, budget |-> r.budget,
                   generated |-> << >>, position |-> Len(r.prompt)]]
            /\ active' = Append(active, c.slot)
            /\ device' = [device EXCEPT ![c.slot] = filled]
            /\ snapshot' = [Cleared(snapshot, gone) EXCEPT ![c.slot] =
                               Captured(c, r, filled)]
            /\ Answer("ok", 0)
  BY DEF Admit
<1> DEFINE s == c.slot
           gone == Victims(RowsRestored(c), c, Required(r))
           filled == Prefilled(c, r, Restored(c))
           row == [state |-> "Active", tokens |-> Required(r)]
           x == [prompt |-> r.prompt, boundary |-> r.boundary, budget |-> r.budget,
                 generated |-> << >>, position |-> Len(r.prompt)]
           sn == SubSeq(r.prompt, 1, r.boundary)
<1>2. /\ c \in Choice(r) /\ Choosable(c) /\ s \in Slots /\ s \notin Running
      /\ Required(r) \in 0 .. ContextCapacity
      /\ Required(r) = Len(r.prompt) + r.budget - 1 /\ r.budget > 0
      /\ gone \in SUBSET (Held \ {s})
      /\ Pages(Required(r)) - Pages(RowsRestored(c)[s].tokens)
           - FreePages(RowsRestored(c)) <= PagesOf(RowsRestored(c), gone)
  BY AdmissibleFacts
<1>3. /\ filled \in Devices
      /\ filled.kv = r.prompt /\ filled.gdn = r.prompt
      /\ filled.hidden = r.prompt /\ filled.mtp = Tail(r.prompt)
      /\ Captured(c, r, filled) = sn
  BY <1>2, PrefilledIsExact
<1>4. /\ r.prompt \in Seq(Tokens) /\ r.prompt # << >> /\ Len(r.prompt) \in Nat \ {0, 1}
      /\ r.boundary \in Nat \ {0} /\ r.boundary < Len(r.prompt) /\ r.budget \in Nat
      /\ r = [prompt |-> r.prompt, boundary |-> r.boundary, budget |-> r.budget]
  BY RequestFacts
<1>5. /\ Claim(c, gone, row)
      /\ session' = [session EXCEPT ![s] = x]
      /\ active' = Append(active, s)
      /\ device' = [device EXCEPT ![s] = filled]
      /\ snapshot' = [Cleared(snapshot, gone) EXCEPT ![s] = sn]
      /\ answer' = [kind |-> "ok", need |-> 0]
  BY <1>1, <1>3 DEF Answer
<1>6. row \in Rows /\ row.state = "Active" /\ row.tokens = Required(r)  BY <1>2 DEF Rows
<1> HIDE DEF row, filled, gone
<1>7. /\ retained' \in [Slots -> RetainedPrefixes \cup {None}]
      /\ pool' \in [Slots -> Rows]
      /\ Held' = Held \ (gone \cup {s})
      /\ \A t \in Held' : /\ retained'[t] = retained[t] /\ pool'[t] = pool[t]
                          /\ retained'[t].boundary \in 1 .. Len(retained'[t].tokens)
      /\ \A t \in Running : pool'[t] = pool[t]
      /\ pool'[s] = row
      /\ order' \in Seq(Slots) /\ ToSet(order') = Held' /\ Distinct(order')
      /\ \A t \in Slots : /\ pool'[t].state = "Retained" <=> t \in Held'
                          /\ pool'[t].state = "Vacant" => pool'[t].tokens = 0
      /\ FreePages(pool') >= 0
  BY <1>2, <1>5, <1>6, ClaimBooks
<1>8. /\ session \in [Slots -> Sessions \cup {None}]
      /\ device \in [Slots -> Devices]
      /\ snapshot \in [Slots -> Seq(Tokens) \cup {None}]
      /\ active \in Seq(Slots) /\ ToSet(active) = Running /\ Distinct(active)
      /\ Running \cap Held = {} /\ Running \subseteq Slots
  BY DEF IInv, TypeOK, Devices, Books, Running
<1> HIDE DEF s
<1>9. x \in Sessions
  <2>1. Len(r.prompt) \in 1 .. ContextCapacity
    <3> DEFINE n == Len(r.prompt)  q == Required(r)  b == r.budget
    <3>1. n \in Nat /\ n # 0 /\ b \in Nat /\ b > 0 /\ q = n + b - 1
          /\ q \in 0 .. ContextCapacity
      BY <1>2, <1>4
    <3> HIDE DEF n, q, b
    <3>2. n \in 1 .. ContextCapacity  BY <3>1, Sizes
    <3> QED  BY <3>2 DEF n
  <2>2. << >> \in Seq(Tokens) /\ r.boundary \in Nat  BY <1>4, EmptySeq
  <2> QED  BY <1>4, <2>1, <2>2 DEF Sessions
<1>10. sn \in Seq(Tokens)  BY <1>4, Cut
<1>11. /\ session' \in [Slots -> Sessions \cup {None}] /\ session'[s] = x
       /\ \A t \in Slots : t # s => session'[t] = session[t]
  BY <1>2, <1>5, <1>8, <1>9
<1>12. /\ device' \in [Slots -> Devices] /\ device'[s] = filled
       /\ \A t \in Slots : t # s => device'[t] = device[t]
  BY <1>2, <1>3, <1>5, <1>8
<1>13. /\ snapshot' \in [Slots -> Seq(Tokens) \cup {None}] /\ snapshot'[s] = sn
       /\ \A t \in Slots \ (gone \cup {s}) : snapshot'[t] = snapshot[t]
  BY <1>2, <1>5, <1>8, <1>10 DEF Cleared
<1>14. Running' = Running \cup {s}
  <2>1. x # None  BY <1>9, NoneIsNone
  <2> HIDE DEF x
  <2> QED  BY <1>2, <1>11, <2>1 DEF Running
<1>15. TypeOK'
  <2>1. ASSUME NEW t \in Running'
        PROVE  /\ [prompt |-> session'[t].prompt, boundary |-> session'[t].boundary,
                   budget |-> session'[t].budget] \in Requests
               /\ Len(session'[t].generated) < session'[t].budget
    <3>1. CASE t = s
      <4>1. Len(<< >>) = 0  BY EmptySeq
      <4> QED  BY <1>2, <1>4, <1>11, <3>1, <4>1
    <3>2. CASE t # s
      <4>1. t \in Running /\ t \in Slots  BY <1>8, <1>14, <3>2
      <4>2. session'[t] = session[t]  BY <1>11, <3>2, <4>1
      <4> QED  BY <4>1, <4>2 DEF IInv, TypeOK
    <3> QED  BY <3>1, <3>2
  <2>2. active' \in Seq(Slots)  BY <1>2, <1>5, <1>8, AppendProperties
  <2> HIDE DEF x, sn
  <2> QED
    BY <1>5, <1>7, <1>11, <1>12, <1>13, <2>1, <2>2 DEF TypeOK, Rows, Devices
<1>16. RunsExactly(s)'
  <2>1. r.prompt \o << >> = r.prompt  BY <1>4, ConcatEmptySeq
  <2>2. SubSeq(r.prompt, 1, Len(r.prompt)) = r.prompt  BY <1>4, SubSeqFull
  <2>3. << >> \in Seq(Text)  BY EmptySeq
  <2>4. Processed(x) = r.prompt  BY <2>1, <2>2 DEF Processed
  <2>5. row = [state |-> "Active", tokens |-> Len(r.prompt) + r.budget - 1]
    BY <1>2 DEF row
  <2>6. /\ x.generated = << >> /\ x.prompt = r.prompt /\ x.boundary = r.boundary
        /\ x.budget = r.budget /\ x.position = Len(r.prompt)
    OBVIOUS
  <2> HIDE DEF x
  <2> QED
    BY <1>3, <1>7, <1>11, <1>12, <1>13, <2>1, <2>3, <2>4, <2>5, <2>6 DEF RunsExactly
<1>17. /\ \A t \in Running : RunsExactly(t)'
       /\ \A t \in Held' : KeptExactly(t)'
  <2>1. \A t \in Running : pool'[t] = pool[t] /\ session'[t] = session[t]
    BY <1>2, <1>7, <1>8, <1>11
  <2>2. \A t \in Slots \ (gone \cup {s}) :
           device'[t] = device[t] /\ snapshot'[t] = snapshot[t]
    BY <1>12, <1>13
  <2>3. gone \in SUBSET (Held \ {s}) /\ s \in Slots /\ s \notin Running  BY <1>2 DEF s
  <2> QED  BY <1>7, <2>1, <2>2, <2>3, OthersStay
<1>18. Books'
  <2>1. /\ ToSet(active') = Running' /\ Distinct(active')
    BY <1>2, <1>5, <1>8, <1>14, DistinctAppend
  <2>2. Running' \cap Held' = {}  BY <1>7, <1>8, <1>14
  <2>3. FreePages(pool)' >= 0  BY <1>7 DEF FreePages
  <2> QED  BY <1>7, <2>1, <2>2, <2>3 DEF Books
<1>19. RefusalIsHonest'
  <2>1. answer'.kind # "pages"  BY <1>5
  <2> QED  BY <2>1 DEF RefusalIsHonest
<1>20. \A t \in Running' : RunsExactly(t)'  BY <1>14, <1>16, <1>17
<1> QED  BY <1>15, <1>17, <1>18, <1>19, <1>20 DEF IInv

(* A slot that is claimed and left without a request: an admission that    *)
(* fails after it has claimed its slot, and a scoring request.             *)
LEMMA EmptiedInv ==
    ASSUME IInv, NEW c, Choosable(c), NEW gone \in SUBSET (Held \ {c.slot}),
           NEW row \in Rows, row.state \in {"Active", "Vacant"},
           row.state = "Vacant" => row.tokens = 0,
           Pages(row.tokens) - Pages(RowsRestored(c)[c.slot].tokens)
               - FreePages(RowsRestored(c)) <= PagesOf(RowsRestored(c), gone),
           Claim(c, gone, row),
           device' = [device EXCEPT ![c.slot] = Unknown],
           snapshot' \in [Slots -> Seq(Tokens) \cup {None}],
           \A t \in Slots \ (gone \cup {c.slot}) : snapshot'[t] = snapshot[t],
           UNCHANGED <<session, active>>,
           answer' \in [kind : Kinds, need : Nat], answer'.kind # "pages"
    PROVE  IInv'
<1> DEFINE s == c.slot
<1>1. s \in Slots /\ s \notin Running  BY DEF Choosable
<1>2. /\ retained' \in [Slots -> RetainedPrefixes \cup {None}]
      /\ pool' \in [Slots -> Rows]
      /\ Held' = Held \ (gone \cup {s})
      /\ \A t \in Held' : /\ retained'[t] = retained[t] /\ pool'[t] = pool[t]
                          /\ retained'[t].boundary \in 1 .. Len(retained'[t].tokens)
      /\ \A t \in Running : pool'[t] = pool[t]
      /\ order' \in Seq(Slots) /\ ToSet(order') = Held' /\ Distinct(order')
      /\ \A t \in Slots : /\ pool'[t].state = "Retained" <=> t \in Held'
                          /\ pool'[t].state = "Vacant" => pool'[t].tokens = 0
      /\ FreePages(pool') >= 0
  BY ClaimBooks
<1>3. /\ session \in [Slots -> Sessions \cup {None}]
      /\ device \in [Slots -> Devices]
      /\ active \in Seq(Slots) /\ ToSet(active) = Running /\ Distinct(active)
      /\ Running \cap Held = {} /\ Running \subseteq Slots
  BY DEF IInv, TypeOK, Devices, Books, Running
<1>4. Unknown \in Devices
  <2>1. <<Garbage>> \in Seq(Tokens)  BY TextIsTokens
  <2> QED  BY <2>1 DEF Unknown, Devices
<1>5. /\ device' \in [Slots -> Devices]
      /\ \A t \in Slots : t # s => device'[t] = device[t]
  BY <1>1, <1>3, <1>4
<1>6. Running' = Running  BY DEF Running
<1> HIDE DEF s
<1>7. TypeOK'
  BY <1>2, <1>3, <1>5, <1>6 DEF IInv, TypeOK, Rows, Devices, Kinds
<1>8. /\ \A t \in Running : RunsExactly(t)'
      /\ \A t \in Held' : KeptExactly(t)'
  <2>1. \A t \in Running : pool'[t] = pool[t] /\ session'[t] = session[t]  BY <1>2
  <2>2. \A t \in Slots \ (gone \cup {s}) :
           device'[t] = device[t] /\ snapshot'[t] = snapshot[t]
    BY <1>5 DEF s
  <2>3. gone \in SUBSET (Held \ {s})  BY DEF s
  <2> QED  BY <1>1, <1>2, <2>1, <2>2, <2>3, OthersStay
<1>9. Books'
  <2>1. FreePages(pool)' >= 0  BY <1>2 DEF FreePages
  <2> QED  BY <1>2, <1>3, <1>6, <2>1 DEF Books
<1> QED  BY <1>6, <1>7, <1>8, <1>9 DEF IInv, RefusalIsHonest

LEMMA AdmitAbortedInv == ASSUME IInv, NEW r \in Requests, AdmitAborted(r) PROVE IInv'
<1>1. PICK c \in Admissible(r) :
        LET gone == Victims(RowsRestored(c), c, Required(r)) IN
        /\ Claim(c, gone, Vacant)
        /\ device' = [device EXCEPT ![c.slot] = Unknown]
        /\ snapshot' = Cleared(snapshot, gone \cup {c.slot})
        /\ Answer("aborted", 0)
        /\ UNCHANGED <<session, active>>
  BY DEF AdmitAborted
<1> DEFINE gone == Victims(RowsRestored(c), c, Required(r))
<1>2. /\ Choosable(c) /\ gone \in SUBSET (Held \ {c.slot})
      /\ Pages(0) - Pages(RowsRestored(c)[c.slot].tokens)
           - FreePages(RowsRestored(c)) <= PagesOf(RowsRestored(c), gone)
  BY AdmissibleFacts
<1> HIDE DEF gone
<1>3. Vacant \in Rows /\ Vacant.state = "Vacant" /\ Vacant.tokens = 0  BY Sizes DEF Vacant, Rows
<1>4. /\ snapshot' \in [Slots -> Seq(Tokens) \cup {None}]
      /\ \A t \in Slots \ (gone \cup {c.slot}) : snapshot'[t] = snapshot[t]
  BY <1>1 DEF IInv, TypeOK, Cleared, gone
<1>5. answer' \in [kind : Kinds, need : Nat] /\ answer'.kind # "pages"
  BY <1>1 DEF Answer, Kinds
<1>6. Claim(c, gone, Vacant)  BY <1>1 DEF gone
<1> QED  BY <1>1, <1>2, <1>3, <1>4, <1>5, <1>6, EmptiedInv

LEMMA AdmitFailsInv == ASSUME IInv, NEW r \in Requests, AdmitFails(r) PROVE IInv'
<1>1. PICK c \in Admissible(r) :
        LET gone == Victims(RowsRestored(c), c, Required(r)) IN
        /\ Claim(c, gone, [state |-> "Active", tokens |-> Required(r)])
        /\ device' = [device EXCEPT ![c.slot] = Unknown]
        /\ snapshot' = [Cleared(snapshot, gone) EXCEPT ![c.slot] = <<Garbage>>]
        /\ Answer("failed", 0)
        /\ UNCHANGED <<session, active>>
  BY DEF AdmitFails
<1> DEFINE gone == Victims(RowsRestored(c), c, Required(r))
           row == [state |-> "Active", tokens |-> Required(r)]
<1>2. /\ Choosable(c) /\ gone \in SUBSET (Held \ {c.slot})
      /\ Required(r) \in 0 .. ContextCapacity
      /\ Pages(Required(r)) - Pages(RowsRestored(c)[c.slot].tokens)
           - FreePages(RowsRestored(c)) <= PagesOf(RowsRestored(c), gone)
  BY AdmissibleFacts
<1>3. row \in Rows /\ row.state = "Active" /\ row.tokens = Required(r)  BY <1>2 DEF Rows
<1>6. Claim(c, gone, row)  BY <1>1
<1> HIDE DEF gone, row
<1>4. /\ snapshot' \in [Slots -> Seq(Tokens) \cup {None}]
      /\ \A t \in Slots \ (gone \cup {c.slot}) : snapshot'[t] = snapshot[t]
  <2>1. <<Garbage>> \in Seq(Tokens)  BY TextIsTokens
  <2>2. c.slot \in Slots  BY <1>2 DEF Choosable
  <2> QED  BY <1>1, <2>1, <2>2 DEF IInv, TypeOK, Cleared, gone
<1>5. answer' \in [kind : Kinds, need : Nat] /\ answer'.kind # "pages"
  BY <1>1 DEF Answer, Kinds
<1> QED  BY <1>1, <1>2, <1>3, <1>4, <1>5, <1>6, EmptiedInv

(* A scoring request starts in slot 0 of a scheduler without requests.     *)
LEMMA IdleFacts ==
    ASSUME IInv, active = << >>
    PROVE  Choosable(Reset(0)) /\ RowsRestored(Reset(0)) = pool
<1>1. ToSet(active) = {}  BY EmptySeq DEF ToSet
<1>2. Running = {}  BY <1>1 DEF IInv, Books
<1> QED  BY <1>2, Sizes DEF Choosable, Reset, RowsRestored

LEMMA ScoreRefusedInv ==
    ASSUME IInv, NEW n \in ScoreLengths, ScoreRefused(n) PROVE IInv'
<1>1. n \in Nat  BY SchedulerAssumption
<1>2. UNCHANGED state  BY DEF ScoreRefused
<1>3. CASE answer' \in {[kind |-> "busy", need |-> 0], [kind |-> "context", need |-> 0]}
  <2>1. answer' \in [kind : Kinds, need : Nat] /\ answer'.kind # "pages"
    BY <1>3 DEF Kinds
  <2> QED  BY <1>2, <2>1, QuietInv
<1>4. CASE /\ active = << >> /\ answer' = [kind |-> "pages", need |-> n]
           /\ Missing(pool, Reset(0), n) > Reclaimable(pool, Reset(0))
  <2>1. answer' \in [kind : Kinds, need : Nat] /\ answer'.need = n
    BY <1>1, <1>4 DEF Kinds
  <2>2. Choosable(Reset(0)) /\ RowsRestored(Reset(0)) = pool  BY <1>4, IdleFacts
  <2>3. Pages(n) + PagesOf(pool, { s \in Slots : pool[s].state = "Active" }) > PhysicalPages
    BY <1>1, <1>4, <2>2, ShortIsHonest
  <2> QED  BY <1>2, <2>1, <2>3, QuietInv
<1> QED  BY <1>3, <1>4 DEF ScoreRefused, Answer

LEMMA ScoreInv == ASSUME IInv, NEW n \in ScoreLengths, Score(n) PROVE IInv'
<1> DEFINE c == Reset(0)  gone == Victims(pool, c, n)
<1>1. /\ active = << >> /\ Missing(pool, c, n) <= Reclaimable(pool, c)
      /\ Claim(c, gone, Vacant)
      /\ device' = [device EXCEPT ![0] = Unknown]
      /\ snapshot' = Cleared(snapshot, gone \cup {0})
      /\ answer' = [kind |-> "ok", need |-> 0]
      /\ UNCHANGED <<session, active>>
  BY DEF Score, Answer
<1>2. n \in Nat /\ Choosable(c) /\ RowsRestored(c) = pool
  BY <1>1, IdleFacts, SchedulerAssumption
<1>3. c.slot = 0  BY DEF Reset
<1>4. /\ gone \subseteq Held \ {0}
      /\ Pages(n) - Pages(pool[0].tokens) - FreePages(pool) <= PagesOf(pool, gone)
  <2> HIDE DEF c
  <2>1. /\ gone \subseteq Held \ {c.slot}
        /\ Pages(n) - Pages(pool[c.slot].tokens) - FreePages(pool) <= PagesOf(pool, gone)
    BY <1>1, <1>2, VictimsSuffice
  <2> QED  BY <1>3, <2>1
<1> HIDE DEF gone, c
<1>5. Pages(0) - Pages(pool[0].tokens) - FreePages(pool) <= PagesOf(pool, gone)
  <2>1. pool \in [Slots -> Rows] /\ FreePages(pool) \in Nat  BY <1>2, RestoredRows
  <2>2. gone \in SUBSET Slots  BY <1>4 DEF Held
  <2>3. PagesOf(pool, gone) \in Nat /\ Pages(pool[0].tokens) \in Nat
    BY <2>1, <2>2, EntriesFinite, RowFacts, Sizes
  <2>4. Pages(0) = 0  BY PagesMonotone
  <2> QED  BY <2>1, <2>3, <2>4
<1>6. Vacant \in Rows /\ Vacant.state = "Vacant" /\ Vacant.tokens = 0  BY Sizes DEF Vacant, Rows
<1>7. /\ snapshot' \in [Slots -> Seq(Tokens) \cup {None}]
      /\ \A t \in Slots \ (gone \cup {c.slot}) : snapshot'[t] = snapshot[t]
  BY <1>1, <1>3 DEF IInv, TypeOK, Cleared
<1>8. answer' \in [kind : Kinds, need : Nat] /\ answer'.kind # "pages"
  BY <1>1 DEF Kinds
<1>9. device' = [device EXCEPT ![c.slot] = Unknown] /\ gone \in SUBSET (Held \ {c.slot})
  BY <1>1, <1>3, <1>4
<1>10. Pages(Vacant.tokens) - Pages(RowsRestored(c)[c.slot].tokens)
         - FreePages(RowsRestored(c)) <= PagesOf(RowsRestored(c), gone)
  BY <1>2, <1>3, <1>5, <1>6
<1> QED  BY <1>1, <1>2, <1>6, <1>7, <1>8, <1>9, <1>10, EmptiedInv

-----------------------------------------------------------------------------
(* A round: what a request commits.                                        *)

(* The front of a sequence and its last entry.                             *)
LEMMA FrontMeans ==
    ASSUME NEW T, NEW s \in Seq(T), s # << >>
    PROVE  /\ Len(s) \in Nat \ {0} /\ Last(s) \in T
           /\ Front(s) \in Seq(T) /\ Len(Front(s)) = Len(s) - 1
           /\ \A i \in 1 .. Len(s) - 1 : Front(s)[i] = s[i]
           /\ Front(s) \o <<Last(s)>> = s
           /\ IsPrefix(Front(s), s)
<1> DEFINE n == Len(s) - 1  f == Front(s)  l == <<Last(s)>>
<1>1. Len(s) \in Nat \ {0}  BY LenProperties, EmptySeq
<1>2. Len(s) \in 1 .. Len(s) /\ n \in 0 .. Len(s) /\ n + 1 = Len(s)  BY <1>1
<1>3. Last(s) \in T /\ Last(s) = s[Len(s)]  BY <1>2, ElementOfSeq DEF Last
<1>4. f \in Seq(T) /\ Len(f) = n /\ \A i \in 1 .. n : f[i] = s[i]
  BY <1>2, Cut DEF Front
<1>5. IsPrefix(f, s)  BY <1>2, CutIsPrefix DEF Front
<1>6. l \in Seq(T) /\ Len(l) = 1 /\ l[1] = Last(s)  BY <1>3
<1> HIDE DEF f, l
<1>7. /\ f \o l \in Seq(T) /\ Len(f \o l) = Len(f) + Len(l)
      /\ \A i \in 1 .. Len(f) + Len(l) :
           (f \o l)[i] = IF i <= Len(f) THEN f[i] ELSE l[i - Len(f)]
  BY <1>4, <1>6, ConcatProperties
<1>8. \A i \in 1 .. Len(s) : (f \o l)[i] = s[i]
  <2> SUFFICES ASSUME NEW i \in 1 .. Len(s) PROVE (f \o l)[i] = s[i]  OBVIOUS
  <2>1. (f \o l)[i] = IF i <= n THEN f[i] ELSE l[i - n]  BY <1>1, <1>4, <1>6, <1>7
  <2>2. CASE i <= n  BY <1>1, <1>4, <2>1, <2>2
  <2>3. CASE ~(i <= n)
    <3>1. i = Len(s) /\ i - n = 1  BY <1>1, <2>3
    <3> QED  BY <1>3, <1>6, <2>1, <2>3, <3>1
  <2> QED  BY <2>2, <2>3
<1>9. Len(f \o l) = Len(s)  BY <1>1, <1>4, <1>6, <1>7
<1>10. f \o l = s  BY <1>7, <1>8, <1>9, SeqEqual
<1> QED  BY <1>1, <1>3, <1>4, <1>5, <1>10 DEF f, l

LEMMA FrontConcat ==
    ASSUME NEW T, NEW s \in Seq(T), NEW t \in Seq(T), t # << >>
    PROVE  /\ s \o t # << >>
           /\ Front(s \o t) = s \o Front(t)
           /\ Last(s \o t) = Last(t)
<1> DEFINE m == Len(s)  n == Len(t)  u == s \o t  f == Front(t)
<1>1. m \in Nat /\ n \in Nat \ {0} /\ f \in Seq(T) /\ Len(f) = n - 1
      /\ \A i \in 1 .. n - 1 : f[i] = t[i]
  BY LenProperties, FrontMeans
<1>2. /\ u \in Seq(T) /\ Len(u) = m + n
      /\ \A i \in 1 .. m + n : u[i] = IF i <= m THEN s[i] ELSE t[i - m]
  BY ConcatProperties
<1>3. u # << >>  BY <1>1, <1>2, EmptySeq
<1>4. /\ Front(u) \in Seq(T) /\ Len(Front(u)) = m + n - 1
      /\ \A i \in 1 .. m + n - 1 : Front(u)[i] = u[i]
  <2> HIDE DEF u
  <2>1. /\ Front(u) \in Seq(T) /\ Len(Front(u)) = Len(u) - 1
        /\ \A i \in 1 .. Len(u) - 1 : Front(u)[i] = u[i]
    BY <1>2, <1>3, FrontMeans
  <2> QED  BY <1>2, <2>1
<1> HIDE DEF f
<1>5. /\ s \o f \in Seq(T) /\ Len(s \o f) = m + (n - 1)
      /\ \A i \in 1 .. m + (n - 1) :
           (s \o f)[i] = IF i <= m THEN s[i] ELSE f[i - m]
  <2>1. /\ s \o f \in Seq(T) /\ Len(s \o f) = Len(s) + Len(f)
        /\ \A i \in 1 .. Len(s) + Len(f) :
             (s \o f)[i] = IF i <= Len(s) THEN s[i] ELSE f[i - Len(s)]
    BY <1>1, ConcatProperties
  <2>2. Len(f) = n - 1  BY <1>1
  <2> QED  BY <2>1, <2>2
<1>6. Last(u) = Last(t)
  <2>1. m + n \in 1 .. m + n /\ ~(m + n <= m) /\ (m + n) - m = n  BY <1>1
  <2> HIDE DEF u, m, n
  <2>2. u[m + n] = t[n]  BY <1>2, <2>1
  <2> QED  BY <1>2, <2>2 DEF Last, n
<1> HIDE DEF u, m, n
<1>7. \A i \in 1 .. m + n - 1 : Front(u)[i] = (s \o f)[i]
  <2> SUFFICES ASSUME NEW i \in 1 .. m + n - 1 PROVE Front(u)[i] = (s \o f)[i]  OBVIOUS
  <2>1. Front(u)[i] = IF i <= m THEN s[i] ELSE t[i - m]  BY <1>1, <1>2, <1>4
  <2>2. (s \o f)[i] = IF i <= m THEN s[i] ELSE f[i - m]  BY <1>1, <1>5
  <2>3. ~(i <= m) => i - m \in 1 .. n - 1  BY <1>1
  <2> QED  BY <1>1, <2>1, <2>2, <2>3
<1>8. m + (n - 1) = m + n - 1  BY <1>1
<1>9. Front(u) = s \o f  BY <1>4, <1>5, <1>7, <1>8, SeqEqual
<1> QED  BY <1>3, <1>6, <1>9 DEF u, f

LEMMA PrefixOfItself == ASSUME NEW T, NEW s \in Seq(T) PROVE IsPrefix(s, s)
<1>1. Len(s) \in Nat  BY LenProperties
<1>2. Len(s) <= Len(s)  BY <1>1
<1> QED  BY <1>2, PrefixMeans

(* The drafts of a round fit in the budget of every request of the group.  *)
LEMMA ExtentFits ==
    ASSUME IInv, NEW s \in Speculative
    PROVE  /\ Extent \in Nat /\ Extent <= DRAFT_WINDOW
           /\ Remaining(s) \in Nat /\ Extent <= Remaining(s) - 1
<1> DEFINE e(t) == Min({DRAFT_WINDOW, Remaining(t) - 1})
           E == { e(t) : t \in Speculative }
<1>1. ASSUME NEW t \in Speculative
      PROVE  /\ Remaining(t) \in Nat /\ e(t) \in Nat
             /\ e(t) <= DRAFT_WINDOW /\ e(t) <= Remaining(t) - 1
  <2>1. t \in Running /\ Remaining(t) > 1  BY DEF Speculative
  <2>2. /\ session[t].budget \in Nat /\ Len(session[t].generated) \in Nat
        /\ Len(session[t].generated) < session[t].budget
    BY <2>1, RunningFacts DEF IInv
  <2>3. Remaining(t) \in Nat /\ Remaining(t) - 1 \in Nat  BY <2>1, <2>2 DEF Remaining
  <2>4. {DRAFT_WINDOW, Remaining(t) - 1} \in SUBSET Nat  BY <2>3, Sizes
  <2>5. e(t) \in {DRAFT_WINDOW, Remaining(t) - 1}
        /\ e(t) <= DRAFT_WINDOW /\ e(t) <= Remaining(t) - 1
    BY <2>4, MinIsLeast
  <2> QED  BY <2>3, <2>4, <2>5
<1> HIDE DEF e
<1>2. E \in SUBSET Nat /\ E # {} /\ e(s) \in E  BY <1>1
<1>3. Min(E) \in E /\ Min(E) <= e(s)  BY <1>2, MinIsLeast
<1>4. Extent = Min(E)  BY DEF Extent, e
<1> HIDE DEF E
<1>5. e(s) \in Nat /\ e(s) <= DRAFT_WINDOW /\ e(s) <= Remaining(s) - 1 /\ Remaining(s) \in Nat
  BY <1>1
<1>6. Min(E) \in Nat  BY <1>2, <1>3
<1> QED  BY <1>3, <1>4, <1>5, <1>6, Sizes

LEMMA OutputFacts ==
    ASSUME IInv, NEW s \in Running, NEW out \in Outputs(s)
    PROVE  /\ out \in Seq(Tokens) /\ out # << >>
           /\ Len(out) \in Nat \ {0} /\ Len(out) <= Remaining(s)
           /\ Remaining(s) \in Nat
           /\ Fresh(s) => Len(out) = 1
           /\ Front(out) \in Seq(Text)
           /\ Last(out) # Stop => out \in Seq(Text)
<1> DEFINE most == IF s \in Speculative THEN Extent + 1 ELSE 1
<1>1. PICK n \in 1 .. most : /\ out \in [1 .. n -> Text \cup {Stop}]
                             /\ \A k \in 1 .. n - 1 : out[k] # Stop
  BY DEF Outputs
<1>2. /\ session[s].budget \in Nat /\ Len(session[s].generated) \in Nat
      /\ Len(session[s].generated) < session[s].budget
  BY RunningFacts DEF IInv
<1>3. Remaining(s) \in Nat /\ Remaining(s) >= 1  BY <1>2 DEF Remaining
<1>4. most \in Nat /\ most <= Remaining(s) /\ (Fresh(s) => most = 1)
  <2>1. CASE s \in Speculative
    <3>1. Extent \in Nat /\ Extent <= Remaining(s) - 1  BY <2>1, ExtentFits
    <3>2. ~Fresh(s)  BY <2>1 DEF Speculative
    <3> QED  BY <1>3, <2>1, <3>1, <3>2
  <2>2. CASE s \notin Speculative  BY <1>3, <2>2
  <2> QED  BY <2>1, <2>2
<1> HIDE DEF most
<1>5. n \in Nat \ {0} /\ n <= Remaining(s) /\ (Fresh(s) => n = 1)  BY <1>1, <1>3, <1>4
<1>6. out \in Seq(Text \cup {Stop}) /\ Len(out) = n
  <2>1. out \in Seq(Text \cup {Stop})  BY <1>1, <1>5, SeqDef
  <2>2. DOMAIN out = 1 .. Len(out) /\ Len(out) \in Nat  BY <2>1, LenProperties
  <2>3. 1 .. Len(out) = 1 .. n  BY <1>1, <2>2
  <2> DEFINE l == Len(out)
  <2>5. l \in Nat /\ 1 .. l = 1 .. n  BY <2>2, <2>3
  <2> HIDE DEF l
  <2>6. /\ n \in 1 .. n /\ (l # 0 => l \in 1 .. l) /\ ~(n \in 1 .. 0)
    BY <1>5, <2>5
  <2>7. l = n  BY <1>5, <2>5, <2>6
  <2>4. Len(out) = n  BY <2>7 DEF l
  <2> QED  BY <2>1, <2>4
<1>7. out # << >>  BY <1>5, <1>6, EmptySeq
<1>8. out \in Seq(Tokens)
  <2>1. \A i \in 1 .. Len(out) : out[i] \in Tokens  BY <1>1, <1>6, TextIsTokens
  <2>2. out = [i \in 1 .. n |-> out[i]]  BY <1>1
  <2>3. out \in [1 .. n -> Tokens]  BY <1>6, <2>1, <2>2
  <2> QED  BY <1>5, <2>3, SeqDef
<1>9. Front(out) \in Seq(Text)
  <2>1. /\ Front(out) \in Seq(Text \cup {Stop}) /\ Len(Front(out)) = n - 1
        /\ \A i \in 1 .. n - 1 : Front(out)[i] = out[i]
    BY <1>6, <1>7, FrontMeans
  <2>2. Front(out) \in [1 .. n - 1 -> Text \cup {Stop}]  BY <2>1, LenProperties
  <2>3. \A i \in 1 .. n - 1 : Front(out)[i] \in Text  BY <1>1, <2>1, <2>2
  <2>4. Front(out) \in [1 .. n - 1 -> Text]  BY <2>2, <2>3
  <2>5. n - 1 \in Nat  BY <1>5
  <2> QED  BY <2>4, <2>5, SeqDef
<1>10. ASSUME Last(out) # Stop PROVE out \in Seq(Text)
  <2>1. out[n] # Stop  BY <1>6, <1>10 DEF Last
  <2>2. \A i \in 1 .. n : i \in 1 .. n - 1 \/ i = n  BY <1>5
  <2>3. \A i \in 1 .. n : out[i] \in Text  BY <1>1, <2>1, <2>2
  <2>4. out \in [1 .. n -> Text]  BY <1>1, <2>3
  <2> QED  BY <1>5, <2>4, SeqDef
<1> QED  BY <1>3, <1>5, <1>6, <1>7, <1>8, <1>9, <1>10

(* A round leaves the state of every token but the last generated one.     *)
LEMMA CommittedIsExact ==
    ASSUME IInv, NEW s \in Running, NEW out \in Outputs(s)
    PROVE  LET x == session[s]
               y == Advanced(s, out)
               d == Committed(s, out)
               all == x.prompt \o y.generated
           IN  /\ y = [prompt |-> x.prompt, boundary |-> x.boundary, budget |-> x.budget,
                       generated |-> x.generated \o out, position |-> y.position]
               /\ all \in Seq(Tokens) /\ all # << >>
               /\ Len(all) = Len(x.prompt) + Len(x.generated) + Len(out)
               /\ y.generated # << >> /\ y.generated \in Seq(Tokens)
               /\ Len(y.generated) = Len(x.generated) + Len(out)
               /\ y.position = Len(all) - 1
               /\ Processed(y) = x.prompt \o (x.generated \o Front(out))
               /\ Processed(y) = Front(all)
               /\ d \in Devices
               /\ d.kv = Processed(y) /\ d.gdn = Processed(y)
               /\ d.hidden = Processed(y) /\ d.mtp = Tail(all)
<1> DEFINE x == session[s]  p == x.prompt  g == x.generated
           y == Advanced(s, out)  w == p \o g  all == p \o (g \o out)
           d == Committed(s, out)
           m == Len(p)  k == Len(g)  n == Len(out)
<1>1. /\ s \in Slots /\ x \in Sessions
      /\ p \in Seq(Tokens) /\ g \in Seq(Tokens)
      /\ m \in Nat \ {0, 1} /\ k \in Nat
      /\ w \in Seq(Tokens) /\ w # << >> /\ Len(w) = m + k
      /\ (g = << >> <=> k = 0)
      /\ p # << >>
  BY RunningFacts DEF IInv
<1>2. /\ out \in Seq(Tokens) /\ out # << >> /\ n \in Nat \ {0}
      /\ (g = << >> => n = 1)
      /\ Front(out) \in Seq(Tokens) /\ Len(Front(out)) = n - 1
  <2>1. /\ out \in Seq(Tokens) /\ out # << >> /\ n \in Nat \ {0}
        /\ (g = << >> => n = 1)
    BY OutputFacts DEF Fresh
  <2> QED  BY <2>1, FrontMeans
<1>3. /\ device[s] \in Devices
      /\ device[s].kv = Processed(x) /\ device[s].gdn = Processed(x)
      /\ device[s].hidden = Processed(x) /\ device[s].mtp = Tail(w)
      /\ x.position = IF g = << >> THEN m ELSE Len(w) - 1
  <2>1. RunsExactly(s)  BY DEF IInv
  <2> QED  BY <1>1, <2>1, DeviceFacts DEF RunsExactly, IInv
<1>4. all = w \o out /\ all \in Seq(Tokens) /\ Len(all) = (m + k) + n /\ all # << >>
      /\ g \o out \in Seq(Tokens) /\ Len(g \o out) = k + n /\ g \o out # << >>
  <2>1. all = w \o out
    <3>1. p \in Seq(Tokens) /\ g \in Seq(Tokens) /\ out \in Seq(Tokens)  BY <1>1, <1>2
    <3> HIDE DEF p, g
    <3>2. (p \o g) \o out = p \o (g \o out)  BY <3>1, ConcatAssociative
    <3> QED  BY <3>2
  <2>2. w \o out \in Seq(Tokens) /\ Len(w \o out) = Len(w) + n /\ w \o out # << >>
    BY <1>1, <1>2, ConcatIsLonger, FrontConcat
  <2>3. g \o out \in Seq(Tokens) /\ Len(g \o out) = k + n /\ g \o out # << >>
    BY <1>1, <1>2, ConcatIsLonger, FrontConcat
  <2> QED  BY <1>1, <2>1, <2>2, <2>3
<1>5. Front(all) = w \o Front(out) /\ Tail(all) = Tail(w) \o out
      /\ w \o Front(out) = p \o (g \o Front(out))
  <2>1. /\ p \in Seq(Tokens) /\ g \in Seq(Tokens) /\ out \in Seq(Tokens)
        /\ Front(out) \in Seq(Tokens) /\ w \in Seq(Tokens)
        /\ w # << >> /\ out # << >>
    BY <1>1, <1>2
  <2>2. all = w \o out  BY <1>4
  <2>3. Front(w \o out) = w \o Front(out)
    <3> HIDE DEF w
    <3> QED  BY <2>1, FrontConcat
  <2>4. Tail(w \o out) = Tail(w) \o out
    <3> HIDE DEF w
    <3> QED  BY <2>1, TailConcat
  <2>5. w \o Front(out) = p \o (g \o Front(out))
    <3> DEFINE e == Front(out)
    <3> HIDE DEF p, g, e
    <3>1. (p \o g) \o e = p \o (g \o e)  BY <2>1, ConcatAssociative DEF e
    <3> QED  BY <3>1 DEF e
  <2> QED  BY <2>2, <2>3, <2>4, <2>5
<1>6. /\ y = [prompt |-> p, boundary |-> x.boundary, budget |-> x.budget,
              generated |-> g \o out, position |-> y.position]
      /\ y.position = IF g = << >> THEN x.position ELSE x.position + n
  <2> DEFINE pos == IF Fresh(s) THEN x.position ELSE x.position + Len(out)
  <2>1. y = [x EXCEPT !.generated = g \o out, !.position = pos]  BY DEF Advanced
  <2> HIDE DEF pos
  <2>2. y = [prompt |-> p, boundary |-> x.boundary, budget |-> x.budget,
             generated |-> g \o out, position |-> pos]
    BY <1>1, <2>1 DEF Sessions
  <2>3. y.position = pos  BY <2>2
  <2>4. pos = IF g = << >> THEN x.position ELSE x.position + n  BY DEF pos, Fresh
  <2> QED  BY <2>2, <2>3, <2>4
<1>7. y.position = Len(all) - 1
  <2> DEFINE l == Len(all)
             o == x.position
  <2>1. /\ m \in Nat /\ k \in Nat /\ n \in Nat /\ l = (m + k) + n /\ Len(w) = m + k
        /\ o = (IF g = << >> THEN m ELSE Len(w) - 1)
        /\ y.position = (IF g = << >> THEN o ELSE o + n)
    BY <1>1, <1>2, <1>3, <1>4, <1>6
  <2>2. (g = << >> => k = 0 /\ n = 1)
    BY <1>1, <1>2
  <2> HIDE DEF x, y, all, w, p, g, m, k, n, l, o
  <2>3. CASE g = << >>  BY ONLY <2>1, <2>2, <2>3 DEF l
  <2>4. CASE g # << >>
    <3>1. o = (m + k) - 1 /\ y.position = o + n  BY ONLY <2>1, <2>4
    <3>2. y.position = l - 1  BY ONLY <2>1, <3>1
    <3> QED  BY ONLY <3>2 DEF l
  <2> QED  BY <2>3, <2>4
<1>8. Processed(y) = Front(all)
  <2>1. y.prompt = p /\ y.generated = g \o out  BY <1>6
  <2>2. Processed(y) = SubSeq(all, 1, y.position)  BY <2>1 DEF Processed
  <2> HIDE DEF all, y
  <2> QED  BY <1>7, <2>2 DEF Front
<1>9. /\ d \in Devices
      /\ d.kv = Front(all) /\ d.gdn = Front(all) /\ d.hidden = Front(all)
      /\ d.mtp = Tail(all)
  <2>1. Front(all) \in Seq(Tokens) /\ Tail(all) \in Seq(Tokens)
    <3> HIDE DEF all
    <3> QED  BY <1>4, FrontMeans, TailMeans
  <2>2. CASE g = << >>
    <3>1. Processed(x) = p
      <4>1. w = p  BY <1>1, <2>2, ConcatEmptySeq
      <4>2. SubSeq(p, 1, Len(p)) = p  BY <1>1, SubSeqFull
      <4>3. x.position = Len(p)  BY <1>3, <2>2
      <4> QED  BY <4>1, <4>2, <4>3 DEF Processed
    <3>2. Front(all) = p
      <4>1. Len(Front(out)) = 0  BY <1>2, <2>2
      <4>2. Front(out) = << >>  BY <1>2, <4>1, EmptySeq
      <4>3. w = p /\ p \o << >> = p  BY <1>1, <2>2, ConcatEmptySeq
      <4> QED  BY <1>5, <4>2, <4>3
    <3>3. d = [device[s] EXCEPT !.mtp = Append(Tail(w), out[1])]
      BY <1>3, <2>2 DEF Committed, Fresh
    <3>4. Append(Tail(w), out[1]) = Tail(all)
      <4>1. Len(out) = 1 /\ 1 \in 1 .. Len(out)  BY <1>2, <2>2
      <4>2. out[1] \in Tokens  BY <1>2, <4>1, ElementOfSeq
      <4>3. out = <<out[1]>>
        <5> DEFINE t == <<out[1]>>
        <5>1. t \in Seq(Tokens) /\ Len(t) = 1 /\ t[1] = out[1]  BY <4>2
        <5>2. \A i \in 1 .. Len(out) : out[i] = t[i]  BY <4>1, <5>1
        <5> HIDE DEF t
        <5>3. out = t  BY <1>2, <4>1, <5>1, <5>2, SeqEqual
        <5> QED  BY <5>3 DEF t
      <4>4. Tail(w) \in Seq(Tokens)  BY <1>1, TailMeans
      <4>5. Append(Tail(w), out[1]) = Tail(w) \o <<out[1]>>  BY <4>2, <4>4, AppendIsConcat
      <4> QED  BY <1>5, <4>3, <4>5
    <3> HIDE DEF d, x, p, g, w, all
    <3> QED  BY <1>3, <2>1, <3>1, <3>2, <3>3, <3>4 DEF Devices
  <2>3. CASE g # << >>
    <3> DEFINE rows == <<Last(g)>> \o Front(out)
    <3>1. Processed(x) = Front(w)
      <4>1. x.position = Len(w) - 1  BY <1>3, <2>3
      <4> QED  BY <4>1 DEF Processed, Front
    <3>2. Front(w) \in Seq(Tokens) /\ Len(Front(w)) = Len(w) - 1
          /\ Front(w) \o <<Last(w)>> = w /\ Last(w) = Last(g) /\ Last(w) \in Tokens
      <4> HIDE DEF w
      <4>1. Front(w) \in Seq(Tokens) /\ Len(Front(w)) = Len(w) - 1
            /\ Front(w) \o <<Last(w)>> = w /\ Last(w) \in Tokens
        BY <1>1, FrontMeans
      <4>2. Last(w) = Last(g)  BY <1>1, <2>3, FrontConcat DEF w
      <4> QED  BY <4>1, <4>2
    <3>3. Front(w) \o rows = Front(all)
      <4> DEFINE f == Front(w)  l == <<Last(w)>>  e == Front(out)
      <4>1. f \in Seq(Tokens) /\ l \in Seq(Tokens) /\ e \in Seq(Tokens)  BY <1>2, <3>2
      <4>2. f \o l = w /\ rows = l \o e  BY <3>2
      <4> HIDE DEF f, l, e, rows
      <4>3. (f \o l) \o e = f \o (l \o e)  BY <4>1, ConcatAssociative
      <4>4. f \o rows = w \o e  BY <4>2, <4>3
      <4> QED  BY <1>5, <4>4 DEF f, e
    <3>4. SubSeq(device[s].kv, 1, x.position) = Front(w)
      <4>1. x.position = Len(Front(w))  BY <1>3, <2>3, <3>2
      <4>2. SubSeq(Front(w), 1, Len(Front(w))) = Front(w)  BY <3>2, SubSeqFull
      <4> QED  BY <1>3, <3>1, <4>1, <4>2
    <3>5. d = [kv |-> SubSeq(device[s].kv, 1, x.position) \o rows,
               gdn |-> device[s].gdn \o rows, hidden |-> device[s].gdn \o rows,
               mtp |-> device[s].mtp \o out]
      BY <2>3 DEF Committed, Fresh
    <3> HIDE DEF d, x, p, g, w, all, rows
    <3>6. d = [kv |-> Front(all), gdn |-> Front(all), hidden |-> Front(all),
               mtp |-> Tail(all)]
      BY <1>3, <1>5, <3>1, <3>3, <3>4, <3>5
    <3> QED  BY <2>1, <3>6 DEF Devices
  <2> QED  BY <2>2, <2>3
<1>10. (m + k) + n = m + k + n  BY <1>1, <1>2
<1>11. y.generated = g \o out  BY <1>6
<1> HIDE DEF d, y, m, k, n, g, p, x
<1> QED
  BY <1>4, <1>5, <1>6, <1>7, <1>8, <1>9, <1>10, <1>11 DEF d, y, m, k, n, g, p, x

(* A request that goes on.                                                 *)
LEMMA GoesOn ==
    ASSUME IInv, NEW s \in Running, NEW out \in Outputs(s), ~Terminal(s, out),
           session'[s] = Advanced(s, out), device'[s] = Committed(s, out),
           pool'[s] = pool[s], snapshot'[s] = snapshot[s]
    PROVE  /\ session'[s] \in Sessions
           /\ [prompt |-> session'[s].prompt, boundary |-> session'[s].boundary,
               budget |-> session'[s].budget] \in Requests
           /\ Len(session'[s].generated) < session'[s].budget
           /\ RunsExactly(s)'
<1> DEFINE x == session[s]  y == Advanced(s, out)  all == x.prompt \o y.generated
           d == Committed(s, out)
<1>1. /\ y = [prompt |-> x.prompt, boundary |-> x.boundary, budget |-> x.budget,
              generated |-> x.generated \o out, position |-> y.position]
      /\ Len(all) = Len(x.prompt) + Len(x.generated) + Len(out)
      /\ y.generated # << >> /\ y.generated \in Seq(Tokens)
      /\ Len(y.generated) = Len(x.generated) + Len(out)
      /\ y.position = Len(all) - 1
      /\ d.kv = Processed(y) /\ d.gdn = Processed(y)
      /\ d.hidden = Processed(y) /\ d.mtp = Tail(all)
  BY CommittedIsExact
<1>2. /\ x \in Sessions /\ x.generated \in Seq(Text) /\ s \in Slots
      /\ Len(x.prompt) \in Nat \ {0, 1} /\ Len(x.generated) \in Nat
      /\ x.budget \in Nat /\ Len(x.generated) < x.budget
      /\ [prompt |-> x.prompt, boundary |-> x.boundary, budget |-> x.budget] \in Requests
  BY RunningFacts DEF IInv
<1>3. /\ Len(out) \in Nat \ {0} /\ Len(out) <= Remaining(s) /\ out \in Seq(Text)
      /\ Len(out) # Remaining(s)
  BY OutputFacts DEF Terminal
<1>4. RunsExactly(s)  BY DEF IInv
<1>5. /\ pool[s] = [state |-> "Active", tokens |-> Len(x.prompt) + x.budget - 1]
      /\ snapshot[s] = SubSeq(x.prompt, 1, x.boundary)
  BY <1>4 DEF RunsExactly
<1>6. pool[s].tokens \in 0 .. ContextCapacity  BY <1>2, DeviceFacts DEF IInv
<1>7. Len(x.generated) + Len(out) < x.budget
  <2>1. Remaining(s) = x.budget - Len(x.generated)  BY DEF Remaining
  <2> DEFINE k == Len(x.generated)  n == Len(out)  b == x.budget
  <2>2. k \in Nat /\ n \in Nat /\ b \in Nat /\ n <= b - k /\ n # b - k
    BY <1>2, <1>3, <2>1
  <2> HIDE DEF k, n, b
  <2>3. k + n < b  BY <2>2
  <2> QED  BY <2>3 DEF k, n, b
<1>8. y.position \in 1 .. ContextCapacity
  <2> DEFINE m == Len(x.prompt)  k == Len(x.generated)  n == Len(out)  b == x.budget
             t == pool[s].tokens
  <2>1. /\ m \in Nat \ {0, 1} /\ k \in Nat /\ n \in Nat \ {0} /\ b \in Nat /\ k + n < b
        /\ t = m + b - 1 /\ t \in 0 .. ContextCapacity
        /\ y.position = (m + k + n) - 1
    BY <1>1, <1>2, <1>3, <1>5, <1>6, <1>7
  <2> HIDE DEF m, k, n, b, t, x, y
  <2> QED  BY <2>1, Sizes
<1>9. x.generated \o out \in Seq(Text)  BY <1>2, <1>3, ConcatProperties
<1>10. /\ y.prompt = x.prompt /\ y.boundary = x.boundary /\ y.budget = x.budget
       /\ y.generated = x.generated \o out
  <2> DEFINE pos == y.position
  <2>1. y = [prompt |-> x.prompt, boundary |-> x.boundary, budget |-> x.budget,
             generated |-> x.generated \o out, position |-> pos]
    BY <1>1
  <2> HIDE DEF pos, x, y
  <2> QED  BY <2>1
<1>11. y \in Sessions
  <2>1. x.prompt \in Seq(Tokens) /\ x.boundary \in Nat /\ x.budget \in Nat
    BY <1>2 DEF Sessions
  <2>2. x.generated \o out \in Seq(Tokens)  BY <1>1, <1>10
  <2> DEFINE pos == y.position
  <2>3. y = [prompt |-> x.prompt, boundary |-> x.boundary, budget |-> x.budget,
             generated |-> x.generated \o out, position |-> pos]
    BY <1>1
  <2>4. pos \in 1 .. ContextCapacity  BY <1>8
  <2> HIDE DEF x, y, pos
  <2> QED  BY <2>1, <2>2, <2>3, <2>4 DEF Sessions
<1> HIDE DEF x, y, d
<1>12. session'[s] = y /\ device'[s] = d  BY DEF y, d
<1>13. RunsExactly(s)'
  BY <1>1, <1>5, <1>9, <1>10, <1>12 DEF RunsExactly
<1> QED  BY <1>1, <1>2, <1>7, <1>10, <1>11, <1>12, <1>13

(* A request that ends: what its slot keeps.                               *)
LEMMA Ends ==
    ASSUME IInv, NEW s \in Running, NEW out \in Outputs(s), NEW final,
           final = Processed(Advanced(s, out)),
           retained'[s] = [tokens |-> final, boundary |-> session[s].boundary],
           device'[s] = Committed(s, out),
           pool'[s] = Stored(final, s), snapshot'[s] = snapshot[s]
    PROVE  /\ retained'[s] \in RetainedPrefixes
           /\ retained'[s].boundary \in 1 .. Len(retained'[s].tokens)
           /\ pool'[s] \in Rows /\ pool'[s].tokens <= pool[s].tokens
           /\ KeptExactly(s)'
<1> DEFINE x == session[s]  y == Advanced(s, out)  all == x.prompt \o y.generated
           d == Committed(s, out)  g == x.generated \o Front(out)
<1>1. /\ all \in Seq(Tokens) /\ all # << >>
      /\ Len(all) = Len(x.prompt) + Len(x.generated) + Len(out)
      /\ final = x.prompt \o g /\ final = Front(all)
      /\ d.kv = final /\ d.gdn = final /\ d.hidden = final /\ d.mtp = Tail(all)
  BY CommittedIsExact
<1>2. /\ x.prompt \in Seq(Tokens) /\ s \in Slots
      /\ x.generated \in Seq(Text)
      /\ Len(x.prompt) \in Nat \ {0, 1} /\ Len(x.generated) \in Nat
      /\ x.boundary \in Nat \ {0} /\ x.boundary < Len(x.prompt)
      /\ x.budget \in Nat /\ Len(x.generated) < x.budget
      /\ [prompt |-> x.prompt, boundary |-> x.boundary, budget |-> x.budget] \in Requests
  BY RunningFacts DEF IInv
<1>3. /\ Len(out) \in Nat \ {0} /\ Len(out) <= Remaining(s) /\ Front(out) \in Seq(Text)
  BY OutputFacts
<1>4. RunsExactly(s)  BY DEF IInv
<1>5. /\ pool[s] = [state |-> "Active", tokens |-> Len(x.prompt) + x.budget - 1]
      /\ snapshot[s] = SubSeq(x.prompt, 1, x.boundary)
  BY <1>4 DEF RunsExactly
<1>6. pool[s].tokens \in 0 .. ContextCapacity  BY <1>2, DeviceFacts DEF IInv
<1>7. g \in Seq(Text) /\ g \in Seq(Tokens)
  <2>1. g \in Seq(Text)  BY <1>2, <1>3, ConcatProperties
  <2> QED  BY <2>1, TextIsTokens, SeqMonotonic
<1> HIDE DEF g, all, x, y, d
<1>8. /\ final \in Seq(Tokens) /\ Len(final) = Len(all) - 1
      /\ Len(all) \in Nat \ {0}
  BY <1>1, FrontMeans
<1>9. IsPrefix(x.prompt, final)
  <2>1. IsPrefix(x.prompt, x.prompt \o g)  BY <1>2, <1>7, ConcatIsLonger
  <2> QED  BY <1>1, <2>1
<1>10. /\ Len(final) \in Nat /\ Len(final) <= pool[s].tokens
       /\ Len(x.prompt) <= Len(final) /\ x.boundary \in 1 .. Len(final)
  <2>1. Len(final) \in Nat /\ Len(x.prompt) <= Len(final)
    BY <1>2, <1>8, <1>9, LenProperties DEF IsPrefix
  <2>2. Remaining(s) = x.budget - Len(x.generated)  BY DEF Remaining, x
  <2> DEFINE m == Len(x.prompt)  k == Len(x.generated)  n == Len(out)  b == x.budget
             t == pool[s].tokens  e == x.boundary  f == Len(final)
  <2>3. /\ m \in Nat \ {0, 1} /\ k \in Nat /\ n \in Nat \ {0} /\ b \in Nat
        /\ n <= b - k /\ t = m + b - 1 /\ e \in Nat \ {0} /\ e < m
        /\ f \in Nat /\ f = (m + k + n) - 1 /\ m <= f
    <3>1. m \in Nat \ {0, 1} /\ k \in Nat /\ n \in Nat \ {0} /\ b \in Nat  BY <1>2, <1>3
    <3>2. t = m + b - 1  BY <1>5
    <3>3. n <= b - k  BY <1>3, <2>2
    <3>4. f = (m + k + n) - 1  BY <1>1, <1>8
    <3> QED  BY <1>2, <2>1, <3>1, <3>2, <3>3, <3>4
  <2> HIDE DEF m, k, n, b, t, e, f
  <2>4. f \in Nat /\ f <= t /\ m <= f /\ e \in 1 .. f  BY <2>3
  <2> QED  BY <2>4 DEF m, t, e, f
<1>11. pool'[s] = [state |-> "Retained", tokens |-> Len(final)]  BY DEF Stored
<1>12. pool'[s] \in Rows /\ pool'[s].tokens <= pool[s].tokens
  <2>1. Len(final) \in 0 .. ContextCapacity  BY <1>6, <1>10, Sizes
  <2> QED  BY <1>10, <1>11, <2>1 DEF Rows
<1>13. retained'[s] = [tokens |-> final, boundary |-> x.boundary]  BY DEF x
<1>14. snapshot'[s] = SubSeq(final, 1, x.boundary)
  <2>1. x.boundary \in 0 .. Len(x.prompt)  BY <1>2
  <2>2. SubSeq(x.prompt, 1, x.boundary) = SubSeq(final, 1, x.boundary)
    BY <1>2, <1>8, <1>9, <2>1, CutPrefix
  <2> QED  BY <1>5, <2>2
<1>15. IsPrefix(final, final)  BY <1>8, PrefixOfItself
<1>16. IsPrefix(Tail(final), Tail(all))
  <2> DEFINE k == Len(all) - 1
  <2>1. k \in 1 .. Len(all)  BY <1>2, <1>8, <1>10
  <2>2. Tail(SubSeq(all, 1, k)) = SubSeq(Tail(all), 1, k - 1)  BY <1>1, <2>1, TailGlue
  <2>3. Tail(all) \in Seq(Tokens) /\ Len(Tail(all)) = Len(all) - 1  BY <1>1, TailMeans
  <2>4. k - 1 \in 0 .. Len(Tail(all))  BY <1>8, <2>1, <2>3
  <2>5. IsPrefix(SubSeq(Tail(all), 1, k - 1), Tail(all))  BY <2>3, <2>4, CutIsPrefix
  <2>6. final = SubSeq(all, 1, k)  BY <1>1 DEF Front
  <2> QED  BY <2>2, <2>5, <2>6
<1>17. OpenOrCut([tokens |-> final, boundary |-> x.boundary])
  <2> DEFINE q == [prompt |-> x.prompt, boundary |-> x.boundary, budget |-> x.budget]
  <2>1. q \in Requests /\ q.prompt = x.prompt /\ q.boundary = x.boundary  BY <1>2
  <2> HIDE DEF q
  <2>2. final = q.prompt \o g /\ x.boundary = q.boundary  BY <1>1, <2>1
  <2> QED  BY <1>7, <2>1, <2>2 DEF OpenOrCut
<1>18. device'[s] = d  BY DEF d
<1>19. KeptExactly(s)'
  <2>1. OpenOrCut(retained[s])'  BY <1>13, <1>17 DEF OpenOrCut
  <2>2. retained'[s].tokens = final /\ retained'[s].boundary = x.boundary  BY <1>13
  <2>3. /\ device'[s].kv = final /\ device'[s].gdn = final
        /\ device'[s].hidden = final /\ device'[s].mtp = Tail(all)
    BY <1>1, <1>18
  <2>4. /\ IsPrefix(retained[s].tokens, device[s].kv)'
        /\ IsPrefix(Tail(retained[s].tokens), device[s].mtp)'
    BY <1>15, <1>16, <2>2, <2>3
  <2> QED  BY <1>11, <1>14, <2>1, <2>2, <2>3, <2>4 DEF KeptExactly
<1>20. retained'[s] \in RetainedPrefixes
  <2>1. x.boundary \in Nat  BY <1>2
  <2> QED  BY <1>8, <1>13, <2>1 DEF RetainedPrefixes
<1> QED  BY <1>10, <1>12, <1>13, <1>19, <1>20

(* Rows that only get shorter leave as many pages free as before.          *)
LEMMA PagesShrink ==
    ASSUME NEW rows \in [Slots -> Rows], NEW others \in [Slots -> Rows],
           \A s \in Slots : others[s].tokens <= rows[s].tokens, FreePages(rows) >= 0
    PROVE  FreePages(others) >= 0
<1>1. ASSUME NEW e \in Entries(others, Slots) PROVE e \in Entries(rows, Slots)
  <2>1. /\ e \in Slots \X (1 .. Pages(ContextCapacity))
        /\ e[1] \in Slots /\ e[2] \in 1 .. Pages(ContextCapacity)
        /\ e[2] <= Pages(others[e[1]].tokens)
    BY DEF Entries
  <2>2. /\ rows[e[1]].tokens \in Nat /\ Pages(rows[e[1]].tokens) \in Nat
        /\ others[e[1]].tokens \in Nat /\ Pages(others[e[1]].tokens) \in Nat
    BY <2>1, RowFacts
  <2>3. Pages(others[e[1]].tokens) <= Pages(rows[e[1]].tokens)
    BY <2>1, <2>2, PagesMonotone
  <2>4. Pages(ContextCapacity) \in Nat  BY Sizes, PagesBounds
  <2>5. e[2] <= Pages(rows[e[1]].tokens)
    <3> DEFINE a == e[2]  p == Pages(others[e[1]].tokens)  q == Pages(rows[e[1]].tokens)
    <3>1. a \in Nat /\ p \in Nat /\ q \in Nat /\ a <= p /\ p <= q
      BY <2>1, <2>2, <2>3, <2>4
    <3> HIDE DEF a, p, q
    <3>2. a <= q  BY <3>1
    <3> QED  BY <3>2 DEF a, q
  <2> QED  BY <2>1, <2>5 DEF Entries
<1>2. Entries(others, Slots) \in SUBSET Entries(rows, Slots)  BY <1>1
<1>3. IsFiniteSet(Entries(rows, Slots)) /\ PagesOf(rows, Slots) \in Nat
      /\ PagesOf(others, Slots) \in Nat
  BY EntriesFinite
<1>4. PagesOf(others, Slots) <= PagesOf(rows, Slots)
  BY <1>2, <1>3, FS_Subset DEF PagesOf
<1> QED  BY <1>3, <1>4, Sizes DEF FreePages

(* Some requests leave their slots, the others go on.                      *)
LEMMA Leave ==
    ASSUME IInv, NEW done \in SUBSET Running,
           session' \in [Slots -> Sessions \cup {None}],
           \A s \in Slots : session'[s] # None <=> s \in Running \ done,
           \A s \in Running \ done :
              /\ [prompt |-> session'[s].prompt, boundary |-> session'[s].boundary,
                  budget |-> session'[s].budget] \in Requests
              /\ Len(session'[s].generated) < session'[s].budget
              /\ RunsExactly(s)',
           \A s \in done :
              /\ retained'[s] \in RetainedPrefixes
              /\ retained'[s].boundary \in 1 .. Len(retained'[s].tokens)
              /\ pool'[s] \in Rows /\ pool'[s].tokens <= pool[s].tokens
              /\ KeptExactly(s)',
           retained' \in [Slots -> RetainedPrefixes \cup {None}],
           pool' \in [Slots -> Rows],
           \A s \in Slots \ done : retained'[s] = retained[s] /\ pool'[s] = pool[s],
           device' \in [Slots -> Devices],
           \A s \in Slots \ Running : device'[s] = device[s],
           snapshot' = snapshot, active' = Without(active, done),
           order' \in Seq(Slots), ToSet(order') = Held \cup done, Distinct(order'),
           answer' = [kind |-> "ok", need |-> 0]
    PROVE  IInv'
<1>1. /\ active \in Seq(Slots) /\ ToSet(active) = Running /\ Distinct(active)
      /\ Running \cap Held = {} /\ Running \subseteq Slots /\ Held \subseteq Slots
      /\ pool \in [Slots -> Rows]
      /\ snapshot \in [Slots -> Seq(Tokens) \cup {None}]
  BY DEF IInv, TypeOK, Books, Running, Held, Rows
<1>2. Running' = Running \ done  BY <1>1 DEF Running
<1>3. Held' = Held \cup done
  <2>1. \A s \in done : retained'[s] # None  BY NoneIsNone
  <2> QED  BY <1>1, <2>1 DEF Held
<1>4. /\ active' \in Seq(Slots) /\ ToSet(active') = Running' /\ Distinct(active')
  BY <1>1, <1>2, WithoutKeeps
<1>5. TypeOK'
  <2>1. \A s \in Held' : retained'[s].boundary \in 1 .. Len(retained'[s].tokens)
    <3> SUFFICES ASSUME NEW s \in Held, s \notin done
                 PROVE  retained'[s].boundary \in 1 .. Len(retained'[s].tokens)
      BY <1>3
    <3>1. retained'[s] = retained[s]  BY <1>1
    <3> QED  BY <3>1 DEF IInv, TypeOK
  <2> QED  BY <1>1, <1>2, <1>4, <2>1 DEF TypeOK, Rows, Devices
<1>6. \A s \in Held' : KeptExactly(s)'
  <2> SUFFICES ASSUME NEW s \in Held, s \notin done PROVE KeptExactly(s)'  BY <1>3
  <2>1. s \in Slots /\ s \notin Running  BY <1>1
  <2> QED  BY <2>1, KeptFrame DEF IInv
<1>7. Books'
  <2>1. \A s \in Slots : /\ pool'[s].state = "Retained" <=> s \in Held'
                         /\ pool'[s].state = "Vacant" => pool'[s].tokens = 0
    <3> SUFFICES ASSUME NEW s \in Slots
                 PROVE  /\ pool'[s].state = "Retained" <=> s \in Held'
                        /\ pool'[s].state = "Vacant" => pool'[s].tokens = 0
      OBVIOUS
    <3>1. CASE s \in done
      <4>1. KeptExactly(s)'  BY <3>1
      <4>2. pool'[s] = [state |-> "Retained", tokens |-> Len(retained'[s].tokens)]
        BY <4>1 DEF KeptExactly
      <4>3. pool'[s].state = "Retained"  BY <4>2
      <4> QED  BY <1>3, <3>1, <4>3
    <3>2. CASE s \notin done  BY <1>3, <3>2 DEF IInv, Books
    <3> QED  BY <3>1, <3>2
  <2>2. FreePages(pool)' >= 0
    <3>1. \A s \in Slots : pool'[s].tokens <= pool[s].tokens
      <4> SUFFICES ASSUME NEW s \in Slots, s \notin done
                   PROVE  pool'[s].tokens <= pool[s].tokens
        OBVIOUS
      <4>1. pool'[s] = pool[s] /\ pool[s].tokens \in Nat  BY <1>1, RowFacts
      <4> QED  BY <4>1
    <3>2. FreePages(pool) >= 0  BY DEF IInv, Books
    <3>3. FreePages(pool') >= 0  BY <1>1, <3>1, <3>2, PagesShrink
    <3> QED  BY <3>3 DEF FreePages
  <2>3. Running' \cap Held' = {}  BY <1>1, <1>2, <1>3
  <2> QED  BY <1>3, <1>4, <2>1, <2>2, <2>3 DEF Books
<1> QED  BY <1>2, <1>5, <1>6, <1>7 DEF IInv, RefusalIsHonest

LEMMA StepInv == ASSUME IInv, Step PROVE IInv'
<1>1. PICK out \in [Running -> UNION { Outputs(s) : s \in Running }] :
        LET done == { s \in Running : Terminal(s, out[s]) }
            final == [s \in Running |-> Processed(Advanced(s, out[s]))]
        IN
        /\ \A s \in Running : out[s] \in Outputs(s)
        /\ IF \E s \in done : ~Storable(s, session[s].boundary, final[s])
           THEN Answer("internal", 0) /\ UNCHANGED state
           ELSE /\ device' = [s \in Slots |->
                      IF s \in Running THEN Committed(s, out[s]) ELSE device[s]]
                /\ session' = [s \in Slots |->
                      IF s \in Running \ done THEN Advanced(s, out[s]) ELSE None]
                /\ active' = Without(active, done)
                /\ order' = order \o Without(active, Slots \ done)
                /\ retained' = [s \in Slots |-> IF s \in done
                      THEN [tokens |-> final[s], boundary |-> session[s].boundary]
                      ELSE retained[s]]
                /\ pool' = [s \in Slots |->
                      IF s \in done THEN Stored(final[s], s) ELSE pool[s]]
                /\ Answer("ok", 0)
                /\ UNCHANGED snapshot
  BY DEF Step
<1> DEFINE done == { s \in Running : Terminal(s, out[s]) }
           final == [s \in Running |-> Processed(Advanced(s, out[s]))]
<1>2. \A s \in Running : out[s] \in Outputs(s)  BY <1>1
<1>3. CASE \E s \in done : ~Storable(s, session[s].boundary, final[s])
  <2>1. Answer("internal", 0) /\ UNCHANGED state  BY <1>1, <1>3
  <2>2. answer' \in [kind : Kinds, need : Nat] /\ answer'.kind # "pages"
    BY <2>1 DEF Answer, Kinds
  <2> QED  BY <2>1, <2>2, QuietInv
<1>4. CASE ~(\E s \in done : ~Storable(s, session[s].boundary, final[s]))
  <2>1. /\ device' = [s \in Slots |->
              IF s \in Running THEN Committed(s, out[s]) ELSE device[s]]
        /\ session' = [s \in Slots |->
              IF s \in Running \ done THEN Advanced(s, out[s]) ELSE None]
        /\ active' = Without(active, done)
        /\ order' = order \o Without(active, Slots \ done)
        /\ retained' = [s \in Slots |-> IF s \in done
              THEN [tokens |-> final[s], boundary |-> session[s].boundary]
              ELSE retained[s]]
        /\ pool' = [s \in Slots |->
              IF s \in done THEN Stored(final[s], s) ELSE pool[s]]
        /\ answer' = [kind |-> "ok", need |-> 0]
        /\ snapshot' = snapshot
    BY <1>1, <1>4 DEF Answer
  <2>2. \A s \in Running : final[s] = Processed(Advanced(s, out[s]))  OBVIOUS
  <2>3. /\ done \in SUBSET Running
        /\ \A s \in done : Terminal(s, out[s])
        /\ \A s \in Running \ done : ~Terminal(s, out[s])
    OBVIOUS
  <2> HIDE DEF done, final
  <2>4. /\ active \in Seq(Slots) /\ ToSet(active) = Running /\ Distinct(active)
        /\ order \in Seq(Slots) /\ ToSet(order) = Held /\ Distinct(order)
        /\ Running \cap Held = {} /\ Running \subseteq Slots
        /\ pool \in [Slots -> Rows] /\ device \in [Slots -> Devices]
        /\ retained \in [Slots -> RetainedPrefixes \cup {None}]
    BY DEF IInv, TypeOK, Books, Running, Rows, Devices
  <2>5. \A s \in Running \ done :
           /\ session'[s] \in Sessions
           /\ [prompt |-> session'[s].prompt, boundary |-> session'[s].boundary,
               budget |-> session'[s].budget] \in Requests
           /\ Len(session'[s].generated) < session'[s].budget
           /\ RunsExactly(s)'
    <3> SUFFICES ASSUME NEW s \in Running, s \notin done
                 PROVE  /\ session'[s] \in Sessions
                        /\ [prompt |-> session'[s].prompt, boundary |-> session'[s].boundary,
                            budget |-> session'[s].budget] \in Requests
                        /\ Len(session'[s].generated) < session'[s].budget
                        /\ RunsExactly(s)'
      OBVIOUS
    <3>1. s \in Slots /\ out[s] \in Outputs(s) /\ ~Terminal(s, out[s])
      BY <1>2, <2>3, <2>4
    <3>2. session'[s] = Advanced(s, out[s])  BY <2>1, <3>1
    <3>3. device'[s] = Committed(s, out[s])  BY <2>1, <3>1
    <3>4. pool'[s] = pool[s] /\ snapshot'[s] = snapshot[s]  BY <2>1, <3>1
    <3> QED  BY <3>1, <3>2, <3>3, <3>4, GoesOn
  <2>6. \A s \in done :
           /\ retained'[s] \in RetainedPrefixes
           /\ retained'[s].boundary \in 1 .. Len(retained'[s].tokens)
           /\ pool'[s] \in Rows /\ pool'[s].tokens <= pool[s].tokens
           /\ KeptExactly(s)'
    <3> SUFFICES ASSUME NEW s \in done
                 PROVE  /\ retained'[s] \in RetainedPrefixes
                        /\ retained'[s].boundary \in 1 .. Len(retained'[s].tokens)
                        /\ pool'[s] \in Rows /\ pool'[s].tokens <= pool[s].tokens
                        /\ KeptExactly(s)'
      OBVIOUS
    <3>1. s \in Slots /\ s \in Running /\ out[s] \in Outputs(s)  BY <1>2, <2>3, <2>4
    <3>2. retained'[s] = [tokens |-> final[s], boundary |-> session[s].boundary]
      BY <2>1, <3>1
    <3>3. pool'[s] = Stored(final[s], s)  BY <2>1, <3>1
    <3>4. device'[s] = Committed(s, out[s])  BY <2>1, <3>1
    <3>5. final[s] = Processed(Advanced(s, out[s])) /\ snapshot'[s] = snapshot[s]
      BY <2>1, <2>2, <3>1
    <3> QED  BY <3>1, <3>2, <3>3, <3>4, <3>5, Ends
  <2>7. /\ session' \in [Slots -> Sessions \cup {None}]
        /\ \A s \in Slots : session'[s] # None <=> s \in Running \ done
    <3>1. \A s \in Slots : s \notin Running \ done => session'[s] = None  BY <2>1
    <3>2. \A s \in Running \ done : session'[s] # None  BY <2>5, NoneIsNone
    <3>3. \A s \in Slots : session'[s] \in Sessions \cup {None}  BY <2>5, <3>1
    <3>4. session' = [s \in Slots |-> session'[s]]  BY <2>1
    <3> QED  BY <3>1, <3>2, <3>3, <3>4
  <2>8. retained' \in [Slots -> RetainedPrefixes \cup {None}]
    <3>1. \A s \in Slots : retained'[s] \in RetainedPrefixes \cup {None}
      <4> SUFFICES ASSUME NEW s \in Slots, s \notin done
                   PROVE  retained'[s] \in RetainedPrefixes \cup {None}
        BY <2>6
      <4>1. retained'[s] = retained[s]  BY <2>1
      <4> QED  BY <2>4, <4>1
    <3>2. retained' = [s \in Slots |-> retained'[s]]  BY <2>1
    <3> QED  BY <3>1, <3>2
  <2>9. pool' \in [Slots -> Rows]
    <3>1. \A s \in Slots : pool'[s] \in Rows
      <4> SUFFICES ASSUME NEW s \in Slots, s \notin done PROVE pool'[s] \in Rows
        BY <2>6
      <4>1. pool'[s] = pool[s]  BY <2>1
      <4> QED  BY <2>4, <4>1
    <3>2. pool' = [s \in Slots |-> pool'[s]]  BY <2>1
    <3> QED  BY <3>1, <3>2
  <2>10. device' \in [Slots -> Devices]
    <3>1. \A s \in Running : Committed(s, out[s]) \in Devices
      <4> SUFFICES ASSUME NEW s \in Running PROVE Committed(s, out[s]) \in Devices
        OBVIOUS
      <4> QED  BY <1>2, CommittedIsExact
    <3>2. \A s \in Slots : device[s] \in Devices  BY <2>4
    <3> QED  BY <2>1, <3>1, <3>2
  <2>11. \A s \in Slots \ done : retained'[s] = retained[s] /\ pool'[s] = pool[s]
    BY <2>1
  <2>12. \A s \in Slots \ Running : device'[s] = device[s]  BY <2>1
  <2>13. order' \in Seq(Slots) /\ ToSet(order') = Held \cup done /\ Distinct(order')
    <3> DEFINE ended == Without(active, Slots \ done)
    <3>1. ended \in Seq(Slots) /\ ToSet(ended) = Running \ (Slots \ done) /\ Distinct(ended)
      BY <2>4, WithoutKeeps
    <3>2. ToSet(ended) = done  BY <2>3, <2>4, <3>1
    <3>3. order' = order \o ended  BY <2>1
    <3>4. ToSet(order) \cap ToSet(ended) = {}  BY <2>3, <2>4, <3>2
    <3> HIDE DEF ended
    <3> QED  BY <2>4, <3>1, <3>2, <3>3, <3>4, DistinctJoin
  <2>14. /\ snapshot' = snapshot /\ active' = Without(active, done)
         /\ answer' = [kind |-> "ok", need |-> 0]
    BY <2>1
  <2>15. \A s \in Running \ done :
           /\ [prompt |-> session'[s].prompt, boundary |-> session'[s].boundary,
               budget |-> session'[s].budget] \in Requests
           /\ Len(session'[s].generated) < session'[s].budget
           /\ RunsExactly(s)'
    BY <2>5
  <2> QED
    BY <2>3, <2>6, <2>7, <2>8, <2>9, <2>10, <2>11, <2>12, <2>13, <2>14, <2>15, Leave
<1> QED  BY <1>3, <1>4

(* A cancelled request keeps its prompt up to the message boundary.        *)
LEMMA GoesBack ==
    ASSUME IInv, NEW s \in Running,
           retained'[s] = [tokens |-> SubSeq(session[s].prompt, 1, session[s].boundary),
                           boundary |-> session[s].boundary],
           device'[s] = [device[s] EXCEPT !.gdn = snapshot[s], !.hidden = snapshot[s]],
           pool'[s] = Stored(SubSeq(session[s].prompt, 1, session[s].boundary), s),
           snapshot'[s] = snapshot[s]
    PROVE  /\ retained'[s] \in RetainedPrefixes
           /\ retained'[s].boundary \in 1 .. Len(retained'[s].tokens)
           /\ pool'[s] \in Rows /\ pool'[s].tokens <= pool[s].tokens
           /\ device'[s] \in Devices
           /\ KeptExactly(s)'
<1> DEFINE x == session[s]  p == x.prompt  b == x.boundary
           all == p \o x.generated  n == x.position  kept == SubSeq(p, 1, b)
<1>1. /\ s \in Slots /\ p \in Seq(Tokens) /\ x.generated \in Seq(Tokens)
      /\ Len(p) \in Nat \ {0, 1} /\ Len(x.generated) \in Nat
      /\ b \in Nat \ {0} /\ b < Len(p)
      /\ x.budget \in Nat /\ Len(x.generated) < x.budget
      /\ all \in Seq(Tokens) /\ Len(all) = Len(p) + Len(x.generated)
      /\ n \in Nat /\ n <= Len(all)
      /\ (x.generated = << >> <=> Len(x.generated) = 0)
  BY RunningFacts DEF IInv
<1>2. RunsExactly(s)  BY DEF IInv
<1>3. /\ n = IF x.generated = << >> THEN Len(p) ELSE Len(all) - 1
      /\ pool[s] = [state |-> "Active", tokens |-> Len(p) + x.budget - 1]
      /\ device[s].kv = SubSeq(all, 1, n) /\ device[s].mtp = Tail(all)
      /\ snapshot[s] = kept
  BY <1>2 DEF RunsExactly, Processed
<1>4. pool[s].tokens \in 0 .. ContextCapacity /\ device[s] \in Devices
  BY <1>1, DeviceFacts DEF IInv
<1>5. /\ retained'[s] = [tokens |-> kept, boundary |-> b]
      /\ pool'[s] = Stored(kept, s)
      /\ kept = SubSeq(p, 1, b)
  OBVIOUS
<1> HIDE DEF x, p, b, all, n, kept
<1>6. b \in 0 .. Len(p)  BY <1>1
<1>7. kept \in Seq(Tokens) /\ Len(kept) = b  BY <1>1, <1>5, <1>6, Cut
<1>8. b \in 1 .. Len(all) /\ b \in 0 .. Len(all) /\ n \in 0 .. Len(all) /\ b \in 0 .. n
  BY <1>1, <1>3
<1>9. kept = SubSeq(all, 1, b)
  <2>1. IsPrefix(p, all)  BY <1>1, ConcatIsLonger DEF all
  <2> QED  BY <1>1, <1>5, <1>6, <2>1, CutPrefix
<1>10. IsPrefix(kept, device[s].kv)
  <2> DEFINE c == SubSeq(all, 1, n)
  <2>1. c \in Seq(Tokens) /\ Len(c) = n /\ IsPrefix(c, all)
    BY <1>1, <1>8, Cut, CutIsPrefix
  <2>2. device[s].kv = c  BY <1>3
  <2> HIDE DEF c
  <2>3. SubSeq(c, 1, b) = kept  BY <1>1, <1>8, <1>9, <2>1, CutPrefix
  <2>4. IsPrefix(SubSeq(c, 1, b), c)  BY <1>8, <2>1, CutIsPrefix
  <2> QED  BY <2>2, <2>3, <2>4
<1>11. IsPrefix(Tail(kept), device[s].mtp)
  <2>1. all # << >> /\ Len(all) \in Nat  BY <1>1, EmptySeq
  <2>2. Tail(kept) = SubSeq(Tail(all), 1, b - 1)  BY <1>1, <1>8, <1>9, TailGlue
  <2>3. Tail(all) \in Seq(Tokens) /\ Len(Tail(all)) = Len(all) - 1  BY <1>1, <2>1, TailMeans
  <2>4. b - 1 \in 0 .. Len(Tail(all))  BY <1>1, <1>8, <2>1, <2>3
  <2> QED  BY <1>3, <2>2, <2>3, <2>4, CutIsPrefix
<1>12. SubSeq(kept, 1, b) = kept  BY <1>7, SubSeqFull
<1>13. /\ device'[s].kv = device[s].kv /\ device'[s].mtp = device[s].mtp
       /\ device'[s].gdn = kept /\ device'[s].hidden = kept
       /\ device'[s] \in Devices
  <2>1. device'[s] = [device[s] EXCEPT !.gdn = kept, !.hidden = kept]  BY <1>3
  <2> QED  BY <1>4, <1>7, <2>1 DEF Devices
<1>14. pool'[s] = [state |-> "Retained", tokens |-> Len(kept)]  BY <1>5 DEF Stored
<1>15. pool'[s] \in Rows /\ pool'[s].tokens <= pool[s].tokens
  <2> DEFINE t == pool[s].tokens
  <2>1. t = Len(p) + x.budget - 1 /\ t \in 0 .. ContextCapacity  BY <1>3, <1>4
  <2> HIDE DEF t
  <2>2. b \in 0 .. ContextCapacity /\ b <= t  BY <1>1, <2>1, Sizes
  <2> QED  BY <1>7, <1>14, <2>2 DEF Rows, t
<1>16. retained'[s] = [tokens |-> kept, boundary |-> b]  BY <1>5
<1>17. retained'[s].tokens = kept /\ retained'[s].boundary = b  BY <1>16
<1>18. KeptExactly(s)'
  <2>1. OpenOrCut(retained[s])'  BY <1>7, <1>17 DEF OpenOrCut
  <2>2. snapshot'[s] = SubSeq(kept, 1, b)  BY <1>3, <1>12
  <2>3. /\ IsPrefix(retained[s].tokens, device[s].kv)'
        /\ IsPrefix(Tail(retained[s].tokens), device[s].mtp)'
    BY <1>10, <1>11, <1>13, <1>17
  <2> QED  BY <1>13, <1>14, <1>17, <2>1, <2>2, <2>3 DEF KeptExactly
<1>19. retained'[s] \in RetainedPrefixes
  <2>1. [tokens |-> kept, boundary |-> b] \in RetainedPrefixes
    BY <1>1, <1>7 DEF RetainedPrefixes
  <2> QED  BY <1>16, <2>1
<1>20. b \in 1 .. Len(kept)  BY <1>1, <1>7
<1> QED  BY <1>13, <1>15, <1>17, <1>18, <1>19, <1>20

LEMMA CancelInv == ASSUME IInv, NEW s \in Slots, Cancel(s) PROVE IInv'
<1> DEFINE x == session[s]  kept == SubSeq(x.prompt, 1, x.boundary)
<1>1. s \in Running  BY DEF Cancel, Running
<1>2. CASE ~Storable(s, x.boundary, kept)
  <2>1. Answer("internal", 0) /\ UNCHANGED state  BY <1>2 DEF Cancel
  <2>2. answer' \in [kind : Kinds, need : Nat] /\ answer'.kind # "pages"
    BY <2>1 DEF Answer, Kinds
  <2> QED  BY <2>1, <2>2, QuietInv
<1>3. CASE Storable(s, x.boundary, kept)
  <2>1. /\ device' = [device EXCEPT ![s].gdn = snapshot[s], ![s].hidden = snapshot[s]]
        /\ session' = [session EXCEPT ![s] = None]
        /\ active' = Without(active, {s})
        /\ retained' = [retained EXCEPT ![s] = [tokens |-> kept, boundary |-> x.boundary]]
        /\ order' = Append(order, s)
        /\ pool' = [pool EXCEPT ![s] = Stored(kept, s)]
        /\ answer' = [kind |-> "ok", need |-> 0]
        /\ snapshot' = snapshot
    BY <1>3 DEF Cancel, Answer
  <2>2. /\ order \in Seq(Slots) /\ ToSet(order) = Held /\ Distinct(order)
        /\ Running \cap Held = {} /\ Running \subseteq Slots
        /\ session \in [Slots -> Sessions \cup {None}]
        /\ pool \in [Slots -> Rows] /\ device \in [Slots -> Devices]
        /\ retained \in [Slots -> RetainedPrefixes \cup {None}]
    BY DEF IInv, TypeOK, Books, Running, Rows, Devices
  <2>3. /\ retained'[s] = [tokens |-> SubSeq(session[s].prompt, 1, session[s].boundary),
                           boundary |-> session[s].boundary]
        /\ pool'[s] = Stored(SubSeq(session[s].prompt, 1, session[s].boundary), s)
        /\ snapshot'[s] = snapshot[s]
    BY <2>1, <2>2
  <2>4. /\ device'[s] = [device[s] EXCEPT !.gdn = snapshot[s], !.hidden = snapshot[s]]
        /\ \A t \in Slots : t # s => device'[t] = device[t]
        /\ device' = [t \in Slots |-> device'[t]]
    BY <2>1, <2>2
  <2> HIDE DEF kept, x
  <2>5. /\ retained'[s] \in RetainedPrefixes
        /\ retained'[s].boundary \in 1 .. Len(retained'[s].tokens)
        /\ pool'[s] \in Rows /\ pool'[s].tokens <= pool[s].tokens
        /\ device'[s] \in Devices
        /\ KeptExactly(s)'
    BY <1>1, <2>3, <2>4, GoesBack
  <2> DEFINE done == {s}
  <2>6. /\ session' \in [Slots -> Sessions \cup {None}]
        /\ \A t \in Slots : session'[t] # None <=> t \in Running \ done
    BY <2>1, <2>2 DEF Running
  <2>7. \A t \in Running \ done :
           /\ [prompt |-> session'[t].prompt, boundary |-> session'[t].boundary,
               budget |-> session'[t].budget] \in Requests
           /\ Len(session'[t].generated) < session'[t].budget
           /\ RunsExactly(t)'
    <3> SUFFICES ASSUME NEW t \in Running, t # s
                 PROVE  /\ [prompt |-> session'[t].prompt, boundary |-> session'[t].boundary,
                            budget |-> session'[t].budget] \in Requests
                        /\ Len(session'[t].generated) < session'[t].budget
                        /\ RunsExactly(t)'
      OBVIOUS
    <3>1. /\ t \in Slots /\ session'[t] = session[t] /\ pool'[t] = pool[t]
          /\ device'[t] = device[t] /\ snapshot'[t] = snapshot[t]
      BY <2>1, <2>2, <2>4
    <3>2. RunsExactly(t)'  BY <3>1, RunsFrame DEF IInv
    <3> QED  BY <3>1, <3>2 DEF IInv, TypeOK
  <2>8. /\ retained' \in [Slots -> RetainedPrefixes \cup {None}]
        /\ pool' \in [Slots -> Rows]
        /\ \A t \in Slots \ done : retained'[t] = retained[t] /\ pool'[t] = pool[t]
    BY <2>1, <2>2, <2>3, <2>5
  <2>9. device' \in [Slots -> Devices] /\ \A t \in Slots \ Running : device'[t] = device[t]
    BY <1>1, <2>2, <2>4, <2>5
  <2>10. order' \in Seq(Slots) /\ ToSet(order') = Held \cup done /\ Distinct(order')
    <3>1. s \notin ToSet(order)  BY <1>1, <2>2
    <3> QED  BY <2>1, <2>2, <3>1, DistinctAppend
  <2>11. /\ snapshot' = snapshot /\ active' = Without(active, done)
         /\ answer' = [kind |-> "ok", need |-> 0] /\ done \in SUBSET Running
    BY <1>1, <2>1
  <2>12. \A t \in done :
           /\ retained'[t] \in RetainedPrefixes
           /\ retained'[t].boundary \in 1 .. Len(retained'[t].tokens)
           /\ pool'[t] \in Rows /\ pool'[t].tokens <= pool[t].tokens
           /\ KeptExactly(t)'
    BY <2>5
  <2> HIDE DEF done
  <2> QED  BY <2>6, <2>7, <2>8, <2>9, <2>10, <2>11, <2>12, Leave
<1> QED  BY <1>2, <1>3

-----------------------------------------------------------------------------
(* The invariant holds of every reachable state.                           *)

LEMMA InitInv == ASSUME Init PROVE IInv
<1>1. Running = {} /\ Held = {}  BY DEF Init, Running, Held
<1>2. << >> \in Seq(Slots) /\ ToSet(<< >>) = {} /\ Distinct(<< >>)
  BY EmptySeq DEF ToSet, Distinct
<1>3. Unknown \in Devices
  <2>1. <<Garbage>> \in Seq(Tokens)  BY TextIsTokens
  <2> QED  BY <2>1 DEF Unknown, Devices
<1>4. Vacant \in Rows /\ Vacant.state = "Vacant" /\ Vacant.tokens = 0
  BY Sizes DEF Vacant, Rows
<1>5. TypeOK
  BY <1>1, <1>2, <1>3, <1>4 DEF Init, TypeOK, Rows, Devices
<1>6. FreePages(pool) >= 0
  <2>1. \A s \in Slots : pool[s].tokens = 0  BY <1>4 DEF Init
  <2>2. PagesOf(pool, Slots) = 0  BY <2>1, PagesOfNone
  <2> QED  BY <2>2, Sizes DEF FreePages
<1>7. Books
  <2>1. \A s \in Slots : pool[s].state = "Vacant" /\ pool[s].tokens = 0
    BY <1>4 DEF Init
  <2> QED  BY <1>1, <1>2, <1>6, <2>1 DEF Books, Init
<1>8. RefusalIsHonest  BY DEF Init, RefusalIsHonest
<1> QED  BY <1>1, <1>5, <1>7, <1>8 DEF IInv

LEMMA StutterInv == ASSUME IInv, UNCHANGED vars PROVE IInv'
<1>1. /\ UNCHANGED state /\ answer' = answer  BY DEF vars, state
<1>2. answer \in [kind : Kinds, need : Nat]  BY DEF IInv, TypeOK, Kinds
<1>3. answer'.kind = "pages" =>
        Pages(answer'.need)
          + PagesOf(pool, { s \in Slots : pool[s].state = "Active" }) > PhysicalPages
  BY <1>1 DEF IInv, RefusalIsHonest
<1> QED  BY <1>1, <1>2, <1>3, QuietInv

LEMMA NextInv == ASSUME IInv, [Next]_vars PROVE IInv'
<1>1. ASSUME NEW r \in Requests,
             AdmitEarly(r) \/ AdmitRefused(r) \/ Admit(r) \/ AdmitAborted(r) \/ AdmitFails(r)
      PROVE  IInv'
  BY <1>1, AdmitEarlyInv, AdmitRefusedInv, AdmitInv, AdmitAbortedInv, AdmitFailsInv
<1>2. ASSUME Step PROVE IInv'  BY <1>2, StepInv
<1>3. ASSUME NEW s \in Slots, Cancel(s) PROVE IInv'  BY <1>3, CancelInv
<1>4. ASSUME NEW n \in ScoreLengths, ScoreRefused(n) \/ Score(n) PROVE IInv'
  BY <1>4, ScoreRefusedInv, ScoreInv
<1>5. ASSUME UNCHANGED vars PROVE IInv'  BY <1>5, StutterInv
<1> QED  BY <1>1, <1>2, <1>3, <1>4, <1>5 DEF Next

THEOREM Inductive == Spec => []IInv
<1>1. Init => IInv  BY InitInv
<1>2. IInv /\ [Next]_vars => IInv'  BY NextInv
<1> QED  BY <1>1, <1>2, PTL DEF Spec

(* The variables keep their types.                                         *)
THEOREM TypeCorrect == Spec => []TypeOK
<1>1. IInv => TypeOK  BY DEF IInv
<1> QED  BY <1>1, Inductive, PTL

(* A running request generates from its own tokens alone, whatever its     *)
(* slot reused and whatever the rounds rejected, and its slot has the      *)
(* snapshot a cancellation goes back to (admit_with_progress, step).       *)
THEOREM SessionsAreExact == Spec => []SessionIsExact
<1>1. ASSUME IInv, NEW s \in Running
      PROVE  LET x == session[s] IN
             /\ HoldsState(s, Processed(x))
             /\ snapshot[s] = SubSeq(x.prompt, 1, x.boundary)
             /\ x.generated # << >> =>
                  /\ x.position = Len(x.prompt) + Len(x.generated) - 1
                  /\ device[s].mtp = Tail(x.prompt \o x.generated)
  <2> DEFINE x == session[s]  all == x.prompt \o x.generated  n == x.position
  <2>1. RunsExactly(s)  BY <1>1 DEF IInv
  <2>2. /\ all \in Seq(Tokens) /\ all # << >> /\ Len(all) = Len(x.prompt) + Len(x.generated)
        /\ n \in Nat /\ n <= Len(all) /\ Len(x.prompt) \in Nat \ {0, 1}
        /\ Len(x.generated) \in Nat /\ (x.generated = << >> <=> Len(x.generated) = 0)
        /\ Processed(x) \in Seq(Tokens) /\ Len(Processed(x)) = n
    BY <1>1, <2>1, RunningFacts DEF IInv
  <2>3. /\ n = IF x.generated = << >> THEN Len(x.prompt) ELSE Len(all) - 1
        /\ device[s].kv = Processed(x) /\ device[s].gdn = Processed(x)
        /\ device[s].hidden = Processed(x) /\ device[s].mtp = Tail(all)
        /\ snapshot[s] = SubSeq(x.prompt, 1, x.boundary)
    BY <2>1 DEF RunsExactly
  <2>4. Processed(x) = SubSeq(all, 1, n)  BY DEF Processed
  <2> HIDE DEF x, all, n
  <2>5. n \in 1 .. Len(all) /\ n - 1 = Len(Processed(x)) - 1
    <3> DEFINE m == Len(x.prompt)  k == Len(x.generated)  l == Len(all)
    <3>1. /\ m \in Nat /\ m # 0 /\ m # 1 /\ k \in Nat /\ l = m + k /\ n \in Nat /\ n <= l
          /\ n = (IF x.generated = << >> THEN m ELSE l - 1)
      BY <2>2, <2>3
    <3> HIDE DEF m, k, l
    <3>2. n \in 1 .. l  BY <3>1
    <3> QED  BY <2>2, <3>2 DEF l
  <2>6. SubSeq(device[s].mtp, 1, Len(Processed(x)) - 1) = Tail(Processed(x))
    <3> DEFINE t == SubSeq(all, 1, n)
               m == Len(t)
    <3>1. all \in Seq(Tokens) /\ n \in 1 .. Len(all)  BY <2>2, <2>5
    <3>2. SubSeq(Tail(all), 1, n - 1) = Tail(t)  BY ONLY <3>1, TailGlue
    <3> QED  BY ONLY <2>3, <2>4, <2>5, <3>2
  <2>7. SubSeq(device[s].kv, 1, Len(Processed(x))) = Processed(x)
    BY <2>2, <2>3, SubSeqFull
  <2>8. HoldsState(s, Processed(x))  BY <2>3, <2>6, <2>7 DEF HoldsState
  <2>9. x.generated # << >> => n = Len(x.prompt) + Len(x.generated) - 1
    BY <2>2, <2>3
  <2> QED  BY <2>3, <2>8, <2>9 DEF x, all, n
<1>2. IInv => SessionIsExact  BY <1>1 DEF SessionIsExact
<1> QED  BY <1>2, Inductive, PTL

(* What a finished or cancelled request leaves in its slot is the state of *)
(* exactly the tokens it claims (store_retained, cancel).                  *)
THEOREM PrefixesAreExact == Spec => []RetainedIsExact
<1>1. ASSUME IInv, NEW s \in Held
      PROVE  /\ HoldsState(s, retained[s].tokens)
             /\ pool[s] = [state |-> "Retained", tokens |-> Len(retained[s].tokens)]
             /\ snapshot[s] = SubSeq(retained[s].tokens, 1, retained[s].boundary)
  <2> DEFINE t == retained[s].tokens  m == device[s].mtp
  <2>1. KeptExactly(s)  BY <1>1 DEF IInv
  <2>2. s \in Slots /\ t \in Seq(Tokens) /\ t # << >>  BY <1>1, HeldFacts DEF IInv
  <2>3. device[s].kv \in Seq(Tokens) /\ m \in Seq(Tokens)
    BY <1>1, <2>2, DeviceFacts DEF IInv
  <2>4. /\ IsPrefix(t, device[s].kv) /\ IsPrefix(Tail(t), m)
        /\ device[s].gdn = t /\ device[s].hidden = t
        /\ pool[s] = [state |-> "Retained", tokens |-> Len(t)]
        /\ snapshot[s] = SubSeq(t, 1, retained[s].boundary)
    BY <2>1 DEF KeptExactly
  <2>5. SubSeq(device[s].kv, 1, Len(t)) = t
    <3> HIDE DEF t
    <3> QED  BY <2>2, <2>3, <2>4, PrefixIsCut
  <2>6. SubSeq(m, 1, Len(t) - 1) = Tail(t)
    <3> HIDE DEF t, m
    <3>1. Tail(t) \in Seq(Tokens) /\ Len(Tail(t)) = Len(t) - 1  BY <2>2, TailMeans
    <3>2. Tail(t) = SubSeq(m, 1, Len(Tail(t)))  BY <2>3, <2>4, <3>1, PrefixIsCut
    <3> QED  BY <3>1, <3>2
  <2> QED  BY <2>4, <2>5, <2>6 DEF HoldsState
<1>2. IInv => RetainedIsExact  BY <1>1 DEF RetainedIsExact
<1> QED  BY <1>2, Inductive, PTL

(* Every row a round writes is reserved, whichever requests run together   *)
(* (Required, Extent).                                                     *)
THEOREM WritesStayReserved == Spec => []WritesReserved
<1>1. ASSUME IInv, NEW s \in Running
      PROVE  session[s].position
               + (IF Fresh(s) THEN 0 ELSE IF s \in Speculative THEN Extent + 1 ELSE 1)
             <= pool[s].tokens
  <2> DEFINE x == session[s]  m == Len(x.prompt)  k == Len(x.generated)  b == x.budget
             n == x.position  t == pool[s].tokens
             all == x.prompt \o x.generated
  <2>1. RunsExactly(s)  BY <1>1 DEF IInv
  <2>2. /\ Len(all) = m + k /\ m \in Nat \ {0, 1} /\ k \in Nat /\ b \in Nat /\ k < b
        /\ (x.generated = << >> <=> k = 0)
    BY <1>1, <2>1, RunningFacts DEF IInv
  <2>3. /\ n = IF x.generated = << >> THEN m ELSE Len(all) - 1
        /\ pool[s] = [state |-> "Active", tokens |-> m + b - 1]
    BY <2>1 DEF RunsExactly
  <2>4. t = m + b - 1  BY <2>3
  <2>5. Remaining(s) = b - k /\ (Fresh(s) <=> x.generated = << >>)
    BY DEF Remaining, Fresh
  <2>6. s \in Speculative => Extent \in Nat /\ Extent <= Remaining(s) - 1
    BY <1>1, ExtentFits
  <2> HIDE DEF m, k, b, n, t, x, all
  <2>7. CASE Fresh(s)
    <3>1. n + 0 <= t  BY <2>2, <2>3, <2>4, <2>5, <2>7
    <3> QED  BY <2>7, <3>1 DEF n, t, x
  <2>8. CASE ~Fresh(s) /\ s \in Speculative
    <3>1. n = (m + k) - 1  BY <2>2, <2>3, <2>5, <2>8
    <3>2. n + (Extent + 1) <= t  BY <2>2, <2>4, <2>5, <2>6, <2>8, <3>1
    <3> QED  BY <2>8, <3>2 DEF n, t, x
  <2>9. CASE ~Fresh(s) /\ s \notin Speculative
    <3>1. n = (m + k) - 1  BY <2>2, <2>3, <2>5, <2>9
    <3>2. n + 1 <= t  BY <2>2, <2>4, <3>1
    <3> QED  BY <2>9, <3>2 DEF n, t, x
  <2> QED  BY <2>7, <2>8, <2>9
<1>2. IInv => WritesReserved  BY <1>1 DEF WritesReserved
<1> QED  BY <1>2, Inductive, PTL

(* The scheduler's lists, its slots and the pool agree, and no page is     *)
(* promised twice.                                                         *)
THEOREM BooksAlwaysAgree == Spec => []BooksAgree
<1>1. ASSUME IInv PROVE BooksAgree
  <2>1. Books /\ TypeOK  BY <1>1 DEF IInv
  <2>2. active \in Seq(Slots) /\ order \in Seq(Slots)  BY <2>1 DEF TypeOK
  <2>3. Len(active) = Cardinality(Running) /\ Len(order) = Cardinality(Held)
    BY <2>1, <2>2, DistinctCounts DEF Books
  <2>4. \A s \in Running : pool[s].state = "Active"
    <3> SUFFICES ASSUME NEW s \in Running PROVE pool[s].state = "Active"  OBVIOUS
    <3>1. RunsExactly(s)  BY <1>1 DEF IInv
    <3>2. pool[s] = [state |-> "Active",
                     tokens |-> Len(session[s].prompt) + session[s].budget - 1]
      BY <3>1 DEF RunsExactly
    <3> QED  BY <3>2
  <2> QED  BY <2>1, <2>3, <2>4 DEF Books, BooksAgree
<1>2. IInv => BooksAgree  BY <1>1
<1> QED  BY <1>2, Inductive, PTL

(* An admission or a scoring request is refused for lack of pages only if  *)
(* giving up every inactive prefix would not have helped                   *)
(* (prepare_kv_slot).                                                      *)
THEOREM RefusalsAreHonest == Spec => []RefusalIsHonest
<1>1. IInv => RefusalIsHonest  BY DEF IInv
<1> QED  BY <1>1, Inductive, PTL

-----------------------------------------------------------------------------
(* The code's consistency checks.                                          *)

(* What an admission finds in its slot is always as the checks ask.        *)
LEMMA NeverInconsistent ==
    ASSUME IInv, NEW r \in Requests, NEW c \in Choice(r)
    PROVE  ~Inconsistent(c, r)
<1> DEFINE s == c.slot  x == retained[s]
<1>1. /\ Choosable(c) /\ c.reused <= r.boundary /\ c.reused \in Nat
      /\ r.budget > 0 /\ Required(r) \in 0 .. ContextCapacity
      /\ c.reset => c.reused = 0 /\ ~c.fallback
      /\ c.reset \in BOOLEAN /\ c.fallback \in BOOLEAN
  BY ChoiceFacts DEF Choosable
<1>2. CASE c.reset
  BY <1>1, <1>2 DEF Inconsistent
<1>3. CASE ~c.reset
  <2>1. /\ s \in Held /\ Len(SubSeq(r.prompt, 1, c.reused)) = c.reused
        /\ SubSeq(r.prompt, 1, c.reused) \in Seq(Tokens)
    BY <1>3, RestoredIsExact
  <2>2. KeptExactly(s)  BY <2>1 DEF IInv
  <2>3. /\ x.tokens \in Seq(Tokens) /\ Len(x.tokens) \in Nat \ {0}
        /\ x.boundary \in Nat \ {0} /\ x.boundary <= Len(x.tokens)
        /\ x.boundary \in 0 .. Len(x.tokens) /\ s \in Slots
    BY <2>1, HeldFacts DEF IInv
  <2>4. /\ snapshot[s] = SubSeq(x.tokens, 1, x.boundary)
        /\ pool[s] = [state |-> "Retained", tokens |-> Len(x.tokens)]
    BY <2>2 DEF KeptExactly
  <2>5. snapshot[s] # None
    <3>1. SubSeq(x.tokens, 1, x.boundary) \in Seq(Tokens)  BY <2>3, Cut
    <3> QED  BY <2>4, <3>1, NoneIsNone
  <2>6. ~(c.fallback /\ x.boundary >= Len(x.tokens))
    <3> SUFFICES ASSUME c.fallback, x.boundary >= Len(x.tokens) PROVE FALSE  OBVIOUS
    <3>1. c \in Selected(r.prompt) /\ r.prompt \in Seq(Tokens)  BY RequestFacts DEF Choice
    <3>2. c \in Reuses(r.prompt)
      BY <1>3, <3>1 DEF Selected, Best, Reset
    <3>3. ~IsPrefix(x.tokens, r.prompt)
          /\ IsPrefix(SubSeq(x.tokens, 1, x.boundary), r.prompt)
      BY <3>2 DEF Reuses
    <3>4. x.boundary = Len(x.tokens)  BY <2>3
    <3>5. SubSeq(x.tokens, 1, x.boundary) = x.tokens  BY <2>3, <3>4, SubSeqFull
    <3> QED  BY <3>3, <3>5
  <2>7. RowsRestored(c)[s].tokens = c.reused
    <3>1. CASE c.fallback  BY <1>1, <3>1, RestoredRows
    <3>2. CASE ~c.fallback
      <4>1. c.reused = Len(x.tokens)  BY <1>3, <3>2, ChoiceFacts
      <4>2. RowsRestored(c) = pool  BY <1>1, <3>2, RestoredRows
      <4> QED  BY <2>4, <4>1, <4>2
    <3> QED  BY <3>1, <3>2
  <2>8. ~(Pages(Required(r)) < Pages(RowsRestored(c)[s].tokens))
    <3>1. /\ r.boundary \in Nat /\ r.boundary < Len(r.prompt) /\ Len(r.prompt) \in Nat
          /\ r.budget \in Nat /\ Required(r) = Len(r.prompt) + r.budget - 1
          /\ Required(r) \in Nat
      BY <1>1, RequestFacts
    <3>2. c.reused <= Required(r)
      <4> DEFINE q == Required(r)  m == Len(r.prompt)  b == r.budget  e == r.boundary
                 u == c.reused
      <4>1. /\ u \in Nat /\ e \in Nat /\ m \in Nat /\ b \in Nat /\ b > 0
            /\ u <= e /\ e < m /\ q = m + b - 1
        BY <1>1, <3>1
      <4> HIDE DEF q, m, b, e, u
      <4>2. u <= q  BY <4>1
      <4> QED  BY <4>2 DEF u, q
    <3>3. Pages(c.reused) <= Pages(Required(r))  BY <1>1, <3>1, <3>2, PagesMonotone
    <3>4. Pages(c.reused) \in Nat /\ Pages(Required(r)) \in Nat  BY <1>1, <3>1, PagesBounds
    <3> QED  BY <2>7, <3>3, <3>4
  <2> QED  BY <2>5, <2>6, <2>8 DEF Inconsistent
<1> QED  BY <1>2, <1>3

(* What a request leaves behind can always be kept.                        *)
LEMMA AlwaysStorable ==
    ASSUME IInv, NEW s \in Running, NEW tokens \in Seq(Tokens),
           session[s].boundary <= Len(tokens)
    PROVE  Storable(s, session[s].boundary, tokens)
<1>1. RunsExactly(s)  BY DEF IInv
<1>2. /\ session[s].prompt \in Seq(Tokens) /\ Len(session[s].prompt) \in Nat
      /\ session[s].boundary \in Nat \ {0} /\ session[s].boundary < Len(session[s].prompt)
  BY <1>1, RunningFacts DEF IInv
<1>3. session[s].boundary \in 0 .. Len(session[s].prompt)  BY <1>2
<1>4. snapshot[s] \in Seq(Tokens)  BY <1>1, <1>2, <1>3, Cut DEF RunsExactly
<1>5. Len(tokens) \in Nat  BY LenProperties
<1>6. session[s].boundary \in 1 .. Len(tokens)  BY <1>2, <1>5
<1> QED  BY <1>4, <1>6, NoneIsNone DEF Storable

(* No call ever reports an internal error: but for the check of the reused *)
(* prefix against the message boundary, the consistency checks of the      *)
(* admission, of the end of a round and of a cancellation never fire.      *)
THEOREM ChecksNeverFire == Spec => [](answer.kind # "internal")
<1> DEFINE Clean == answer.kind # "internal"
<1>1. Init => Clean  BY DEF Init
<1>2. ASSUME IInv, Clean, [Next]_vars PROVE Clean'
  <2>1. ASSUME NEW r \in Requests,
               AdmitEarly(r) \/ AdmitRefused(r) \/ Admit(r) \/ AdmitAborted(r) \/ AdmitFails(r)
        PROVE  Clean'
    <3>1. ASSUME AdmitRefused(r) PROVE Clean'
      <4>1. PICK c \in Choice(r) :
              IF Inconsistent(c, r) THEN Answer("internal", 0) /\ UNCHANGED state
              ELSE Answer("pages", Required(r))
        BY <3>1 DEF AdmitRefused
      <4>2. ~Inconsistent(c, r)  BY <1>2, NeverInconsistent
      <4> QED  BY <4>1, <4>2 DEF Answer
    <3>2. ASSUME AdmitEarly(r) PROVE Clean'  BY <3>2 DEF AdmitEarly, Answer
    <3>3. ASSUME Admit(r) PROVE Clean'  BY <3>3 DEF Admit, Answer
    <3>4. ASSUME AdmitAborted(r) PROVE Clean'  BY <3>4 DEF AdmitAborted, Answer
    <3>5. ASSUME AdmitFails(r) PROVE Clean'  BY <3>5 DEF AdmitFails, Answer
    <3> QED  BY <2>1, <3>1, <3>2, <3>3, <3>4, <3>5
  <2>2. ASSUME Step PROVE Clean'
    <3>1. PICK out \in [Running -> UNION { Outputs(s) : s \in Running }] :
            LET done == { s \in Running : Terminal(s, out[s]) }
                final == [s \in Running |-> Processed(Advanced(s, out[s]))]
            IN
            /\ \A s \in Running : out[s] \in Outputs(s)
            /\ IF \E s \in done : ~Storable(s, session[s].boundary, final[s])
               THEN Answer("internal", 0) /\ UNCHANGED state
               ELSE Answer("ok", 0)
      BY <2>2 DEF Step
    <3>2. ASSUME NEW s \in Running
          PROVE  Storable(s, session[s].boundary, Processed(Advanced(s, out[s])))
      <4> DEFINE y == Advanced(s, out[s])  x == session[s]  all == x.prompt \o y.generated
                 f == Processed(y)
      <4>1. out[s] \in Outputs(s)  BY <3>1
      <4>2. Len(out[s]) \in Nat \ {0}  BY <1>2, <4>1, OutputFacts
      <4>3. /\ all \in Seq(Tokens) /\ all # << >>
            /\ Len(all) = Len(x.prompt) + Len(x.generated) + Len(out[s])
            /\ f = Front(all)
        BY <1>2, <4>1, CommittedIsExact
      <4>4. RunsExactly(s)  BY <1>2 DEF IInv
      <4>5. /\ Len(x.prompt) \in Nat /\ Len(x.generated) \in Nat
            /\ x.boundary \in Nat /\ x.boundary < Len(x.prompt)
        BY <1>2, <4>4, RunningFacts DEF IInv
      <4> HIDE DEF all, x, y, f
      <4>6. f \in Seq(Tokens) /\ Len(f) = Len(all) - 1  BY <4>3, FrontMeans
      <4>7. x.boundary <= Len(f)
        <5> DEFINE m == Len(x.prompt)  k == Len(x.generated)  n == Len(out[s])
                   b == x.boundary  l == Len(f)
        <5>1. /\ m \in Nat /\ k \in Nat /\ n \in Nat /\ n # 0 /\ b \in Nat /\ b < m
              /\ l = (m + k + n) - 1
          BY <4>2, <4>3, <4>5, <4>6
        <5> HIDE DEF m, k, n, b, l
        <5>2. b <= l  BY <5>1
        <5> QED  BY <5>2 DEF b, l
      <4> QED  BY <1>2, <4>6, <4>7, AlwaysStorable DEF x, y, f
    <3>3. answer'.kind = "ok"  BY <3>1, <3>2 DEF Answer
    <3> QED  BY <3>3
  <2>3. ASSUME NEW s \in Slots, Cancel(s) PROVE Clean'
    <3> DEFINE x == session[s]  kept == SubSeq(x.prompt, 1, x.boundary)
    <3>1. s \in Running  BY <2>3 DEF Cancel, Running
    <3>2. Storable(s, x.boundary, kept)
      <4>1. RunsExactly(s)  BY <1>2, <3>1 DEF IInv
      <4>2. /\ x.prompt \in Seq(Tokens) /\ Len(x.prompt) \in Nat
            /\ x.boundary \in Nat /\ x.boundary < Len(x.prompt)
        BY <1>2, <3>1, <4>1, RunningFacts DEF IInv
      <4>3. x.boundary \in 0 .. Len(x.prompt)  BY <4>2
      <4>4. kept \in Seq(Tokens) /\ Len(kept) = x.boundary  BY <4>2, <4>3, Cut
      <4>5. x.boundary <= Len(kept)  BY <4>2, <4>4
      <4> HIDE DEF kept
      <4> QED  BY <1>2, <3>1, <4>4, <4>5, AlwaysStorable
    <3>3. Answer("ok", 0)  BY <2>3, <3>2 DEF Cancel
    <3> QED  BY <3>3 DEF Answer
  <2>4. ASSUME NEW n \in ScoreLengths, ScoreRefused(n) \/ Score(n) PROVE Clean'
    BY <2>4 DEF ScoreRefused, Score, Answer
  <2>5. ASSUME UNCHANGED vars PROVE Clean'  BY <1>2, <2>5 DEF vars
  <2> QED  BY <1>2, <2>1, <2>2, <2>3, <2>4, <2>5 DEF Next
<1> HIDE DEF Clean
<1>3. Spec => []Clean  BY <1>1, <1>2, Inductive, PTL DEF Spec
<1> QED  BY <1>3 DEF Clean
=============================================================================
