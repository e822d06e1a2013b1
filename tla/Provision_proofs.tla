-------------------------- MODULE Provision_proofs --------------------------
(***************************************************************************)
(* Every blob of the required length has the required bytes, for any       *)
(* number of callers, files, chunks and faults.                            *)
(***************************************************************************)
EXTENDS Provision, WellFoundedInduction, TLAPS

(* Where a process holds the lock of its file, and where the digest it     *)
(* computes stands for the partial file.                                   *)
Holding == {"locked", "receive", "sync", "check", "rename", "link"}
Writing == {"receive", "sync", "check", "rename"}

(* A process past Lock holds the lock of its file.                         *)
LocksHeld == \A p \in Procs : pc[p] \in Holding => lock[at[p]] = p

(* The digest is that of the whole partial file of a blob that is not      *)
(* there; the file is durable once synced and right once checked.          *)
DigestAgrees ==
    \A p \in Procs :
        /\ pc[p] \in Writing => digest[p] = partial[at[p]].data /\ blob[at[p]] = Absent
        /\ pc[p] \in {"check", "rename"} => partial[at[p]].synced
        /\ pc[p] = "rename" => digest[p] = Exact

(* An installed blob is durable, and exact if it has the right length.     *)
BlobsExact ==
    \A f \in Files : blob[f] # Absent =>
        /\ blob[f].synced
        /\ HasSize(blob[f]) => blob[f].data = Exact

(* What an inspection has passed over is there or counted as missing.      *)
Present(f) == Visible(f) # Absent /\ HasSize(Visible(f))
Inspected ==
    \A p \in Procs :
        /\ pc[p] \in {"idle", "done"} => at[p] = 1
        /\ pc[p] \in {"inspect", "confirm"} =>
             \A f \in Files : f < at[p] => f \in missing[p] \/ Present(f)
        /\ pc[p] = "done" => \A f \in Files : Present(f)

Inv ==
    /\ TypeOK /\ LocksHeld /\ DigestAgrees /\ BlobsExact /\ Inspected

-----------------------------------------------------------------------------
(* The lemmas on the data.                                                 *)

LEMMA ExactType == Exact \in Seq(Chunks) /\ Len(Exact) = Size
<1>1. Size \in Nat  BY ProvisionAssumption
<1>2. Exact \in [1 .. Size -> Chunks]  BY <1>1 DEF Exact, Chunks
<1> QED  BY <1>1, <1>2 DEF Exact

LEMMA EmptyType == << >> \in Seq(Chunks) /\ Len(<< >>) = 0
OBVIOUS

LEMMA AppendType ==
    ASSUME NEW s \in Seq(Chunks), NEW c \in Chunks
    PROVE  Append(s, c) \in Seq(Chunks) /\ Len(Append(s, c)) = Len(s) + 1
OBVIOUS

LEMMA SurvivorsType ==
    ASSUME NEW file \in Contents, NEW s \in Survivors(file)
    PROVE  s \in Contents /\ s.synced /\ (file.synced => s = file)
<1>1. CASE file.synced  BY <1>1 DEF Survivors
<1>2. CASE ~file.synced
  <2>1. PICK data \in UNION { [1 .. n -> Chunks] : n \in 0 .. Size } : s = Synced(data)
    BY <1>2 DEF Survivors
  <2>2. PICK n \in 0 .. Size : data \in [1 .. n -> Chunks]  BY <2>1
  <2>3. n \in Nat  BY ProvisionAssumption, <2>2
  <2>4. data \in Seq(Chunks)  BY <2>2, <2>3
  <2> QED  BY <1>2, <2>1, <2>4 DEF Synced, Contents
<1> QED  BY <1>1, <1>2

-----------------------------------------------------------------------------
LEMMA InitInv == Init => Inv
<1> SUFFICES ASSUME Init PROVE Inv  OBVIOUS
<1> USE ProvisionAssumption
<1>1. <<1>> \in Seq(Chunks) /\ 1 \in Files /\ Absent \notin Procs
  <2>1. 1 \in Chunks /\ 1 \in Files  BY DEF Chunks, Files
  <2> QED  BY <2>1
<1>2. Synced(Exact) \in Contents  BY ExactType DEF Synced, Contents
<1>3. Foreign \in Contents /\ Foreign.synced /\ (Size # 1 => ~HasSize(Foreign))
  BY <1>1 DEF Foreign, Synced, Contents, HasSize
<1>4. blob \in [Files -> Contents \cup {Absent}]  BY <1>2, <1>3 DEF Init
<1>5. partial \in [Files -> Contents]
  <2>1. \A data \in Leftovers : Synced(data) \in Contents  BY DEF Synced, Contents
  <2>2. { Synced(data) : data \in Leftovers } \subseteq Contents  BY <2>1
  <2> QED  BY <2>2 DEF Init
<1>6. TypeOK  BY <1>1, <1>4, <1>5, EmptyType DEF Init, TypeOK, Places
<1>7. BlobsExact
  <2> SUFFICES ASSUME NEW f \in Files, blob[f] # Absent
               PROVE  blob[f].synced /\ (HasSize(blob[f]) => blob[f].data = Exact)
    BY DEF BlobsExact
  <2>1. blob[f] = Synced(Exact) \/ (Size # 1 /\ blob[f] = Foreign)  BY DEF Init
  <2> QED  BY <2>1, <1>3 DEF Synced
<1>8. LocksHeld /\ DigestAgrees /\ Inspected
  BY DEF Init, LocksHeld, DigestAgrees, Inspected, Holding, Writing
<1> QED  BY <1>6, <1>7, <1>8 DEF Inv

LEMMA FirstFile == 1 \in Files
BY ProvisionAssumption DEF Files

LEMMA MinOfFiles == ASSUME NEW S \in SUBSET Files, S # {} PROVE Min(S) \in S
<1>1. FileCount \in Nat /\ S \subseteq Nat  BY ProvisionAssumption DEF Files
<1>3. \E m \in S : \A y \in S : ~(<<y, m>> \in OpToRel(<, Nat))
  BY <1>1, WFMin, NatLessThanWellFounded, Zenon
<1>4. \E m \in S : \A y \in S : m <= y
  <2>1. PICK m \in S : \A y \in S : ~(<<y, m>> \in OpToRel(<, Nat))  BY <1>3
  <2>2. \A y \in S : ~(y < m)
    <3> SUFFICES ASSUME NEW y \in S, y < m PROVE FALSE  OBVIOUS
    <3>1. <<y, m>> \in Nat \X Nat /\ <<y, m>>[1] < <<y, m>>[2]  BY <1>1
    <3>2. <<y, m>> \in OpToRel(<, Nat)  BY <3>1, Zenon DEF OpToRel
    <3> QED  BY <2>1, <3>2
  <2> QED  BY <1>1, <2>2
<1> QED  BY <1>4 DEF Min

(* The end of a call keeps the types and the locks of the others.          *)
LEMMA EndsInv ==
    ASSUME Inv, NEW p \in Procs, NEW place \in {"idle", "done"}, Ends(p, place)
    PROVE  /\ lock' \in [Files -> Procs \cup {Absent}] /\ pc' \in [Procs -> Places]
           /\ at' \in [Procs -> Files] /\ missing' \in [Procs -> SUBSET Files]
           /\ digest' \in [Procs -> Seq(Chunks)] /\ \A q \in Procs : Len(digest'[q]) <= Size
           /\ LocksHeld'
<1> USE ProvisionAssumption, FirstFile, EmptyType DEF Inv, TypeOK, Ends, Go, Released
<1>1. lock' \in [Files -> Procs \cup {Absent}]  OBVIOUS
<1>2. pc' \in [Procs -> Places] /\ at' \in [Procs -> Files] /\ missing' \in [Procs -> SUBSET Files]
  BY DEF Places
<1>3. digest' \in [Procs -> Seq(Chunks)]  OBVIOUS
<1>4. ASSUME NEW q \in Procs PROVE Len(digest'[q]) <= Size
  <2>1. CASE q = p  BY <2>1
  <2>2. CASE q # p  BY <2>2
  <2> QED  BY <2>1, <2>2
<1>5. LocksHeld'  BY DEF LocksHeld, Holding
<1> QED  BY <1>1, <1>2, <1>3, <1>4, <1>5

LEMMA StartInv == ASSUME Inv, NEW p \in Procs, Start(p) PROVE Inv'
<1> USE ProvisionAssumption DEF Start, Go, disk
<1>1. TypeOK'
  BY EmptyType DEF Inv, TypeOK, Places, Contents, Cached, HasSize
<1>2. LocksHeld'
  BY DEF Inv, TypeOK, LocksHeld, Holding
<1>3. DigestAgrees'
  BY DEF Inv, TypeOK, LocksHeld, DigestAgrees, Holding, Writing, Cached, HasSize
<1>4. BlobsExact'
  BY DEF Inv, TypeOK, BlobsExact, DigestAgrees, Writing, HasSize
<1>5. Inspected'
  BY DEF Inv, TypeOK, Inspected, Present, Visible, Files
<1> QED  BY <1>1, <1>2, <1>3, <1>4, <1>5 DEF Inv

(* A call that ends without an answer and without touching the disk.       *)
LEMMA GivesUpInv ==
    ASSUME Inv, NEW p \in Procs, Ends(p, "idle"), UNCHANGED disk, faults' \in 0 .. MaxFaults
    PROVE  Inv'
<1> USE DEF disk
<1>1. TypeOK'  BY EndsInv DEF Inv, TypeOK
<1>2. LocksHeld'  BY EndsInv
<1>3. DigestAgrees'  BY DEF Inv, TypeOK, DigestAgrees, Ends, Go, Writing
<1>4. BlobsExact'  BY DEF Inv, BlobsExact, HasSize
<1>5. Inspected'  BY FirstFile DEF Inv, TypeOK, Inspected, Present, Visible, Ends, Go, HasSize
<1> QED  BY <1>1, <1>2, <1>3, <1>4, <1>5 DEF Inv

LEMMA InspectInv == ASSUME Inv, NEW p \in Procs, Inspect(p) PROVE Inv'
<1> DEFINE file == Visible(at[p])
           lacks == missing[p] \cup (IF file = Absent THEN {at[p]} ELSE {})
<1> USE ProvisionAssumption DEF disk
<1>1. /\ pc[p] \in {"inspect", "confirm"} /\ UNCHANGED <<disk, faults>>
      /\ at[p] \in Files /\ missing[p] \in SUBSET Files /\ faults \in 0 .. MaxFaults
      /\ lacks \in SUBSET Files /\ FileCount \in Nat
  BY DEF Inspect, Inv, TypeOK
<1>2. CASE Ends(p, "idle")  BY <1>1, <1>2, GivesUpInv
<1>3. ASSUME ~(file # Absent /\ ~HasSize(file))
      PROVE  \A f \in Files : f <= at[p] => f \in lacks \/ Present(f)
  <2> SUFFICES ASSUME NEW f \in Files, f <= at[p] PROVE f \in lacks \/ Present(f)  OBVIOUS
  <2>1. CASE f < at[p]  BY <1>1, <2>1 DEF Inv, Inspected
  <2>2. CASE f = at[p]  BY <1>3, <2>2 DEF Present
  <2> QED  BY <1>1, <2>1, <2>2 DEF Files
<1>4. CASE /\ ~(file # Absent /\ ~HasSize(file)) /\ at[p] < FileCount
           /\ at' = [at EXCEPT ![p] = @ + 1] /\ missing' = [missing EXCEPT ![p] = lacks]
           /\ UNCHANGED <<pc, lock, digest>>
  <2>1. at[p] + 1 \in Files  BY <1>1, <1>4 DEF Files
  <2>2. TypeOK'
    <3>1. at' \in [Procs -> Files]  BY <1>4, <2>1 DEF Inv, TypeOK
    <3>2. missing' \in [Procs -> SUBSET Files]  BY <1>1, <1>4 DEF Inv, TypeOK
    <3> QED  BY <1>1, <1>4, <3>1, <3>2 DEF Inv, TypeOK
  <2>3. LocksHeld' /\ DigestAgrees'
    BY <1>1, <1>4 DEF Inv, TypeOK, LocksHeld, DigestAgrees, Holding, Writing
  <2>4. BlobsExact'  BY <1>1 DEF Inv, BlobsExact, HasSize
  <2>5. ASSUME NEW q \in Procs, NEW f \in Files, f < at'[q], pc'[q] \in {"inspect", "confirm"}
        PROVE  f \in missing'[q] \/ Present(f)'
    <3>1. Present(f)' <=> Present(f)  BY <1>1 DEF Present, Visible, HasSize
    <3>2. CASE q = p
      <4>1. f <= at[p] /\ missing'[q] = lacks
        BY <1>1, <1>4, <2>5, <3>2 DEF Inv, TypeOK, Files
      <4> QED  BY <1>3, <1>4, <3>1, <4>1
    <3>3. CASE q # p  BY <1>4, <2>5, <3>1, <3>3 DEF Inv, TypeOK, Inspected
    <3> QED  BY <3>2, <3>3
  <2>6. Inspected'
    BY <1>1, <1>4, <2>5 DEF Inv, TypeOK, Inspected, Present, Visible, HasSize
  <2> QED  BY <2>2, <2>3, <2>4, <2>6 DEF Inv
<1>5. CASE ~(file # Absent /\ ~HasSize(file)) /\ ~(at[p] < FileCount) /\ lacks = {} /\ Ends(p, "done")
  <2>1. TypeOK'  BY <1>1, <1>5, EndsInv DEF Inv, TypeOK
  <2>2. LocksHeld'  BY <1>5, EndsInv
  <2>3. DigestAgrees'  BY <1>1, <1>5 DEF Inv, TypeOK, DigestAgrees, Ends, Go, Writing
  <2>4. BlobsExact'  BY <1>1 DEF Inv, BlobsExact, HasSize
  <2>5. \A f \in Files : Present(f)  BY <1>1, <1>3, <1>5 DEF Files
  <2>6. Inspected'
    BY <1>1, <1>5, <2>5, FirstFile DEF Inv, TypeOK, Inspected, Present, Visible, Ends, Go, HasSize
  <2> QED  BY <2>1, <2>2, <2>3, <2>4, <2>6 DEF Inv
<1>6. CASE /\ lacks # {} /\ Go(p, "lock") /\ at' = [at EXCEPT ![p] = Min(lacks)]
           /\ missing' = [missing EXCEPT ![p] = lacks] /\ UNCHANGED <<lock, digest>>
  <2>1. Min(lacks) \in Files  BY <1>1, <1>6, MinOfFiles
  <2>2. TypeOK'
    <3>1. at' \in [Procs -> Files]  BY <1>6, <2>1 DEF Inv, TypeOK
    <3>2. missing' \in [Procs -> SUBSET Files] /\ pc' \in [Procs -> Places]
      BY <1>1, <1>6 DEF Inv, TypeOK, Go, Places
    <3> QED  BY <1>1, <1>6, <3>1, <3>2 DEF Inv, TypeOK
  <2>3. LocksHeld' /\ DigestAgrees'
    BY <1>1, <1>6 DEF Inv, TypeOK, LocksHeld, DigestAgrees, Holding, Writing, Go
  <2>4. BlobsExact'  BY <1>1 DEF Inv, BlobsExact, HasSize
  <2>5. Inspected'
    BY <1>1, <1>6 DEF Inv, TypeOK, Inspected, Present, Visible, Go, HasSize
  <2> QED  BY <2>2, <2>3, <2>4, <2>5 DEF Inv
<1> QED  BY <1>2, <1>4, <1>5, <1>6 DEF Inspect

LEMMA LockInv == ASSUME Inv, NEW p \in Procs, Lock(p) PROVE Inv'
<1> USE ProvisionAssumption DEF Lock, Go, disk
<1>1. TypeOK'
  BY EmptyType DEF Inv, TypeOK, Places, Contents, Cached, HasSize
<1>2. LocksHeld'
  BY DEF Inv, TypeOK, LocksHeld, Holding
<1>3. DigestAgrees'
  BY DEF Inv, TypeOK, LocksHeld, DigestAgrees, Holding, Writing, Cached, HasSize
<1>4. BlobsExact'
  BY DEF Inv, TypeOK, BlobsExact, DigestAgrees, Writing, HasSize
<1>5. Inspected'
  BY DEF Inv, TypeOK, Inspected, Present, Visible, Files
<1> QED  BY <1>1, <1>2, <1>3, <1>4, <1>5 DEF Inv

LEMMA FindBlobInv == ASSUME Inv, NEW p \in Procs, FindBlob(p) PROVE Inv'
<1> USE DEF disk
<1>1. CASE Ends(p, "idle")  BY <1>1, GivesUpInv DEF FindBlob, Inv, TypeOK
<1>2. CASE Go(p, "link") /\ UNCHANGED <<lock, at, missing, digest>>
  <2> USE <1>2 DEF FindBlob, Go
  <2>1. TypeOK'  BY DEF Inv, TypeOK, Places
  <2>2. LocksHeld' /\ DigestAgrees'
    BY DEF Inv, TypeOK, LocksHeld, DigestAgrees, Holding, Writing
  <2>3. BlobsExact'  BY DEF Inv, BlobsExact, HasSize
  <2>4. Inspected'  BY DEF Inv, TypeOK, Inspected, Present, Visible, HasSize
  <2> QED  BY <2>1, <2>2, <2>3, <2>4 DEF Inv
<1> QED  BY <1>1, <1>2 DEF FindBlob

LEMMA OpenInv == ASSUME Inv, NEW p \in Procs, Open(p) PROVE Inv'
<1> USE ProvisionAssumption DEF Open, Go, disk
<1>1. TypeOK'
  BY EmptyType DEF Inv, TypeOK, Resumable, Places, Contents, Cached, HasSize
<1>2. LocksHeld'
  BY DEF Inv, TypeOK, LocksHeld, Resumable, Holding
<1>3. DigestAgrees'
  BY DEF Inv, TypeOK, LocksHeld, DigestAgrees, Resumable, Holding, Writing, Cached, HasSize
<1>4. BlobsExact'
  BY DEF Inv, TypeOK, BlobsExact, DigestAgrees, Writing, HasSize
<1>5. Inspected'
  BY DEF Inv, TypeOK, Inspected, Present, Visible, Resumable, Files
<1> QED  BY <1>1, <1>2, <1>3, <1>4, <1>5 DEF Inv

LEMMA ReceiveInv == ASSUME Inv, NEW p \in Procs, Receive(p) PROVE Inv'
<1> USE ProvisionAssumption
<1>1. /\ at[p] \in Files /\ digest[p] \in Seq(Chunks) /\ Len(digest[p]) < Size
      /\ digest[p] = partial[at[p]].data /\ pc[p] = "receive" /\ lock[at[p]] = p
      /\ blob[at[p]] = Absent /\ faults' \in 0 .. MaxFaults
  BY DEF Receive, Inv, TypeOK, DigestAgrees, LocksHeld, Writing, Holding, Fault
<1>2. PICK chunk \in Chunks : Appended(p, chunk)
  <2>1. Len(digest[p]) \in Nat  BY <1>1
  <2>2. 0 \in Chunks /\ Len(digest[p]) + 1 \in Chunks  BY <1>1, <2>1 DEF Chunks
  <2> QED  BY <2>2 DEF Receive
<1>3. /\ Append(digest[p], chunk) \in Seq(Chunks)
      /\ Len(Append(digest[p], chunk)) = Len(digest[p]) + 1
  BY <1>1, AppendType
<1>4. UNCHANGED <<blob, link, lock, pc, at, missing>>  BY DEF Receive
<1>5. /\ partial' = [partial EXCEPT ![at[p]] = Cached(Append(digest[p], chunk))]
      /\ digest' = [digest EXCEPT ![p] = Append(digest[p], chunk)]
  BY <1>1, <1>2 DEF Appended
<1>6. TypeOK'
  <2>1. Cached(Append(digest[p], chunk)) \in Contents  BY <1>3 DEF Cached, Contents
  <2>2. partial' \in [Files -> Contents]  BY <1>5, <2>1 DEF Inv, TypeOK
  <2>3. digest' \in [Procs -> Seq(Chunks)]  BY <1>3, <1>5 DEF Inv, TypeOK
  <2>4. ASSUME NEW q \in Procs PROVE Len(digest'[q]) <= Size
    <3>1. Len(digest[p]) + 1 <= Size  BY <1>1
    <3>2. CASE q = p  BY <1>3, <1>5, <3>1, <3>2 DEF Inv, TypeOK
    <3>3. CASE q # p  BY <1>5, <3>3 DEF Inv, TypeOK
    <3> QED  BY <3>2, <3>3
  <2> QED  BY <1>1, <1>4, <2>2, <2>3, <2>4 DEF Inv, TypeOK
<1>7. LocksHeld'  BY <1>4 DEF Inv, LocksHeld
<1>8. DigestAgrees'
  <2> SUFFICES ASSUME NEW q \in Procs
               PROVE  /\ pc[q] \in Writing => digest'[q] = partial'[at[q]].data /\ blob[at[q]] = Absent
                      /\ pc[q] \in {"check", "rename"} => partial'[at[q]].synced
                      /\ pc[q] = "rename" => digest'[q] = Exact
    BY <1>4 DEF DigestAgrees
  <2>1. CASE q = p  BY <1>1, <1>5, <2>1 DEF Inv, TypeOK, Cached
  <2>2. CASE q # p /\ pc[q] \in Writing
    <3>1. at[q] # at[p]  BY <1>1, <2>2 DEF Inv, LocksHeld, Holding, Writing
    <3> QED  BY <1>5, <2>2, <3>1 DEF Inv, TypeOK, DigestAgrees
  <2> QED  BY <2>1, <2>2 DEF Writing
<1>9. BlobsExact'  BY <1>4 DEF Inv, BlobsExact
<1>10. Inspected'  BY <1>4 DEF Inv, Inspected, Present, Visible
<1> QED  BY <1>6, <1>7, <1>8, <1>9, <1>10 DEF Inv

LEMMA EndOfBodyInv == ASSUME Inv, NEW p \in Procs, EndOfBody(p) PROVE Inv'
<1> USE ProvisionAssumption DEF EndOfBody, Go, disk
<1>1. TypeOK'
  BY EmptyType DEF Inv, TypeOK, Fault, Places, Contents, Cached, HasSize
<1>2. LocksHeld'
  BY DEF Inv, TypeOK, LocksHeld, Fault, Holding
<1>3. DigestAgrees'
  BY DEF Inv, TypeOK, LocksHeld, DigestAgrees, Fault, Holding, Writing, Cached, HasSize
<1>4. BlobsExact'
  BY DEF Inv, TypeOK, BlobsExact, DigestAgrees, Writing, HasSize
<1>5. Inspected'
  BY DEF Inv, TypeOK, Inspected, Present, Visible, Fault, Files
<1> QED  BY <1>1, <1>2, <1>3, <1>4, <1>5 DEF Inv

LEMMA SyncInv == ASSUME Inv, NEW p \in Procs, Sync(p) PROVE Inv'
<1> USE ProvisionAssumption DEF Sync, Go, disk
<1>1. TypeOK'
  BY EmptyType DEF Inv, TypeOK, Places, Contents, Cached, HasSize
<1>2. LocksHeld'
  BY DEF Inv, TypeOK, LocksHeld, Holding
<1>3. DigestAgrees'
  BY DEF Inv, TypeOK, LocksHeld, DigestAgrees, Holding, Writing, Cached, HasSize
<1>4. BlobsExact'
  BY DEF Inv, TypeOK, BlobsExact, DigestAgrees, Writing, HasSize
<1>5. Inspected'
  BY DEF Inv, TypeOK, Inspected, Present, Visible, Files
<1> QED  BY <1>1, <1>2, <1>3, <1>4, <1>5 DEF Inv

LEMMA CheckInv == ASSUME Inv, NEW p \in Procs, Check(p) PROVE Inv'
<1>1. /\ at[p] \in Files /\ pc[p] = "check" /\ lock[at[p]] = p /\ blob[at[p]] = Absent
      /\ digest[p] = partial[at[p]].data /\ partial[at[p]].synced
      /\ UNCHANGED <<blob, link, faults>>
  BY DEF Check, Inv, TypeOK, DigestAgrees, LocksHeld, Writing, Holding
<1>2. CASE Ends(p, "idle") /\ UNCHANGED partial
  BY <1>1, <1>2, GivesUpInv DEF Inv, TypeOK, disk
<1>3. CASE Ends(p, "idle") /\ partial' = [partial EXCEPT ![at[p]] = Cached(<< >>)]
  <2>1. TypeOK'
    <3>1. Cached(<< >>) \in Contents  BY EmptyType DEF Cached, Contents
    <3>2. partial' \in [Files -> Contents]  BY <1>3, <3>1 DEF Inv, TypeOK
    <3> QED  BY <1>1, <1>3, <3>2, EndsInv DEF Inv, TypeOK
  <2>2. LocksHeld'  BY <1>3, EndsInv
  <2>3. DigestAgrees'
    <3> SUFFICES ASSUME NEW q \in Procs, pc'[q] \in Writing
                 PROVE  /\ digest'[q] = partial'[at'[q]].data /\ blob'[at'[q]] = Absent
                        /\ pc'[q] \in {"check", "rename"} => partial'[at'[q]].synced
                        /\ pc'[q] = "rename" => digest'[q] = Exact
      BY DEF DigestAgrees, Writing
    <3>1. q # p /\ pc[q] \in Writing /\ at'[q] = at[q] /\ digest'[q] = digest[q] /\ pc'[q] = pc[q]
      BY <1>3 DEF Inv, TypeOK, Ends, Go, Writing
    <3>2. at[q] # at[p]  BY <1>1, <3>1 DEF Inv, LocksHeld, Holding, Writing
    <3> QED  BY <1>1, <1>3, <3>1, <3>2 DEF Inv, TypeOK, DigestAgrees
  <2>4. BlobsExact'  BY <1>1 DEF Inv, BlobsExact
  <2>5. Inspected'
    BY <1>1, <1>3, FirstFile DEF Inv, TypeOK, Inspected, Present, Visible, Ends, Go
  <2> QED  BY <2>1, <2>2, <2>3, <2>4, <2>5 DEF Inv
<1>4. CASE digest[p] = Exact /\ Go(p, "rename") /\ UNCHANGED <<partial, lock, at, missing, digest>>
  <2>1. TypeOK'  BY <1>1, <1>4 DEF Inv, TypeOK, Go, Places
  <2>2. LocksHeld' /\ DigestAgrees'
    BY <1>1, <1>4 DEF Inv, TypeOK, LocksHeld, DigestAgrees, Go, Holding, Writing
  <2>3. BlobsExact'  BY <1>1 DEF Inv, BlobsExact
  <2>4. Inspected'  BY <1>1, <1>4 DEF Inv, TypeOK, Inspected, Present, Visible, Go
  <2> QED  BY <2>1, <2>2, <2>3, <2>4 DEF Inv
<1> QED  BY <1>2, <1>3, <1>4 DEF Check, Rejected

LEMMA RenameInv == ASSUME Inv, NEW p \in Procs, Rename(p) PROVE Inv'
<1>1. /\ at[p] \in Files /\ pc[p] = "rename" /\ lock[at[p]] = p /\ blob[at[p]] = Absent
      /\ partial[at[p]].synced /\ partial[at[p]].data = Exact /\ partial[at[p]] \in Contents
  BY DEF Rename, Inv, TypeOK, DigestAgrees, LocksHeld, Writing, Holding
<1>2. /\ blob' = [blob EXCEPT ![at[p]] = partial[at[p]]]
      /\ partial' = [partial EXCEPT ![at[p]] = Synced(<< >>)]
      /\ pc' = [pc EXCEPT ![p] = "link"]
      /\ UNCHANGED <<link, lock, at, missing, digest, faults>>
  BY DEF Rename, Go
<1>3. TypeOK'
  <2>1. Synced(<< >>) \in Contents  BY EmptyType DEF Synced, Contents
  <2>2. partial' \in [Files -> Contents]  BY <1>2, <2>1 DEF Inv, TypeOK
  <2>3. blob' \in [Files -> Contents \cup {Absent}]  BY <1>1, <1>2 DEF Inv, TypeOK
  <2>4. pc' \in [Procs -> Places]  BY <1>2 DEF Inv, TypeOK, Places
  <2> QED  BY <1>2, <2>2, <2>3, <2>4 DEF Inv, TypeOK
<1>4. LocksHeld'  BY <1>1, <1>2 DEF Inv, TypeOK, LocksHeld, Holding
<1>5. DigestAgrees'
  <2> SUFFICES ASSUME NEW q \in Procs, pc'[q] \in Writing
               PROVE  /\ digest[q] = partial'[at[q]].data /\ blob'[at[q]] = Absent
                      /\ pc'[q] \in {"check", "rename"} => partial'[at[q]].synced
                      /\ pc'[q] = "rename" => digest[q] = Exact
    BY <1>2 DEF DigestAgrees, Writing
  <2>1. q # p /\ pc[q] \in Writing /\ pc'[q] = pc[q]  BY <1>2 DEF Inv, TypeOK, Writing
  <2>2. at[q] # at[p]  BY <1>1, <2>1 DEF Inv, LocksHeld, Holding, Writing
  <2> QED  BY <1>2, <2>1, <2>2 DEF Inv, TypeOK, DigestAgrees
<1>6. BlobsExact'  BY <1>1, <1>2 DEF Inv, TypeOK, BlobsExact, HasSize
<1>7. Inspected'
  <2>1. ASSUME NEW f \in Files, Present(f) PROVE Present(f)'
    BY <1>1, <1>2, <2>1 DEF Inv, TypeOK, Present, Visible, HasSize
  <2>2. ASSUME NEW q \in Procs
        PROVE  /\ pc'[q] \in {"idle", "done"} => at[q] = 1 /\ pc[q] = pc'[q]
               /\ pc'[q] \in {"inspect", "confirm"} => pc[q] = pc'[q]
    BY <1>2 DEF Inv, TypeOK, Inspected
  <2>3. at' = at /\ missing' = missing  BY <1>2
  <2> QED  BY <2>1, <2>2, <2>3 DEF Inv, Inspected
<1> QED  BY <1>3, <1>4, <1>5, <1>6, <1>7 DEF Inv

LEMMA LinkInv == ASSUME Inv, NEW p \in Procs, Link(p) PROVE Inv'
<1> USE ProvisionAssumption DEF Link, Go
<1>1. TypeOK'
  <2> DEFINE left == missing[p] \ {at[p]}
  <2>1. at[p] \in Files /\ left \in SUBSET Files  BY DEF Inv, TypeOK
  <2>2. (IF left = {} THEN 1 ELSE Min(left)) \in Files  BY <2>1, FirstFile, MinOfFiles
  <2>3. at' \in [Procs -> Files] /\ missing' \in [Procs -> SUBSET Files]
    BY <2>1, <2>2 DEF Inv, TypeOK
  <2>4. lock' \in [Files -> Procs \cup {Absent}] /\ link' \subseteq Files
    BY <2>1 DEF Inv, TypeOK, Released
  <2>5. pc' \in [Procs -> Places]  BY DEF Inv, TypeOK, Places
  <2>6. digest' \in [Procs -> Seq(Chunks)]  BY EmptyType DEF Inv, TypeOK
  <2>7. ASSUME NEW q \in Procs PROVE Len(digest'[q]) <= Size
    <3>1. CASE q = p  BY <3>1, EmptyType DEF Inv, TypeOK
    <3>2. CASE q # p  BY <3>2 DEF Inv, TypeOK
    <3> QED  BY <3>1, <3>2
  <2> QED  BY <2>3, <2>4, <2>5, <2>6, <2>7 DEF Inv, TypeOK
<1>2. LocksHeld'
  BY DEF Inv, TypeOK, LocksHeld, Released, Holding
<1>3. DigestAgrees'
  BY DEF Inv, TypeOK, LocksHeld, DigestAgrees, Released, Holding, Writing, Cached, HasSize
<1>4. BlobsExact'
  BY DEF Inv, TypeOK, BlobsExact, DigestAgrees, Writing, HasSize
<1>5. Inspected'
  BY DEF Inv, TypeOK, Inspected, Present, Visible, Released, Files
<1> QED  BY <1>1, <1>2, <1>3, <1>4, <1>5 DEF Inv

LEMMA StopInv == ASSUME Inv, NEW p \in Procs, Stop(p) PROVE Inv'
<1>1. faults' \in 0 .. MaxFaults  BY ProvisionAssumption DEF Stop, Fault, Inv, TypeOK
<1> QED  BY <1>1, GivesUpInv DEF Stop

LEMMA PowerLossInv == ASSUME Inv, PowerLoss PROVE Inv'
<1> USE ProvisionAssumption
<1>1. PICK found \in [Files -> UNION { Outcomes(f) : f \in Files }], kept \in SUBSET link :
         /\ \A f \in Files : found[f] \in Outcomes(f)
         /\ blob' = [f \in Files |-> found[f].blob]
         /\ partial' = [f \in Files |-> found[f].partial]
         /\ link' = kept
  BY DEF PowerLoss
<1>2. /\ lock' = [f \in Files |-> Absent]
      /\ pc' = [p \in Procs |-> "idle"] /\ at' = [p \in Procs |-> 1]
      /\ missing' = [p \in Procs |-> {}] /\ digest' = [p \in Procs |-> << >>]
      /\ faults' \in 0 .. MaxFaults
  BY DEF PowerLoss, Fault, Inv, TypeOK
<1>3. ASSUME NEW f \in Files
      PROVE  /\ partial'[f] \in Contents
             /\ blob'[f] = Absent \/ (blob[f] # Absent /\ blob'[f] = blob[f])
  <2>1. partial[f] \in Contents /\ (blob[f] # Absent => blob[f] \in Contents /\ blob[f].synced)
    BY DEF Inv, TypeOK, BlobsExact
  <2>2. found[f] \in Outcomes(f) /\ blob'[f] = found[f].blob /\ partial'[f] = found[f].partial
    BY <1>1
  <2>3. CASE \E file \in Survivors(partial[f]) :
               blob[f] = Absent /\ found[f] = [blob |-> Absent, partial |-> file]
    BY <2>1, <2>2, <2>3, SurvivorsType
  <2>4. CASE \E file \in Survivors(blob[f]) :
               blob[f] # Absent /\ found[f] = [blob |-> Absent, partial |-> file]
    BY <2>1, <2>2, <2>4, SurvivorsType
  <2>5. CASE blob[f] # Absent /\ found[f] \in [blob : Survivors(blob[f]), partial : Survivors(partial[f])]
    BY <2>1, <2>2, <2>5, SurvivorsType
  <2> QED  BY <2>2, <2>3, <2>4, <2>5 DEF Outcomes
<1>4. TypeOK'
  <2>1. blob' \in [Files -> Contents \cup {Absent}] /\ partial' \in [Files -> Contents]
    BY <1>1, <1>3 DEF Inv, TypeOK
  <2>2. link' \subseteq Files  BY <1>1 DEF Inv, TypeOK
  <2>3. /\ lock' \in [Files -> Procs \cup {Absent}] /\ pc' \in [Procs -> Places]
        /\ at' \in [Procs -> Files] /\ missing' \in [Procs -> SUBSET Files]
        /\ digest' \in [Procs -> Seq(Chunks)] /\ \A p \in Procs : Len(digest'[p]) <= Size
    BY <1>2, FirstFile, EmptyType DEF Places
  <2> QED  BY <1>2, <2>1, <2>2, <2>3 DEF TypeOK
<1>5. LocksHeld' /\ DigestAgrees' /\ Inspected'
  BY <1>2 DEF LocksHeld, DigestAgrees, Inspected, Holding, Writing
<1>6. BlobsExact'  BY <1>3 DEF Inv, BlobsExact, HasSize
<1> QED  BY <1>4, <1>5, <1>6 DEF Inv

LEMMA NextInv == Inv /\ [Next]_vars => Inv'
<1> SUFFICES ASSUME Inv, [Next]_vars PROVE Inv'  OBVIOUS
<1>1. CASE UNCHANGED vars
  BY <1>1 DEF vars, disk, Inv, TypeOK, LocksHeld, DigestAgrees, BlobsExact, Inspected, Present,
              Visible, HasSize
<1>2. CASE PowerLoss  BY <1>2, PowerLossInv
<1>3. ASSUME NEW p \in Procs, Start(p) \/ Step(p) \/ Stop(p) PROVE Inv'
  BY <1>3, StartInv, InspectInv, LockInv, FindBlobInv, OpenInv, ReceiveInv, EndOfBodyInv, SyncInv,
     CheckInv, RenameInv, LinkInv, StopInv DEF Step
<1> QED  BY <1>1, <1>2, <1>3 DEF Next

(* Every reachable state satisfies the inductive invariant.                *)
LEMMA Invariance == Spec => []Inv
BY InitInv, NextInv, PTL DEF Spec

(* The cache and the calls are well typed, whatever fails.                 *)
THEOREM TypeCorrect == Spec => []TypeOK
<1>1. Inv => TypeOK  BY DEF Inv
<1> QED  BY <1>1, Invariance, PTL

(* For any number of callers, files, chunks and faults, what is installed  *)
(* at the required length is the required file, and a snapshot answered as *)
(* complete is whole.                                                      *)
THEOREM SnapshotsAreExact == Spec => []SnapshotIsExact
<1>1. Inv => SnapshotIsExact
  <2> SUFFICES ASSUME Inv PROVE SnapshotIsExact  OBVIOUS
  <2>1. ASSUME NEW f \in Files, Present(f) PROVE Visible(f) # Absent /\ Visible(f).data = Exact
    BY <2>1 DEF Inv, BlobsExact, Present, Visible
  <2> QED  BY <2>1 DEF Inv, BlobsExact, Inspected, SnapshotIsExact
<1> QED  BY <1>1, Invariance, PTL

(* No step but a loss of power, a publication or a rejection shortens a    *)
(* partial download.                                                       *)
THEOREM ResumableIsKept == Spec => KeepsGoodBytes
<1> DEFINE Keeps(f) ==
      Len(partial'[f].data) < Len(partial[f].data) =>
         \/ blob'[f] = partial[f]
         \/ \E k \in DOMAIN partial[f].data : k > Size \/ partial[f].data[k] # k
         \/ faults' > faults /\ \A p \in Procs : pc'[p] = "idle"
<1>1. ASSUME Inv, [Next]_vars, NEW f \in Files PROVE Keeps(f)
  <2>1. partial[f] \in Contents /\ partial[f].data \in Seq(Chunks) /\ Size \in Nat /\ faults \in Nat
    BY <1>1, ProvisionAssumption DEF Inv, TypeOK, Contents
  <2>2. CASE UNCHANGED partial  BY <2>1, <2>2
  <2>3. CASE PowerLoss  BY <2>1, <2>3 DEF PowerLoss, Fault
  <2>4. ASSUME NEW p \in Procs, Open(p), Len(partial[at[p]].data) > Size PROVE Keeps(f)
    <3>1. CASE f = at[p]
      <4>1. Len(partial[f].data) \in DOMAIN partial[f].data  BY <2>1, <2>4, <3>1
      <4> QED  BY <2>4, <3>1, <4>1
    <3>2. CASE f # at[p]  BY <1>1, <2>1, <2>4, <3>2 DEF Open, Inv, TypeOK
    <3> QED  BY <3>1, <3>2
  <2>5. ASSUME NEW p \in Procs, Receive(p) PROVE Keeps(f)
    <3>1. PICK chunk : Appended(p, chunk)  BY <2>5 DEF Receive
    <3>2. CASE f = at[p]
      <4>1. partial'[f].data = Append(partial[f].data, chunk)
        BY <1>1, <3>1, <3>2 DEF Appended, Cached, Inv, TypeOK
      <4> QED  BY <2>1, <4>1
    <3>3. CASE f # at[p]  BY <1>1, <2>1, <3>1, <3>3 DEF Appended, Inv, TypeOK
    <3> QED  BY <3>2, <3>3
  <2>6. ASSUME NEW p \in Procs, Sync(p) PROVE Keeps(f)
    BY <1>1, <2>1, <2>6 DEF Sync, Inv, TypeOK, Contents
  <2>7. ASSUME NEW p \in Procs, Check(p), HasSize(partial[at[p]]), digest[p] # Exact PROVE Keeps(f)
    <3>1. CASE f = at[p]
      <4>1. partial[f].data # Exact /\ Len(partial[f].data) = Size
        BY <1>1, <2>7, <3>1 DEF Check, Inv, DigestAgrees, Writing, HasSize
      <4>2. \E k \in 1 .. Size : partial[f].data[k] # k
        BY <2>1, <4>1 DEF Exact
      <4>3. DOMAIN partial[f].data = 1 .. Size  BY <2>1, <4>1
      <4> QED  BY <4>2, <4>3
    <3>2. CASE f # at[p]
      BY <1>1, <2>1, <2>7, <3>2 DEF Check, Rejected, Inv, TypeOK
    <3> QED  BY <3>1, <3>2
  <2>8. ASSUME NEW p \in Procs, Rename(p) PROVE Keeps(f)
    <3>1. CASE f = at[p]  BY <1>1, <2>8, <3>1 DEF Rename, Inv, TypeOK
    <3>2. CASE f # at[p]  BY <1>1, <2>1, <2>8, <3>2 DEF Rename, Inv, TypeOK
    <3> QED  BY <3>1, <3>2
  <2>9. ASSUME NEW p \in Procs, Step(p) PROVE Keeps(f)
    <3>1. CASE Open(p) /\ ~(Len(partial[at[p]].data) > Size)
      <4>1. partial' = partial  BY <1>1, <3>1 DEF Open, Resumable, Inv, TypeOK
      <4> QED  BY <2>2, <4>1
    <3>2. CASE Check(p) /\ ~(HasSize(partial[at[p]]) /\ digest[p] # Exact)
      <4>1. partial' = partial  BY <3>2 DEF Check, Rejected
      <4> QED  BY <2>2, <4>1
    <3>3. CASE Inspect(p) \/ Lock(p) \/ FindBlob(p) \/ EndOfBody(p) \/ Link(p)
      <4>1. partial' = partial  BY <3>3 DEF Inspect, Lock, FindBlob, EndOfBody, Link, disk
      <4> QED  BY <2>2, <4>1
    <3> QED  BY <2>4, <2>5, <2>6, <2>7, <2>8, <2>9, <3>1, <3>2, <3>3 DEF Step
  <2>10. ASSUME NEW p \in Procs, Start(p) \/ Stop(p) PROVE Keeps(f)
    <3>1. partial' = partial  BY <2>10 DEF Start, Stop, disk
    <3> QED  BY <2>2, <3>1
  <2>11. CASE UNCHANGED vars
    <3>1. partial' = partial  BY <2>11 DEF vars, disk
    <3> QED  BY <2>2, <3>1
  <2> QED  BY <1>1, <2>3, <2>9, <2>10, <2>11 DEF Next
<1>2. Inv /\ [Next]_vars => [\A f \in Files : Keeps(f)]_vars  BY <1>1
<1> QED  BY <1>2, Invariance, PTL DEF Spec, KeepsGoodBytes

-----------------------------------------------------------------------------
(* What is installed stays.                                                *)

(* No caller, whatever it does or whenever it stops, overwrites, shortens  *)
(* or deletes an installed file: at worst a loss of power undoes the       *)
(* rename, and the same bytes are again a partial download (download_file, *)
(* which renames only under the lock and over no blob it has seen).        *)
InstalledStays ==
    [][\A f \in Files : blob[f] # Absent =>
         \/ blob'[f] = blob[f]
         \/ blob'[f] = Absent /\ partial'[f] = blob[f] /\ faults' > faults]_vars

(* An installed file is never overwritten or lost.                         *)
THEOREM InstalledIsKept == Spec => InstalledStays
<1> DEFINE Stays(f) ==
      blob[f] # Absent =>
         \/ blob'[f] = blob[f]
         \/ blob'[f] = Absent /\ partial'[f] = blob[f] /\ faults' > faults
<1>1. ASSUME Inv, [Next]_vars, NEW f \in Files, blob[f] # Absent PROVE Stays(f)
  <2>1. blob[f] \in Contents /\ blob[f].synced /\ blob \in [Files -> Contents \cup {Absent}]
    BY <1>1 DEF Inv, TypeOK, BlobsExact
  <2>2. CASE blob' = blob  BY <2>2
  <2>3. CASE PowerLoss
    <3>1. PICK found : /\ found[f] \in Outcomes(f)
                       /\ blob'[f] = found[f].blob /\ partial'[f] = found[f].partial
      BY <2>3 DEF PowerLoss
    <3>2. faults' > faults  BY <1>1, <2>3 DEF PowerLoss, Fault, Inv, TypeOK
    <3>3. Survivors(blob[f]) = {blob[f]}  BY <2>1 DEF Survivors
    <3>4. \/ \E file \in Survivors(blob[f]) : found[f] = [blob |-> Absent, partial |-> file]
          \/ found[f] \in [blob : Survivors(blob[f]), partial : Survivors(partial[f])]
      BY <1>1, <3>1 DEF Outcomes
    <3>5. \/ found[f].blob = Absent /\ found[f].partial = blob[f]
          \/ found[f].blob = blob[f]
      BY <3>3, <3>4
    <3> QED  BY <3>1, <3>2, <3>5
  <2>4. ASSUME NEW p \in Procs, Rename(p) PROVE Stays(f)
    <3>1. at[p] # f
      BY <1>1, <2>4 DEF Rename, Inv, DigestAgrees, Writing
    <3>2. blob'[f] = blob[f]  BY <2>1, <2>4, <3>1 DEF Rename
    <3> QED  BY <3>2
  <2>5. ASSUME NEW p \in Procs, Start(p) \/ Stop(p) \/ Inspect(p) \/ Lock(p) \/ FindBlob(p)
        PROVE  blob' = blob
    BY <2>5 DEF Start, Stop, Inspect, Lock, FindBlob, disk
  <2>6. ASSUME NEW p \in Procs, Open(p) \/ Receive(p) \/ EndOfBody(p) \/ Sync(p) \/ Check(p) \/ Link(p)
        PROVE  blob' = blob
    BY <2>6 DEF Open, Receive, EndOfBody, Sync, Check, Link, disk
  <2>7. UNCHANGED vars => blob' = blob  BY DEF vars, disk
  <2> HIDE DEF Stays
  <2> QED  BY ONLY [Next]_vars, <2>2, <2>3, <2>4, <2>5, <2>6, <2>7 DEF Next, Step
<1>2. Inv /\ [Next]_vars => [\A f \in Files : Stays(f)]_vars  BY <1>1
<1> QED  BY <1>2, Invariance, PTL DEF Spec, InstalledStays
=============================================================================
