-------------------------- MODULE ParkResume_proofs -------------------------
(***************************************************************************)
(* Proofs about ParkResume, for any slots, pages and number of faults: its *)
(* type invariant, and that a loaded generator with all its memory holds   *)
(* what one that never parked would.                                       *)
(***************************************************************************)
EXTENDS ParkResume, TLAPS

LEMMA StampsAreNotGarbage == Garbage \notin Stamps
  BY ParkAssumption DEF Stamps

(* Which arena a step is at.                                               *)
LEMMA OrdersAreArenas ==
  /\ \A i \in 1 .. 4 : ReleaseOrder[i][1] \in Models /\ ReleaseOrder[i][2] \in Kinds
  /\ \A i \in 1 .. 4 : RemapOrder[i][1] \in Models /\ RemapOrder[i][2] \in Kinds
  /\ ReloadOrder[1] = "target" /\ ReloadOrder[2] = "mtp"
  BY DEF ReleaseOrder, RemapOrder, ReloadOrder, Models, Kinds

LEMMA NoMirrorIsTyped ==
  /\ Zeros.rows \in [Slots -> Values] /\ Zeros.cache \in [Models -> [Pages -> Values]]
  /\ NoRoutes \in Tables /\ NoMirror \in Mirrors
  <1>1. Zeros.rows \in [Slots -> Values] /\ Zeros.cache \in [Models -> [Pages -> Values]]
    BY DEF Zeros, Values, Everywhere
  <1>2. Zeros \in Stored /\ NoRoutes \in Tables
    BY <1>1 DEF Zeros, Stored, NoRoutes, Tables
  <1> QED
    BY <1>1, <1>2 DEF NoMirror, Mirrors

LEMMA TypeInitially == Init => TypeOK
  <1> SUFFICES ASSUME Init PROVE TypeOK
    OBVIOUS
  <1> USE ParkAssumption DEF Init
  <1>5. tables \in [Models -> [Slots -> {Zero, Garbage} \cup SUBSET Pages]]
    BY DEF NoRoutes, Everywhere
  <1>6. truth \in [rows : [Slots -> Stamps], pages : [Pages -> Stamps]] /\ clock \in Stamps
    BY DEF Stamps
  <1>7. mapped \in [Models -> [Kinds -> BOOLEAN]] /\ weights \in [Models -> {Source, Garbage}]
    BY DEF Everywhere
  <1>8. route \in Tables /\ mirror \in Mirrors
    BY NoMirrorIsTyped
  <1>9. rows \in [Slots -> Values] /\ cache \in [Models -> [Pages -> Values]]
    BY NoMirrorIsTyped
  <1>10. /\ active \subseteq Slots /\ retained \subseteq Slots \ active
         /\ pc = "loaded" /\ mirror = NoMirror /\ next \in 1 .. 4 /\ faults \in 0 .. MaxFaults
    OBVIOUS
  <1> HIDE DEF Init
  <1> QED
    BY <1>5, <1>6, <1>7, <1>8, <1>9, <1>10 DEF TypeOK

-----------------------------------------------------------------------------
(* A park or resume moves on; the mirror is there until it is loaded.      *)
LEMMA TypeOfServing ==
  ASSUME TypeOK, NEW s \in Slots,
         \/ \E keep, fresh \in SUBSET Pages : Admit(s, keep, fresh)
         \/ \E kept \in SUBSET Pages : Retain(s, kept)
         \/ Evict(s)
  PROVE  TypeOK'
  <1>1. ASSUME NEW keep \in SUBSET Pages, NEW fresh \in SUBSET Pages, Admit(s, keep, fresh)
        PROVE  TypeOK'
    <2> USE <1>1 DEF Admit
    <2> DEFINE wrote(old, where) == [x \in DOMAIN old |-> IF x \in where THEN clock + 1 ELSE old[x]]
    <2>1. clock' \in Stamps /\ clock + 1 \in Stamps
      BY ParkAssumption DEF TypeOK, Stamps
    <2>2. active' \subseteq Slots /\ retained' \subseteq Slots \ active'
      BY DEF TypeOK
    <2>3. route' \in Tables
      BY DEF TypeOK, Tables
    <2>4. rows' = wrote(rows, {s}) /\ cache' = [m \in Models |-> wrote(cache[m], fresh)]
          /\ truth' = [rows |-> wrote(truth.rows, {s}), pages |-> wrote(truth.pages, fresh)]
      OBVIOUS
    <2>5. rows' \in [Slots -> Values]
      BY <2>1, <2>4 DEF TypeOK, Values
    <2>6. cache' \in [Models -> [Pages -> Values]]
      BY <2>1, <2>4 DEF TypeOK, Values
    <2>7. truth' \in [rows : [Slots -> Stamps], pages : [Pages -> Stamps]]
      <3>1. truth.rows \in [Slots -> Stamps] /\ truth.pages \in [Pages -> Stamps]
        BY DEF TypeOK
      <3>2. wrote(truth.rows, {s}) \in [Slots -> Stamps]
        BY <2>1, <3>1
      <3>3. wrote(truth.pages, fresh) \in [Pages -> Stamps]
        BY <2>1, <3>1
      <3> QED
        BY <2>4, <3>2, <3>3
    <2>8. tables' \in [Models -> [Slots -> {Zero, Garbage} \cup SUBSET Pages]]
      BY DEF TypeOK
    <2>9. /\ pc' = "loaded" /\ mirror' = NoMirror /\ mirror' \in Mirrors /\ next' \in 1 .. 4
          /\ faults' \in 0 .. MaxFaults /\ UNCHANGED <<mapped, weights>>
      BY DEF TypeOK
    <2> HIDE <1>1 DEF Admit
    <2> QED
      BY <2>1, <2>2, <2>3, <2>5, <2>6, <2>7, <2>8, <2>9 DEF TypeOK
  <1>2. ASSUME NEW kept \in SUBSET Pages, Retain(s, kept)
        PROVE  TypeOK'
    <2>1. route' \in Tables
      BY <1>2 DEF Retain, TypeOK, Tables
    <2>2. tables' \in [Models -> [Slots -> {Zero, Garbage} \cup SUBSET Pages]]
      BY <1>2 DEF Retain, TypeOK
    <2>3. active' \subseteq Slots /\ retained' \subseteq Slots \ active'
      BY <1>2 DEF Retain, TypeOK
    <2> QED
      BY <1>2, <2>1, <2>2, <2>3 DEF Retain, TypeOK
  <1>3. CASE Evict(s)
    <2>1. route' \in Tables
      BY <1>3 DEF Evict, TypeOK, Tables
    <2>2. tables' \in [Models -> [Slots -> {Zero, Garbage} \cup SUBSET Pages]]
      BY <1>3 DEF Evict, TypeOK
    <2>3. retained' \subseteq Slots \ active'
      BY <1>3 DEF Evict, TypeOK
    <2> QED
      BY <1>3, <2>1, <2>2, <2>3 DEF Evict, TypeOK
  <1> QED
    BY <1>1, <1>2, <1>3

LEMMA TypeOfPark ==
  ASSUME TypeOK, Park
  PROVE  TypeOK'
  <1> DEFINE copied == [rows  |-> [s \in Slots |-> IF s \in retained THEN rows[s] ELSE Zero],
                        cache |-> [m \in Models |-> [p \in Pages |->
                                     IF p \in OwnedPages THEN cache[m][p] ELSE Zero]]]
  <1>1. copied.rows \in [Slots -> Values] /\ copied.cache \in [Models -> [Pages -> Values]]
    BY DEF TypeOK, Values
  <1>2. copied \in Stored
    BY <1>1 DEF Stored
  <1>3. tables["mtp"] \in Tables
    BY DEF Park, TypeOK
  <1>4. OwnedPages \subseteq Pages /\ retained \subseteq Slots
    BY DEF TypeOK, OwnedPages, Tables
  <1>5. Mirrored \in Mirrors
    BY <1>1, <1>2, <1>3, <1>4 DEF Mirrored, Mirrors
  <1>6. mirror' \in Mirrors /\ mirror'.slots = retained /\ mirror'.pages = OwnedPages
    BY <1>5 DEF Park, Mirrored
  <1> QED
    BY <1>6 DEF Park, TypeOK, Goes, host, device, OwnedPages

LEMMA TypeOfRelease ==
  ASSUME TypeOK, Release
  PROVE  TypeOK'
  <1> DEFINE m == ReleaseOrder[next][1]
             k == ReleaseOrder[next][2]
  <1>1. m \in Models /\ k \in Kinds /\ Unmap(m, k)
    BY OrdersAreArenas DEF Release, TypeOK
  <1> HIDE DEF m, k
  <1>2. mapped' \in [Models -> [Kinds -> BOOLEAN]] /\ weights' \in [Models -> {Source, Garbage}]
    BY <1>1 DEF Unmap, TypeOK
  <1>3. rows' \in [Slots -> Values] /\ cache' \in [Models -> [Pages -> Values]]
    BY <1>1 DEF Unmap, TypeOK, Values
  <1>4. tables' \in [Models -> [Slots -> {Zero, Garbage} \cup SUBSET Pages]]
    BY <1>1 DEF Unmap, TypeOK
  <1>5. /\ next' \in 1 .. 4 /\ pc' \in {"parking", "undoing", "parked"}
    BY DEF Release, Then, Goes, TypeOK
  <1> QED
    BY <1>2, <1>3, <1>4, <1>5 DEF Release, TypeOK, host, OwnedPages

LEMMA TypeOfFailures ==
  ASSUME TypeOK, ReleaseFails \/ ResumeFails \/ Alter
  PROVE  TypeOK'
  <1>1. CASE ReleaseFails
    BY <1>1, NoMirrorIsTyped, ParkAssumption
    DEF ReleaseFails, Fault, Goes, TypeOK, host, device, OwnedPages
  <1>2. CASE ResumeFails
    BY <1>2, ParkAssumption DEF ResumeFails, Fault, Goes, TypeOK, host, device, OwnedPages
  <1>3. CASE Alter
    <2>1. mirror' \in Mirrors /\ mirror'.slots = mirror.slots /\ mirror'.pages = mirror.pages
      <3>1. ASSUME NEW s \in mirror.slots,
                   mirror' = [mirror EXCEPT !.rows[s] = Garbage]
            PROVE  mirror' \in Mirrors /\ mirror'.slots = mirror.slots /\ mirror'.pages = mirror.pages
        BY <3>1 DEF TypeOK, Mirrors, Values
      <3>2. ASSUME NEW m \in Models, NEW p \in mirror.pages,
                   mirror' = [mirror EXCEPT !.cache[m][p] = Garbage]
            PROVE  mirror' \in Mirrors /\ mirror'.slots = mirror.slots /\ mirror'.pages = mirror.pages
        <4>1. [mirror.cache EXCEPT ![m][p] = Garbage] \in [Models -> [Pages -> Values]]
          BY DEF TypeOK, Mirrors, Values
        <4> QED
          BY <3>2, <4>1 DEF TypeOK, Mirrors
      <3> QED
        BY <1>3, <3>1, <3>2 DEF Alter
    <2> QED
      BY <1>3, <2>1, ParkAssumption DEF Alter, Fault, TypeOK, host, device, OwnedPages
  <1> QED
    BY <1>1, <1>2, <1>3

LEMMA TypeOfResume ==
  ASSUME TypeOK, Resume \/ Remap \/ Reload \/ RestoreTables \/ RestoreRows \/ RestorePages
  PROVE  TypeOK'
  <1>1. CASE Resume
    BY <1>1 DEF Resume, Goes, TypeOK, host, device, OwnedPages
  <1>2. CASE Remap
    <2>1. mapped' \in [Models -> [Kinds -> BOOLEAN]]
      BY <1>2, OrdersAreArenas DEF Remap, TypeOK
    <2>2. next' \in 1 .. 4 /\ pc' \in {"remapping", "reloading"} /\ (pc' = "reloading" => next' = 1)
      BY <1>2 DEF Remap, Then, Goes, TypeOK
    <2> QED
      BY <1>2, <2>1, <2>2 DEF Remap, TypeOK, host, OwnedPages
  <1>3. CASE Reload
    <2> DEFINE m == ReloadOrder[next]
    <2>1. m \in Models
      BY <1>3, OrdersAreArenas DEF Reload, TypeOK, Models
    <2> HIDE DEF m
    <2>2. Zeros.rows \in [Slots -> Values] /\ \A x \in Models : Zeros.cache[x] \in [Pages -> Values]
      BY DEF Zeros, Values, Everywhere
    <2>3. /\ rows' \in [Slots -> Values] /\ cache' \in [Models -> [Pages -> Values]]
          /\ weights' \in [Models -> {Source, Garbage}]
      BY <1>3, <2>1, <2>2 DEF Reload, TypeOK, m
    <2>4. tables' \in [Models -> [Slots -> {Zero, Garbage} \cup SUBSET Pages]]
      BY <1>3, <2>1 DEF Reload, TypeOK, m
    <2>5. next' \in 1 .. 2 /\ pc' \in {"reloading", "tables"}
      BY <1>3 DEF Reload, Then, Goes, TypeOK
    <2> QED
      BY <1>3, <2>3, <2>4, <2>5 DEF Reload, TypeOK, host, OwnedPages
  <1>4. CASE RestoreTables
    <2>1. tables' \in [Models -> [Slots -> {Zero, Garbage} \cup SUBSET Pages]]
      BY <1>4 DEF RestoreTables, TypeOK, Models, Tables
    <2>2. next' \in 1 .. 2 /\ pc' \in {"tables", "rows"}
      BY <1>4 DEF RestoreTables, Then, Goes, TypeOK
    <2> QED
      BY <1>4, <2>1, <2>2 DEF RestoreTables, TypeOK, host, OwnedPages
  <1>5. CASE RestoreRows
    BY <1>5 DEF RestoreRows, Goes, TypeOK, Mirrors, host, OwnedPages
  <1>6. CASE RestorePages
    <2>1. cache' \in [Models -> [Pages -> Values]]
      BY <1>6 DEF RestorePages, TypeOK, Mirrors
    <2> QED
      BY <1>6, <2>1 DEF RestorePages, Goes, TypeOK, host, OwnedPages
  <1> QED
    BY <1>1, <1>2, <1>3, <1>4, <1>5, <1>6

LEMMA TypeOfVerify ==
  ASSUME TypeOK, Verify
  PROVE  TypeOK'
  <1>1. CASE mirror' = NoMirror /\ Goes("loaded")
    BY <1>1, NoMirrorIsTyped DEF Verify, Goes, TypeOK, host, device
  <1>2. CASE UNCHANGED mirror /\ Goes("undoing")
    BY <1>2 DEF Verify, Goes, TypeOK, host, device, OwnedPages
  <1> QED
    BY <1>1, <1>2 DEF Verify

LEMMA TypeStep == TypeOK /\ [Next]_vars => TypeOK'
  <1> SUFFICES ASSUME TypeOK, [Next]_vars PROVE TypeOK'
    OBVIOUS
  <1>1. CASE Next
    BY <1>1, TypeOfServing, TypeOfPark, TypeOfRelease, TypeOfFailures, TypeOfResume, TypeOfVerify
    DEF Next, Proceeds
  <1>2. CASE UNCHANGED vars
    BY <1>2 DEF vars, host, device, TypeOK, OwnedPages
  <1> QED
    BY <1>1, <1>2

(* Values have their types, and a mirror exists exactly while the          *)
(* generator is not loaded (park and resume).                              *)
THEOREM TypeCorrect == Spec => []TypeOK
  BY TypeInitially, TypeStep, PTL DEF Spec

-----------------------------------------------------------------------------
(* What is right on the device, part by part.                              *)
RowsExact == \A s \in retained \cup active : rows[s] = truth.rows[s]
RowsDefined == \A s \in Slots : rows[s] # Garbage
CacheExact == \A m \in Models, p \in OwnedPages : cache[m][p] = truth.pages[p]
CacheDefined == \A m \in Models, p \in Pages : cache[m][p] # Garbage
WeightsLoaded == \A m \in Models : weights[m] = Source
TablesExact == \A m \in Models : tables[m] = route

(* While the generator is not loaded, the checksums are those of the       *)
(* truth, so that an intact mirror holds it.                               *)
SumsAreTrue ==
  pc # "loaded" =>
    /\ \A s \in retained : mirror.sum.rows[s] = truth.rows[s]
    /\ \A m \in Models, p \in OwnedPages : mirror.sum.cache[m][p] = truth.pages[p]

(* How far the device is restored at each step of a resume.                *)
Restored ==
  /\ pc = "reloading" /\ next = 2 =>
       /\ weights["target"] = Source /\ RowsDefined
       /\ \A p \in Pages : cache["target"][p] # Garbage
  /\ pc \in {"tables", "rows"} => RowsDefined
  /\ pc \in {"tables", "rows", "pages"} => CacheDefined
  /\ pc \in {"tables", "rows", "pages", "verifying"} => WeightsLoaded
  /\ pc \in {"pages", "verifying"} /\ Intact => RowsExact /\ RowsDefined
  /\ pc = "verifying" /\ Intact => CacheExact /\ CacheDefined

(* A loaded generator, and one whose park has released nothing yet.        *)
Whole ==
  pc \in {"loaded", "parking"} /\ AllMapped =>
    WeightsLoaded /\ TablesExact /\ RowsExact /\ RowsDefined /\ CacheExact /\ CacheDefined

IInv == TypeOK /\ SumsAreTrue /\ Restored /\ Whole

LEMMA TruthIsDefined ==
  ASSUME TypeOK
  PROVE  /\ \A s \in Slots : truth.rows[s] # Garbage
         /\ \A p \in Pages : truth.pages[p] # Garbage
  BY StampsAreNotGarbage DEF TypeOK

LEMMA OwnedPagesArePages == TypeOK => OwnedPages \subseteq Pages
  BY DEF TypeOK, OwnedPages, Tables

LEMMA Initially == Init => IInv
  <1> SUFFICES ASSUME Init PROVE SumsAreTrue /\ Restored /\ Whole
    BY TypeInitially DEF IInv
  <1>1. RowsDefined /\ CacheDefined
    BY ParkAssumption DEF Init, Zeros, Everywhere, RowsDefined, CacheDefined
  <1>2. WeightsLoaded /\ TablesExact
    BY DEF Init, Everywhere, NoRoutes, WeightsLoaded, TablesExact
  <1>3. RowsExact /\ CacheExact
    BY DEF Init, RowsExact, CacheExact, OwnedPages
  <1> QED
    BY <1>1, <1>2, <1>3 DEF Init, SumsAreTrue, Restored, Whole

LEMMA ServingIsExact ==
  ASSUME IInv, NEW s \in Slots,
         \/ \E keep, fresh \in SUBSET Pages : Admit(s, keep, fresh)
         \/ \E kept \in SUBSET Pages : Retain(s, kept)
         \/ Evict(s)
  PROVE  Whole'
  <1> USE DEF IInv
  <1>0. WeightsLoaded /\ TablesExact /\ RowsExact /\ RowsDefined /\ CacheExact /\ CacheDefined
    BY DEF Admit, Retain, Evict, Whole
  <1>1. ASSUME NEW keep \in SUBSET Pages, NEW fresh \in SUBSET Pages, Admit(s, keep, fresh)
        PROVE  Whole'
    <2> DEFINE wrote(old, where) == [x \in DOMAIN old |-> IF x \in where THEN clock + 1 ELSE old[x]]
    <2>1. rows' = wrote(rows, {s}) /\ cache' = [m \in Models |-> wrote(cache[m], fresh)]
          /\ truth' = [rows |-> wrote(truth.rows, {s}), pages |-> wrote(truth.pages, fresh)]
      BY <1>1 DEF Admit
    <2>2. clock + 1 # Garbage
      BY ParkAssumption DEF TypeOK, Stamps
    <2>3. /\ DOMAIN rows = Slots /\ DOMAIN truth.rows = Slots /\ DOMAIN truth.pages = Pages
          /\ \A m \in Models : DOMAIN cache[m] = Pages
      BY DEF TypeOK
    <2>4. RowsExact' /\ RowsDefined'
      BY <1>0, <1>1, <2>1, <2>2, <2>3 DEF Admit, RowsExact, RowsDefined, TypeOK
    <2>5. OwnedPages' \subseteq OwnedPages \cup fresh
      BY <1>1 DEF Admit, OwnedPages, TypeOK, Tables
    <2>6. CacheExact' /\ CacheDefined'
      BY <1>0, <2>1, <2>2, <2>3, <2>5, OwnedPagesArePages DEF CacheExact, CacheDefined
    <2>7. WeightsLoaded' /\ TablesExact'
      BY <1>0, <1>1 DEF Admit, WeightsLoaded, TablesExact
    <2> QED
      BY <2>4, <2>6, <2>7 DEF Whole
  <1>2. ASSUME NEW kept \in SUBSET Pages, Retain(s, kept)
        PROVE  Whole'
    <2>1. OwnedPages' \subseteq OwnedPages
      BY <1>2 DEF Retain, OwnedPages, TypeOK, Tables
    <2> QED
      BY <1>0, <1>2, <2>1 DEF Retain, Whole, WeightsLoaded, TablesExact, RowsExact, RowsDefined,
                              CacheExact, CacheDefined
  <1>3. CASE Evict(s)
    <2>1. OwnedPages' \subseteq OwnedPages
      BY <1>3 DEF Evict, OwnedPages, TypeOK, Tables
    <2> QED
      BY <1>0, <1>3, <2>1 DEF Evict, Whole, WeightsLoaded, TablesExact, RowsExact, RowsDefined,
                              CacheExact, CacheDefined
  <1> QED
    BY <1>1, <1>2, <1>3

LEMMA ParkIsExact ==
  ASSUME IInv, Park
  PROVE  SumsAreTrue' /\ Restored' /\ Whole'
  <1> USE DEF IInv
  <1>1. RowsExact /\ CacheExact
    BY DEF Park, Whole
  <1>2. retained \subseteq Slots /\ OwnedPages \subseteq Pages
    BY OwnedPagesArePages DEF TypeOK
  <1>3. /\ \A s \in retained : Mirrored.sum.rows[s] = truth.rows[s]
        /\ \A m \in Models, p \in OwnedPages : Mirrored.sum.cache[m][p] = truth.pages[p]
    BY <1>1, <1>2 DEF Mirrored, RowsExact, CacheExact
  <1>4. SumsAreTrue'
    BY <1>3 DEF Park, SumsAreTrue, Goes, host, OwnedPages
  <1>5. Whole'
    BY DEF Park, Whole, Goes, host, device, OwnedPages, AllMapped, WeightsLoaded, TablesExact,
           RowsExact, RowsDefined, CacheExact, CacheDefined
  <1>6. Restored'
    BY DEF Park, Restored, Goes
  <1> QED
    BY <1>4, <1>5, <1>6

LEMMA ReleaseIsExact ==
  ASSUME IInv, Release
  PROVE  SumsAreTrue' /\ Restored' /\ Whole'
  <1> USE DEF IInv
  <1>1. pc' \in {"parking", "undoing", "parked"} /\ pc # "loaded"
    BY DEF Release, Then, Goes
  <1>2. ~AllMapped'
    BY OrdersAreArenas DEF Release, Unmap, AllMapped, TypeOK
  <1>3. SumsAreTrue'
    BY <1>1 DEF Release, SumsAreTrue, host, OwnedPages
  <1> QED
    BY <1>1, <1>2, <1>3 DEF Restored, Whole

LEMMA FailuresAreExact ==
  ASSUME IInv, ReleaseFails \/ ResumeFails
  PROVE  SumsAreTrue' /\ Restored' /\ Whole'
  <1> USE DEF IInv
  <1>1. /\ UNCHANGED <<host, device>>
        /\ \/ pc = "parking" /\ pc' = "loaded"
           \/ pc # "loaded" /\ pc' \in {"parked", "undoing"} /\ UNCHANGED mirror
    BY DEF ReleaseFails, ResumeFails, Goes
  <1>2. SumsAreTrue'
    BY <1>1 DEF SumsAreTrue, host, OwnedPages
  <1>3. Whole'
    BY <1>1 DEF Whole, host, device, OwnedPages, AllMapped, WeightsLoaded, TablesExact,
                RowsExact, RowsDefined, CacheExact, CacheDefined
  <1>4. Restored'
    BY <1>1 DEF Restored
  <1> QED
    BY <1>2, <1>3, <1>4

(* What was altered no longer has the checksum of the truth.               *)
LEMMA AlteredIsNotIntact ==
  ASSUME IInv, Alter
  PROVE  ~Intact' /\ mirror'.sum = mirror.sum
  <1> USE DEF IInv
  <1>1. retained \subseteq Slots /\ mirror.slots = retained /\ mirror.pages = OwnedPages
    BY DEF Alter, TypeOK
  <1>2. ASSUME NEW s \in mirror.slots, mirror' = [mirror EXCEPT !.rows[s] = Garbage]
        PROVE  ~Intact' /\ mirror'.sum = mirror.sum
    <2>1. mirror'.rows[s] = Garbage /\ mirror'.sum = mirror.sum
      BY <1>1, <1>2 DEF TypeOK, Mirrors
    <2>2. mirror.sum.rows[s] # Garbage
      BY <1>1, TruthIsDefined DEF SumsAreTrue, Alter
    <2> QED
      BY <2>1, <2>2 DEF Intact, Contents
  <1>3. ASSUME NEW m \in Models, NEW p \in mirror.pages,
               mirror' = [mirror EXCEPT !.cache[m][p] = Garbage]
        PROVE  ~Intact' /\ mirror'.sum = mirror.sum
    <2>1. mirror'.cache[m][p] = Garbage /\ mirror'.sum = mirror.sum
      BY <1>3 DEF TypeOK, Mirrors
    <2>2. mirror.sum.cache[m][p] # Garbage
      BY <1>1, TruthIsDefined, OwnedPagesArePages DEF SumsAreTrue, Alter
    <2> QED
      BY <2>1, <2>2 DEF Intact, Contents
  <1> QED
    BY <1>2, <1>3 DEF Alter

LEMMA AlterIsExact ==
  ASSUME IInv, Alter
  PROVE  SumsAreTrue' /\ Restored' /\ Whole'
  <1> USE DEF IInv
  <1>1. UNCHANGED <<host, device, pc, next>>
    BY DEF Alter
  <1>2. SumsAreTrue'
    BY <1>1, AlteredIsNotIntact DEF SumsAreTrue, host, OwnedPages
  <1>3. Whole'
    BY <1>1 DEF Whole, host, device, OwnedPages, AllMapped, WeightsLoaded, TablesExact,
                RowsExact, RowsDefined, CacheExact, CacheDefined
  <1>4. Restored'
    BY <1>1, AlteredIsNotIntact DEF Restored, device, RowsDefined, CacheDefined, WeightsLoaded
  <1> QED
    BY <1>2, <1>3, <1>4

LEMMA ResumeIsExact ==
  ASSUME IInv, Resume \/ Remap
  PROVE  SumsAreTrue' /\ Restored' /\ Whole'
  <1> USE DEF IInv
  <1>1. /\ pc # "loaded" /\ pc' \in {"remapping", "undoing", "reloading"}
        /\ (pc' = "reloading" => next' = 1) /\ UNCHANGED <<host, mirror>>
    BY DEF Resume, Remap, Then, Goes
  <1>2. SumsAreTrue'
    BY <1>1 DEF SumsAreTrue, host, OwnedPages
  <1> QED
    BY <1>1, <1>2 DEF Restored, Whole

LEMMA ReloadIsExact ==
  ASSUME IInv, Reload
  PROVE  SumsAreTrue' /\ Restored' /\ Whole'
  <1> USE DEF IInv
  <1>1. SumsAreTrue'
    BY DEF Reload, Then, Goes, SumsAreTrue, host, OwnedPages
  <1>2. Zero # Garbage /\ \A s \in Slots : Zeros.rows[s] = Zero
    BY ParkAssumption DEF Zeros
  <1>3. \A m \in Models, p \in Pages : Zeros.cache[m][p] = Zero
    BY DEF Zeros, Everywhere
  <1>4. CASE next = 1
    <2>1. pc' = "reloading" /\ next' = 2
      BY <1>4 DEF Reload, Then
    <2>2. weights'["target"] = Source /\ rows' = Zeros.rows /\ cache'["target"] = Zeros.cache["target"]
      BY <1>4, OrdersAreArenas DEF Reload, TypeOK, Models
    <2> QED
      BY <1>1, <1>2, <1>3, <2>1, <2>2 DEF Restored, Whole, RowsDefined, Models
  <1>5. CASE next = 2
    <2>1. pc' = "tables"
      BY <1>5 DEF Reload, Then, Goes
    <2>2. /\ weights' = [weights EXCEPT !["mtp"] = Source] /\ rows' = rows
          /\ cache' = [cache EXCEPT !["mtp"] = Zeros.cache["mtp"]]
      BY <1>5, OrdersAreArenas DEF Reload
    <2>3. /\ weights["target"] = Source /\ RowsDefined
          /\ \A p \in Pages : cache["target"][p] # Garbage
      BY <1>5 DEF Restored, Reload
    <2>4. WeightsLoaded' /\ RowsDefined' /\ CacheDefined'
      BY <1>2, <1>3, <2>2, <2>3 DEF WeightsLoaded, RowsDefined, CacheDefined, Models, TypeOK
    <2> QED
      BY <1>1, <2>1, <2>4 DEF Restored, Whole
  <1> QED
    BY <1>4, <1>5 DEF Reload, TypeOK

LEMMA RestoreIsExact ==
  ASSUME IInv, RestoreTables \/ RestoreRows \/ RestorePages
  PROVE  SumsAreTrue' /\ Restored' /\ Whole'
  <1> USE DEF IInv
  <1>1. /\ pc # "loaded" /\ UNCHANGED <<host, mapped, weights, mirror>>
        /\ active = {} /\ mirror.slots = retained /\ mirror.pages = OwnedPages
        /\ retained \subseteq Slots
    BY DEF RestoreTables, RestoreRows, RestorePages, TypeOK
  <1>2. SumsAreTrue'
    BY <1>1 DEF RestoreTables, RestoreRows, RestorePages, Then, Goes, SumsAreTrue, host, OwnedPages
  <1>3. CASE RestoreTables
    BY <1>1, <1>2, <1>3 DEF RestoreTables, Then, Goes, Restored, Whole, RowsDefined, CacheDefined,
                            WeightsLoaded
  <1>4. CASE RestoreRows
    <2>1. pc' = "pages" /\ WeightsLoaded' /\ CacheDefined'
      BY <1>1, <1>4 DEF RestoreRows, Goes, Restored, WeightsLoaded, CacheDefined
    <2>2. Intact => RowsExact' /\ RowsDefined'
      <3> SUFFICES ASSUME Intact PROVE RowsExact' /\ RowsDefined'
        OBVIOUS
      <3>1. \A s \in retained : mirror.rows[s] = truth.rows[s]
        BY <1>1 DEF Intact, Contents, SumsAreTrue
      <3>2. RowsDefined
        BY <1>4 DEF RestoreRows, Restored
      <3> QED
        BY <1>1, <1>4, <3>1, <3>2, TruthIsDefined DEF RestoreRows, RowsExact, RowsDefined, host
    <2> QED
      BY <1>1, <1>2, <2>1, <2>2 DEF Restored, Whole, Intact
  <1>5. CASE RestorePages
    <2>1. pc' = "verifying" /\ WeightsLoaded'
      BY <1>1, <1>5 DEF RestorePages, Goes, Restored, WeightsLoaded
    <2>2. Intact => RowsExact' /\ RowsDefined'
      BY <1>1, <1>5 DEF RestorePages, Restored, RowsExact, RowsDefined, host
    <2>3. Intact => CacheExact' /\ CacheDefined'
      <3> SUFFICES ASSUME Intact PROVE CacheExact' /\ CacheDefined'
        OBVIOUS
      <3>1. \A m \in Models, p \in OwnedPages : mirror.cache[m][p] = truth.pages[p]
        BY <1>1 DEF Intact, Contents, SumsAreTrue
      <3>2. CacheDefined
        BY <1>5 DEF RestorePages, Restored
      <3>3. OwnedPages' = OwnedPages /\ truth' = truth
        BY <1>1 DEF host, OwnedPages
      <3> QED
        BY <1>1, <1>5, <3>1, <3>2, <3>3, TruthIsDefined, OwnedPagesArePages
        DEF RestorePages, CacheExact, CacheDefined
    <2> QED
      BY <1>1, <1>2, <2>1, <2>2, <2>3 DEF Restored, Whole, Intact
  <1> QED
    BY <1>3, <1>4, <1>5

LEMMA VerifyIsExact ==
  ASSUME IInv, Verify
  PROVE  SumsAreTrue' /\ Restored' /\ Whole'
  <1> USE DEF IInv
  <1>1. CASE pc' = "loaded"
    <2>1. Intact /\ TablesExact
      BY <1>1 DEF Verify, Goes, TablesExact, Models
    <2>2. WeightsLoaded /\ RowsExact /\ RowsDefined /\ CacheExact /\ CacheDefined
      BY <2>1 DEF Verify, Restored
    <2>3. Whole'
      BY <2>1, <2>2 DEF Verify, Whole, host, device, OwnedPages, WeightsLoaded, TablesExact,
                        RowsExact, RowsDefined, CacheExact, CacheDefined
    <2> QED
      BY <1>1, <2>3 DEF SumsAreTrue, Restored
  <1>2. CASE pc' = "undoing" /\ UNCHANGED mirror
    BY <1>2 DEF Verify, SumsAreTrue, Restored, Whole, host, OwnedPages
  <1> QED
    BY <1>1, <1>2 DEF Verify, Goes

LEMMA ExactStep == IInv /\ [Next]_vars => IInv'
  <1> SUFFICES ASSUME IInv, [Next]_vars PROVE SumsAreTrue' /\ Restored' /\ Whole'
    BY TypeStep DEF IInv
  <1>1. ASSUME NEW s \in Slots,
               \/ \E keep, fresh \in SUBSET Pages : Admit(s, keep, fresh)
         \/ \E kept \in SUBSET Pages : Retain(s, kept)
         \/ Evict(s)
        PROVE  SumsAreTrue' /\ Restored' /\ Whole'
    <2>1. pc' = "loaded"
      BY <1>1 DEF Admit, Retain, Evict
    <2> QED
      BY <1>1, <2>1, ServingIsExact DEF SumsAreTrue, Restored
  <1>2. CASE UNCHANGED vars
    BY <1>2 DEF IInv, vars, host, device, SumsAreTrue, Restored, Whole, Intact, Contents, OwnedPages,
                AllMapped, WeightsLoaded, TablesExact, RowsExact, RowsDefined, CacheExact, CacheDefined
  <1> QED
    BY <1>1, <1>2, ParkIsExact, ReleaseIsExact, FailuresAreExact, AlterIsExact, ResumeIsExact,
       ReloadIsExact, RestoreIsExact, VerifyIsExact DEF Next, Proceeds

(* After any parks and resumes, failed ones included, a loaded generator   *)
(* with all its memory holds what one that never parked would              *)
(* (restore_park_mirror and the rollback of resume).                       *)
THEOREM LoadedStaysExact == Spec => []LoadedIsExact
  <1>1. IInv => LoadedIsExact
    BY DEF IInv, Whole, LoadedIsExact, WeightsLoaded, TablesExact, RowsExact, RowsDefined,
           CacheExact, CacheDefined
  <1> QED
    BY <1>1, Initially, ExactStep, PTL DEF Spec
=============================================================================
