----------------------------- MODULE ParkResume -----------------------------
(***************************************************************************)
(* Parking and resuming the resident Qwen3.8 generator                     *)
(* (crates/tuisko-engine/src/qwen38/resident_mtp_batch_generation.rs).     *)
(* Park mirrors every retained row on the host, then releases the physical *)
(* backing of four device arenas, one after the other. Resume maps them    *)
(* again, reloads the weights, rebuilds the block tables and restores the  *)
(* mirror; when a step fails it releases what is mapped and stays parked.  *)
(*                                                                         *)
(* The target and the MTP model each have a main and a KV arena. Contents  *)
(* are stamps: a request writes the number of its admission into the row   *)
(* and the pages it is given. "truth" is what a generator that never parks *)
(* would hold. The order of a row's pages and the compaction of mirrored   *)
(* rows are abstracted; so are the token counts, which always agree here   *)
(* (MtpScheduler). Faults, MaxFaults of them at most: a driver call fails, *)
(* or a mirrored value changes in host memory.                             *)
(***************************************************************************)
EXTENDS Integers, Sequences

CONSTANTS
    Slots,          \* rows of the generator
    Pages,          \* physical KV pages
    MaxAdmissions,  \* requests admitted (bound)
    MaxFaults,      \* faults (bound)
    Source,         \* weights as the admitted snapshot has them
    Zero,           \* zeroed memory
    Garbage         \* memory without backing, or never written since

Models == {"target", "mtp"}
Kinds == {"main", "kv"}

ASSUME ParkAssumption ==
    /\ MaxAdmissions \in Nat /\ MaxFaults \in Nat
    /\ Garbage \notin Nat /\ Source # Garbage /\ Zero # Garbage

VARIABLES
    active,   \* slots of running requests
    retained, \* slots whose prefix is kept for a later request
    route,    \* host page tables: the pages of each slot
    truth,    \* stamps written to the rows and pages so far
    clock,    \* requests admitted
    mapped,   \* arenas with physical backing
    weights,  \* device: the weights of each model, in its main arena
    rows,     \* device: recurrent state, in the target's main arena
    tables,   \* device: block tables, in the target's KV and the MTP main arena
    cache,    \* device: the pages of each model, in its KV arena
    mirror,   \* host copies of the retained rows and pages, with their checksums
    pc,       \* "loaded", "parked", or the step of a park or resume
    next,     \* the arena, or model, that step is at
    faults    \* faults so far

host == <<active, retained, route, truth, clock>>
device == <<mapped, weights, rows, tables, cache>>
vars == <<host, device, mirror, pc, next, faults>>

Stamps == 0 .. MaxAdmissions
AllMapped == \A m \in Models, k \in Kinds : mapped[m][k]
OwnedPages == UNION { route[s] : s \in retained \cup active }

Everywhere(v) == [m \in Models |-> v]
Contents(copy) == [rows |-> copy.rows, cache |-> copy.cache]
Intact == mirror.sum = Contents(mirror)

(* Where the generator has the block tables a model reads.                 *)
TableKind == [m \in Models |-> IF m = "target" THEN "kv" ELSE "main"]

Zeros == [rows |-> [s \in Slots |-> Zero], cache |-> Everywhere([p \in Pages |-> Zero])]
NoRoutes == [s \in Slots |-> {}]
NoMirror == [slots |-> {}, pages |-> {}, rows |-> Zeros.rows, cache |-> Zeros.cache,
             tables |-> NoRoutes, sum |-> Zeros]

Init ==
    /\ active = {} /\ retained = {} /\ route = NoRoutes
    /\ truth = [rows |-> [s \in Slots |-> 0], pages |-> [p \in Pages |-> 0]]
    /\ mapped = Everywhere([k \in Kinds |-> TRUE]) /\ weights = Everywhere(Source)
    /\ rows = Zeros.rows /\ tables = Everywhere(NoRoutes) /\ cache = Zeros.cache
    /\ mirror = NoMirror /\ pc = "loaded" /\ next = 1
    /\ clock = 0 /\ faults = 0

-----------------------------------------------------------------------------
Fault == faults < MaxFaults /\ faults' = faults + 1
Goes(place) == pc' = place /\ next' = 1
Then(last, place) == IF next < last THEN next' = next + 1 /\ pc' = pc ELSE Goes(place)

(* A request is admitted to a slot with part of its retained prefix and    *)
(* pages nobody owns, which it fills. A launch on an arena without backing *)
(* fails and ends the engine thread: such a generator takes no step here.  *)
Admit(s, keep, fresh) ==
    LET stamp == clock + 1
        wrote(old, where) == [x \in DOMAIN old |-> IF x \in where THEN stamp ELSE old[x]]
    IN  /\ pc = "loaded" /\ AllMapped /\ s \notin active /\ clock < MaxAdmissions
        /\ keep \subseteq route[s] /\ (s \notin retained => keep = {})
        /\ fresh # {} /\ \A t \in Slots : fresh \cap (IF t = s THEN keep ELSE route[t]) = {}
        /\ clock' = stamp /\ active' = active \cup {s} /\ retained' = retained \ {s}
        /\ route' = [route EXCEPT ![s] = keep \cup fresh]
        /\ truth' = [rows |-> wrote(truth.rows, {s}), pages |-> wrote(truth.pages, fresh)]
        /\ rows' = wrote(rows, {s})
        /\ cache' = [m \in Models |-> wrote(cache[m], fresh)]
        /\ tables' = [m \in Models |-> [tables[m] EXCEPT ![s] = keep \cup fresh]]
        /\ UNCHANGED <<mapped, weights, mirror, pc, next, faults>>

(* store_retained: the request ends and its prefix stays, without the      *)
(* pages past the last processed token.                                    *)
Retain(s, kept) ==
    /\ pc = "loaded" /\ AllMapped /\ s \in active /\ kept \subseteq route[s] /\ kept # {}
    /\ active' = active \ {s} /\ retained' = retained \cup {s}
    /\ route' = [route EXCEPT ![s] = kept]
    /\ tables' = [m \in Models |-> [tables[m] EXCEPT ![s] = kept]]
    /\ UNCHANGED <<truth, clock, mapped, weights, rows, cache, mirror, pc, next, faults>>

(* A retained prefix is evicted, and its pages are free again.             *)
Evict(s) ==
    /\ pc = "loaded" /\ AllMapped /\ s \in retained
    /\ retained' = retained \ {s} /\ route' = [route EXCEPT ![s] = {}]
    /\ tables' = [m \in Models |-> [tables[m] EXCEPT ![s] = {}]]
    /\ UNCHANGED <<active, truth, clock, mapped, weights, rows, cache, mirror, pc, next, faults>>

-----------------------------------------------------------------------------
(* capture_park_mirror, before anything is released. The device's tables   *)
(* must agree with the host's; when a copy fails, nothing has changed.     *)
Mirrored ==
    LET copied == [rows  |-> [s \in Slots |-> IF s \in retained THEN rows[s] ELSE Zero],
                   cache |-> [m \in Models |-> [p \in Pages |->
                                IF p \in OwnedPages THEN cache[m][p] ELSE Zero]]]
    IN  [slots |-> retained, pages |-> OwnedPages, rows |-> copied.rows, cache |-> copied.cache,
         tables |-> tables["mtp"], sum |-> copied]

Park ==
    /\ pc = "loaded" /\ active = {} /\ AllMapped
    /\ tables["mtp"] = route /\ \A s \in retained : tables["target"][s] = route[s]
    /\ mirror' = Mirrored /\ Goes("parking")
    /\ UNCHANGED <<host, device, faults>>

(* park_device_arenas: one arena after the other loses its backing. One    *)
(* that has none is passed over.                                           *)
ReleaseOrder == << <<"target", "main">>, <<"target", "kv">>, <<"mtp", "main">>, <<"mtp", "kv">> >>

Unmap(m, k) ==
    /\ mapped' = [mapped EXCEPT ![m][k] = FALSE]
    /\ weights' = IF k = "main" THEN [weights EXCEPT ![m] = Garbage] ELSE weights
    /\ rows' = IF m = "target" /\ k = "main" THEN [s \in Slots |-> Garbage] ELSE rows
    /\ tables' = IF k = TableKind[m] THEN [tables EXCEPT ![m] = [s \in Slots |-> Garbage]]
                                     ELSE tables
    /\ cache' = IF k = "kv" THEN [cache EXCEPT ![m] = [p \in Pages |-> Garbage]] ELSE cache

Release ==
    /\ pc \in {"parking", "undoing"}
    /\ Unmap(ReleaseOrder[next][1], ReleaseOrder[next][2])
    /\ Then(4, "parked")
    /\ UNCHANGED <<host, mirror, faults>>

(* The stream cannot be drained before an arena: the arenas before it stay *)
(* released. A park hands the generator back, a rollback stays parked.     *)
BugReleaseFails_KeepsMirror ==
    /\ pc \in {"parking", "undoing"} /\ Fault
    /\ IF pc = "parking" THEN Goes("loaded") /\ UNCHANGED mirror
                         ELSE Goes("parked") /\ UNCHANGED mirror
    /\ UNCHANGED <<host, device>>
ReleaseFails ==
    /\ pc \in {"parking", "undoing"} /\ Fault
    /\ IF pc = "parking" THEN Goes("loaded") /\ mirror' = NoMirror
                         ELSE Goes("parked") /\ UNCHANGED mirror
    /\ UNCHANGED <<host, device>>

-----------------------------------------------------------------------------
(* resume: the mirror is checked before anything is mapped.                *)
BugResume_FullyParkedOnly ==
    /\ pc = "parked" /\ \A m \in Models, k \in Kinds : ~mapped[m][k]
    /\ Goes(IF Intact THEN "remapping" ELSE "undoing")
    /\ UNCHANGED <<host, device, mirror, faults>>
Resume ==
    /\ pc = "parked" /\ Goes(IF Intact THEN "remapping" ELSE "undoing")
    /\ UNCHANGED <<host, device, mirror, faults>>

RemapOrder == << <<"target", "main">>, <<"target", "kv">>, <<"mtp", "kv">>, <<"mtp", "main">> >>

(* An arena that a failed rollback left mapped is skipped.                 *)
Remap ==
    LET m == RemapOrder[next][1]
        k == RemapOrder[next][2]
    IN  /\ pc = "remapping"
        /\ mapped' = [mapped EXCEPT ![m][k] = TRUE] /\ Then(4, "reloading")
        /\ UNCHANGED <<host, weights, rows, tables, cache, mirror, faults>>

(* reload_released_arenas: a model's arenas are zeroed, its weights loaded;*)
(* the target's tables are reset, the MTP tables stay zero for now.        *)
ReloadOrder == <<"target", "mtp">>

Reload ==
    LET m == ReloadOrder[next]
    IN  /\ pc = "reloading"
        /\ weights' = [weights EXCEPT ![m] = Source]
        /\ rows' = IF m = "target" THEN Zeros.rows ELSE rows
        /\ tables' = [tables EXCEPT ![m] = [s \in Slots |-> IF m = "target" THEN {} ELSE Zero]]
        /\ cache' = [cache EXCEPT ![m] = Zeros.cache[m]]
        /\ Then(2, "tables")
        /\ UNCHANGED <<host, mapped, mirror, faults>>

(* The target's tables come from the host, the MTP ones from the target's. *)
RestoreTables ==
    LET m == ReloadOrder[next]
    IN  /\ pc = "tables"
        /\ tables' = [tables EXCEPT ![m] = IF m = "target" THEN route ELSE tables["target"]]
        /\ Then(2, "rows")
        /\ UNCHANGED <<host, mapped, weights, rows, cache, mirror, faults>>

RestoreRows ==
    /\ pc = "rows" /\ Goes("pages")
    /\ rows' = [s \in Slots |-> IF s \in mirror.slots THEN mirror.rows[s] ELSE rows[s]]
    /\ UNCHANGED <<host, mapped, weights, tables, cache, mirror, faults>>

RestorePages ==
    /\ pc = "pages" /\ Goes("verifying")
    /\ cache' = [m \in Models |-> [p \in Pages |->
                    IF p \in mirror.pages THEN mirror.cache[m][p] ELSE cache[m][p]]]
    /\ UNCHANGED <<host, mapped, weights, rows, tables, mirror, faults>>

(* The tables and, again, the mirror's checksums decide.                   *)
BugVerify_ChecksumsOnce ==
    /\ pc = "verifying"
    /\ IF tables["target"] = route /\ tables["mtp"] = route /\ tables["mtp"] = mirror.tables
       THEN Goes("loaded") /\ mirror' = NoMirror
       ELSE Goes("undoing") /\ UNCHANGED mirror
    /\ UNCHANGED <<host, device, faults>>
Verify ==
    /\ pc = "verifying"
    /\ IF tables["target"] = route /\ tables["mtp"] = route /\ tables["mtp"] = mirror.tables
          /\ Intact
       THEN Goes("loaded") /\ mirror' = NoMirror
       ELSE Goes("undoing") /\ UNCHANGED mirror
    /\ UNCHANGED <<host, device, faults>>

(* A step of resume fails: its arenas are released again. What it had done *)
(* to them is wiped by the release, or by the reload of a later resume.    *)
ResumeFails ==
    /\ pc \in {"remapping", "reloading", "tables", "rows", "pages", "verifying"} /\ Fault
    /\ Goes("undoing") /\ UNCHANGED <<host, device, mirror>>

(* The environment: a mirrored value changes in host memory.               *)
Alter ==
    /\ pc # "loaded" /\ Fault
    /\ \/ \E s \in mirror.slots : mirror' = [mirror EXCEPT !.rows[s] = Garbage]
       \/ \E m \in Models, p \in mirror.pages :
            mirror' = [mirror EXCEPT !.cache[m][p] = Garbage]
    /\ UNCHANGED <<host, device, pc, next>>

Proceeds ==
    \/ Release \/ Resume \/ Remap \/ Reload
    \/ RestoreTables \/ RestoreRows \/ RestorePages \/ Verify

Next ==
    \/ \E s \in Slots : \/ \E keep, fresh \in SUBSET Pages : Admit(s, keep, fresh)
                        \/ \E kept \in SUBSET Pages : Retain(s, kept)
                        \/ Evict(s)
    \/ Park \/ Proceeds \/ ReleaseFails \/ ResumeFails \/ Alter

Spec == Init /\ [][Next]_vars

(* The engine thread runs a park or resume to its end, and a chat or a     *)
(* client asks a parked generator to resume.                               *)
FairSpec == Spec /\ WF_vars(Proceeds)

-----------------------------------------------------------------------------
Values == Stamps \cup {Zero, Garbage}
Stored == [rows : [Slots -> Values], cache : [Models -> [Pages -> Values]]]
Tables == [Slots -> SUBSET Pages]
Mirrors == [slots : SUBSET Slots, pages : SUBSET Pages, rows : [Slots -> Values],
            cache : [Models -> [Pages -> Values]], tables : Tables, sum : Stored]

(* Values have their types; the generator has a mirror when it is not      *)
(* loaded, and only then, and then it runs no request.                     *)
TypeOK ==
    /\ active \subseteq Slots /\ retained \subseteq Slots \ active /\ route \in Tables
    /\ truth \in [rows : [Slots -> Stamps], pages : [Pages -> Stamps]] /\ clock \in Stamps
    /\ mapped \in [Models -> [Kinds -> BOOLEAN]] /\ weights \in [Models -> {Source, Garbage}]
    /\ rows \in [Slots -> Values] /\ cache \in [Models -> [Pages -> Values]]
    /\ tables \in [Models -> [Slots -> {Zero, Garbage} \cup SUBSET Pages]]
    /\ mirror \in Mirrors
    /\ pc \in {"loaded", "parking", "parked", "undoing", "remapping", "reloading", "tables",
               "rows", "pages", "verifying"}
    /\ next \in 1 .. 4 /\ (pc \in {"reloading", "tables"} => next \in 1 .. 2)
    /\ faults \in 0 .. MaxFaults
    /\ IF pc = "loaded" THEN mirror = NoMirror
       ELSE active = {} /\ mirror.slots = retained /\ mirror.pages = OwnedPages

(* A loaded generator with all its memory is the one that never parked: the*)
(* weights are the snapshot's, both models have the host's block tables,   *)
(* every running and retained request finds its state and its pages, and   *)
(* nothing undefined is left in the rest. This is so after any number of   *)
(* parks and resumes, whatever failed in them (restore_park_mirror).       *)
LoadedIsExact ==
    pc = "loaded" /\ AllMapped =>
        /\ \A m \in Models : weights[m] = Source /\ tables[m] = route
        /\ \A s \in retained \cup active : rows[s] = truth.rows[s]
        /\ \A m \in Models, p \in OwnedPages : cache[m][p] = truth.pages[p]
        /\ \A s \in Slots : rows[s] # Garbage
        /\ \A m \in Models, p \in Pages : cache[m][p] # Garbage

(* Once failures stop, a parked generator is loaded again at the next      *)
(* resume, whatever was left mapped by the failed ones, unless its mirror  *)
(* was altered (ParkedQwen38Generator::resume keeps the owner retryable).  *)
ParkedComesBack == pc # "loaded" ~> (pc = "loaded" \/ ~Intact)
=============================================================================
