---------------------------- MODULE WeightStream ----------------------------
(***************************************************************************)
(* The streaming-resident weight pool: a host cache that decides which     *)
(* item owns which device slot, a transfer stream that uploads items and   *)
(* the item-to-slot table, and a consumer stream whose replays read them   *)
(* (crates/tuisko-engine/src/common/streaming.rs, StreamingWeightPool;     *)
(* crates/tuisko-gpu/src/streaming.rs, TransferStream, PinnedBounceRing    *)
(* and DeviceSlotPool).                                                    *)
(*                                                                         *)
(* The host thread enqueues; the two streams run on their own, each in its *)
(* order. A fence is the number of operations that its stream still has to *)
(* run before it: an event records it, a wait captures it.                 *)
(***************************************************************************)
EXTENDS Integers, Sequences, SequencesExt, FiniteSetsExt

CONSTANTS
    Items,                      \* streamed items, all staged
    SlotCount,                  \* device slots
    RECLAIM_FENCE_GENERATIONS,  \* reclaim fences kept
    TABLE_GENERATIONS,          \* staging copies of the table
    BounceSlots,                \* ring of the mapped posture; 0 if pinned
    Requests,                   \* sequences of items that a round asks for
    MaxRounds,                  \* largest generation (u64::MAX)
    MaxReplays,                 \* operations queued on the consumer (bound)
    Absent                      \* no slot, or no item

Slots == 0 .. SlotCount - 1
Stages == 0 .. TABLE_GENERATIONS - 1
Bounces == 0 .. BounceSlots - 1

ASSUME PoolAssumption ==
    /\ IsFiniteSet(Items) /\ SlotCount \in 1 .. Cardinality(Items)
    /\ {RECLAIM_FENCE_GENERATIONS, TABLE_GENERATIONS, MaxRounds} \subseteq Nat \ {0}
    /\ BounceSlots \in Nat /\ Requests \subseteq Seq(Items)
    /\ Absent \notin Items \cup Slots

VARIABLES
    item_slot,    \* cache: slot of each item
    slot_item,    \* cache: item of each slot
    recency,      \* cache: occupied slots, least recently used first
    pinned_round, \* cache: last round that asked for the slot's item
    round,        \* cache: generation of the last committed round
    pc,           \* the host thread: "idle", or where it is in a call
    uploads,      \* positions in the plan of the admissions still to be enqueued
    plan,         \* the call's plan
    stalls,       \* the call waits for its publication
    poisoned,     \* the pool refuses every further round
    publication,  \* publication fence (transfer stream)
    reclaims,     \* reclaim fences (consumer stream), oldest first
    stage,        \* next staging copy of the table
    staging,      \* staging copies: a table and the fence of its upload
    cursor,       \* next slot of the bounce ring
    bounce,       \* bounce ring: an item's bytes and the fence of the upload
    current,      \* items of the round that the consumer can still replay
    unreleased,   \* the consumer has not released its last replay
    transfer,     \* operations queued on the transfer stream
    consumer,     \* operations queued on the consumer stream
    slots,        \* device: contents of each slot
    table         \* device: the item-to-slot table

cache == <<item_slot, slot_item, recency, pinned_round, round>>
call == <<pc, uploads, plan, stalls>>
rings == <<stage, staging, cursor, bounce>>
device == <<slots, table>>
vars == <<cache, call, poisoned, publication, reclaims, rings, current, unreleased,
          transfer, consumer, device>>

Init ==
    /\ item_slot = [i \in Items |-> Absent] /\ slot_item = [s \in Slots |-> Absent]
    /\ recency = << >> /\ pinned_round = [s \in Slots |-> 0] /\ round = 0
    /\ pc = "idle" /\ uploads = {} /\ plan = << >> /\ stalls = FALSE
    /\ poisoned = FALSE /\ publication = 0 /\ reclaims = << >>
    /\ stage = 0 /\ staging = [g \in Stages |-> [table |-> item_slot, fence |-> 0]]
    /\ cursor = 0 /\ bounce = [b \in Bounces |-> [item |-> Absent, fence |-> 0]]
    /\ current = {} /\ unreleased = FALSE
    /\ transfer = << >> /\ consumer = << >>
    /\ slots = [s \in Slots |-> Absent] /\ table = [i \in Items |-> Absent]

-----------------------------------------------------------------------------
(* plan_round: each request in order is a hit, or a miss that claims a     *)
(* slot no earlier step has touched.                                       *)

BugTouched_AdmittedOnly(steps) ==
    { steps[k].slot : k \in { k \in DOMAIN steps : steps[k].admitted } }
Touched(steps) == { steps[k].slot : k \in DOMAIN steps }
Admissions(steps) == { k \in DOMAIN steps : steps[k].admitted }

(* planned_slot_of: an admission of this plan wins over an eviction of it, *)
(* and both over the committed residency.                                  *)
PlannedSlot(steps, i) ==
    LET admitted == Admissions(steps) IN
    IF \E k \in admitted : steps[k].item = i
    THEN steps[CHOOSE k \in admitted : steps[k].item = i].slot
    ELSE IF \E k \in admitted : steps[k].evicted = i THEN Absent ELSE item_slot[i]

(* plan_claim_slot: the lowest free slot, else the least recently used.    *)
Claimed(steps) ==
    LET open == Slots \ Touched(steps)
        free == { s \in open : slot_item[s] = Absent }
    IN  IF free # {} THEN Min(free)
        ELSE recency[Min({ k \in DOMAIN recency : recency[k] \in open })]

Planned(steps, i) ==
    LET slot == PlannedSlot(steps, i)
        claimed == Claimed(steps)
    IN  IF slot = Absent
        THEN Append(steps, [item |-> i, slot |-> claimed,
                            evicted |-> slot_item[claimed], admitted |-> TRUE])
        ELSE IF slot \in Touched(steps) THEN steps
        ELSE Append(steps, [item |-> i, slot |-> slot,
                            evicted |-> Absent, admitted |-> FALSE])
PlanRound(items) ==
    LET planned[n \in 0 .. Len(items)] ==
            IF n = 0 THEN << >> ELSE Planned(planned[n - 1], items[n])
    IN  planned[Len(items)]

(* The newest reader of the slots that the plan overwrites.                *)
ReclaimGeneration(steps) ==
    Max({0} \cup { pinned_round[steps[k].slot] : k \in Admissions(steps) })

(* commit_planned_round: the residency, recency and readers the plan leads *)
(* to; a later admission of an item this plan evicted takes precedence.    *)
BugItemSlots_EvictedKept(steps) ==
    LET admitted == Admissions(steps) IN
    [i \in Items |->
        IF \E k \in admitted : steps[k].item = i
        THEN steps[CHOOSE k \in admitted : steps[k].item = i].slot ELSE item_slot[i]]
ItemSlots(steps) == [i \in Items |-> PlannedSlot(steps, i)]

BugReaders_HitsUnpinned(steps) ==
    [s \in Slots |-> IF s \in { steps[k].slot : k \in Admissions(steps) } THEN round + 1 ELSE pinned_round[s]]
Readers(steps) ==
    [s \in Slots |-> IF s \in Touched(steps) THEN round + 1 ELSE pinned_round[s]]

(* touch: what is left of the recency list when some slots leave it.       *)
Without(seq, S) ==
    LET kept[n \in 0 .. Len(seq)] ==
            IF n = 0 THEN << >>
            ELSE IF seq[n] \in S THEN kept[n - 1]
            ELSE Append(kept[n - 1], seq[n])
    IN  kept[Len(seq)]

Commit(steps) ==
    /\ item_slot' = ItemSlots(steps)
    /\ slot_item' = [s \in Slots |->
          IF s \in Touched(steps)
          THEN steps[CHOOSE k \in DOMAIN steps : steps[k].slot = s].item ELSE slot_item[s]]
    /\ recency' = Without(recency, Touched(steps))
                    \o [k \in DOMAIN steps |-> steps[k].slot]
    /\ pinned_round' = Readers(steps)
    /\ round' = round + 1

-----------------------------------------------------------------------------
(* Calls of the pool. A call that fails before its first upload leaves     *)
(* everything as it was; one that fails later poisons the pool.            *)

Upload(step, ring) ==
    [op |-> "Upload", slot |-> step.slot, item |-> step.item, ring |-> ring]
TableCopy(g, entries) == [op |-> "Table", stage |-> g, table |-> entries]
Replay(items) == [op |-> "Replay", items |-> items]
Wait(fence) == [op |-> "Wait", left |-> fence]

(* wait_reclaim: the oldest fence kept that releases the generation.       *)
Covering(generation) ==
    { k \in DOMAIN reclaims : reclaims[k].generation >= generation }
WaitReclaim(generation) ==
    IF generation = 0 THEN << >>
    ELSE << Wait(reclaims[Min(Covering(generation))].fence) >>

(* The pool takes calls between calls, and the consumer owes it a release  *)
(* of its last replay before the next round.                               *)
Ready == pc = "idle" /\ ~poisoned /\ ~unreleased
BugAdmissible_NeverExhausted(items) == Cardinality(ToSet(items)) <= SlotCount
Admissible(items) == Cardinality(ToSet(items)) <= SlotCount /\ round < MaxRounds

RoundRefused(items) ==
    /\ Ready
    /\ \/ ~Admissible(items)
       \/ /\ Admissible(items)
          /\ LET steps == PlanRound(items) IN
             /\ Admissions(steps) # {}
             /\ \/ BounceSlots > 0                              \* source refused
                \/ ReclaimGeneration(steps) > 0
                     /\ Covering(ReclaimGeneration(steps)) = {} \* no release
    /\ UNCHANGED vars

(* prefetch and, if stall, require                                         *)
Round(items, stall) ==
    /\ Ready /\ Admissible(items)
    /\ LET steps == PlanRound(items)
           need == ReclaimGeneration(steps)
       IN
       /\ IF Admissions(steps) = {}
          THEN /\ Commit(steps)
               /\ pc' = IF stall THEN "stall" ELSE "idle"
               /\ UNCHANGED transfer
          ELSE /\ need = 0 \/ Covering(need) # {}
               /\ transfer' = transfer \o WaitReclaim(need)
               /\ pc' = "upload"
               /\ UNCHANGED cache
       /\ uploads' = Admissions(steps) /\ plan' = steps
    /\ stalls' = stall /\ current' = ToSet(items)
    /\ UNCHANGED <<poisoned, publication, reclaims, rings, unreleased, consumer, device>>

(* enqueue_assignment: in the mapped posture the item's bytes travel       *)
(* through the bounce ring, whose next slot must have been uploaded.       *)
BugBounceFree_Unfenced == TRUE
BounceFree == bounce[cursor].fence = 0

NextUpload == plan[Min(uploads)]
EnqueueUpload ==
    /\ pc = "upload"
    /\ IF BounceSlots = 0
       THEN transfer' = Append(transfer, Upload(NextUpload, Absent)) /\ UNCHANGED rings
       ELSE /\ BounceFree
            /\ transfer' = Append(transfer, Upload(NextUpload, cursor))
            /\ bounce' = [bounce EXCEPT ![cursor] =
                  [item |-> NextUpload.item, fence |-> Len(transfer')]]
            /\ cursor' = (cursor + 1) % BounceSlots
            /\ UNCHANGED <<stage, staging>>
    /\ uploads' = uploads \ {Min(uploads)}
    /\ IF uploads' = {} THEN Commit(plan) /\ pc' = "publish"
       ELSE UNCHANGED <<cache, pc>>
    /\ UNCHANGED <<plan, stalls, poisoned, publication, reclaims, current, unreleased,
                   consumer, device>>

(* publish_table and record_publication                                    *)
StageFree == staging[stage].fence = 0
Publish ==
    /\ pc = "publish" /\ StageFree
    /\ transfer' = Append(transfer, TableCopy(stage, item_slot))
    /\ staging' = [staging EXCEPT ![stage] = [table |-> item_slot, fence |-> Len(transfer')]]
    /\ stage' = (stage + 1) % TABLE_GENERATIONS
    /\ publication' = Len(transfer')
    /\ pc' = IF stalls THEN "stall" ELSE "idle"
    /\ UNCHANGED <<cache, uploads, plan, stalls, poisoned, reclaims, cursor, bounce, current,
                   unreleased, consumer, device>>

Return == uploads' = {} /\ plan' = << >> /\ stalls' = FALSE /\ pc' = "idle"

(* stall_for_publication                                                   *)
Stall ==
    /\ pc = "stall" /\ publication = 0 /\ Return
    /\ UNCHANGED <<cache, poisoned, publication, reclaims, rings, current, unreleased,
                   transfer, consumer, device>>

(* An enqueue or a fence fails. A round whose stall fails is not undone.   *)
BugPoisons_PublicationOnly == pc = "publish"
Poisons == pc # "stall" \/ plan = << >>
CallFails ==
    /\ pc # "idle" /\ Return
    /\ poisoned' = Poisons /\ current' = {}
    /\ UNCHANGED <<cache, publication, reclaims, rings, unreleased, transfer, consumer, device>>

(* reset: every reader is waited for, then nothing is resident.            *)
Reset ==
    LET need == Max({0} \cup { pinned_round[s] : s \in Slots }) IN
    /\ Ready /\ (need = 0 \/ Covering(need) # {})
    /\ transfer' = transfer \o WaitReclaim(need)
    /\ item_slot' = [i \in Items |-> Absent] /\ slot_item' = [s \in Slots |-> Absent]
    /\ recency' = << >> /\ pinned_round' = [s \in Slots |-> 0]
    /\ pc' = "publish" /\ uploads' = {} /\ plan' = << >> /\ stalls' = TRUE
    /\ current' = {}
    /\ UNCHANGED <<round, poisoned, publication, reclaims, rings, unreleased, consumer,
                   device>>

-----------------------------------------------------------------------------
(* The consumer: fence_replay before every replay that reads the round,    *)
(* and record_replay_release after the last of them. It owes the pool this *)
(* order: of two releases of one round, later rounds wait on the first.    *)
FenceReplay == << Wait(publication) >>
LaunchReplay ==
    /\ pc = "idle" /\ ~poisoned /\ current # {}
    /\ Len(consumer) + 2 <= MaxReplays
    /\ consumer' = consumer \o FenceReplay \o << Replay(current) >>
    /\ unreleased' = TRUE
    /\ UNCHANGED <<cache, call, poisoned, publication, reclaims, rings, current, transfer,
                   device>>

Newest(seq, n) == SubSeq(seq, Max({1, Len(seq) - n + 1}), Len(seq))
RecordRelease ==
    /\ pc = "idle" /\ unreleased
    /\ reclaims' = Newest(Append(reclaims, [generation |-> round, fence |-> Len(consumer)]),
                          RECLAIM_FENCE_GENERATIONS)
    /\ unreleased' = FALSE /\ current' = {}
    /\ UNCHANGED <<cache, call, poisoned, publication, rings, transfer, consumer, device>>

(* The release is refused, or the forward pass fails before it: the round  *)
(* is replayed no more and what was replayed of it stays unreleased.       *)
ForwardFails ==
    /\ pc = "idle" /\ current # {}
    /\ current' = {} /\ unreleased' = FALSE
    /\ UNCHANGED <<cache, call, poisoned, publication, reclaims, rings, transfer, consumer,
                   device>>

-----------------------------------------------------------------------------
(* The streams                                                             *)
Passed(fence) == IF fence = 0 THEN 0 ELSE fence - 1
PassedWaits(queue) ==
    [k \in DOMAIN queue |-> IF queue[k].op = "Wait" THEN Wait(Passed(queue[k].left))
                            ELSE queue[k]]

TransferStep ==
    /\ transfer # << >>
    /\ LET head == Head(transfer) IN
       /\ head.op = "Wait" => head.left = 0
       /\ slots' = IF head.op # "Upload" THEN slots
                   ELSE [slots EXCEPT ![head.slot] =
                            IF head.ring = Absent THEN head.item ELSE bounce[head.ring].item]
       /\ table' = IF head.op = "Table" THEN staging[head.stage].table ELSE table
    /\ transfer' = Tail(transfer)
    /\ publication' = Passed(publication)
    /\ staging' = [g \in Stages |-> [staging[g] EXCEPT !.fence = Passed(@)]]
    /\ bounce' = [b \in Bounces |-> [bounce[b] EXCEPT !.fence = Passed(@)]]
    /\ consumer' = PassedWaits(consumer)
    /\ UNCHANGED <<cache, call, poisoned, reclaims, stage, cursor, current, unreleased>>

ConsumerStep ==
    /\ consumer # << >>
    /\ Head(consumer).op = "Wait" => Head(consumer).left = 0
    /\ consumer' = Tail(consumer)
    /\ reclaims' = [k \in DOMAIN reclaims |-> [reclaims[k] EXCEPT !.fence = Passed(@)]]
    /\ transfer' = PassedWaits(transfer)
    /\ UNCHANGED <<cache, call, poisoned, publication, rings, current, unreleased, device>>

Stopped ==
    /\ poisoned /\ pc = "idle" /\ transfer = << >> /\ consumer = << >> /\ ~unreleased
    /\ UNCHANGED vars

Next ==
    \/ \E items \in Requests : RoundRefused(items) \/ \E stall \in BOOLEAN : Round(items, stall)
    \/ EnqueueUpload \/ Publish \/ Stall \/ CallFails \/ Reset
    \/ LaunchReplay \/ RecordRelease \/ ForwardFails
    \/ TransferStep \/ ConsumerStep
    \/ Stopped

Spec == Init /\ [][Next]_vars

-----------------------------------------------------------------------------
(* The types of the variables, and what can be queued on a stream. A fence *)
(* never lies behind what its stream still has to run.                     *)
Steps == [item : Items, slot : Slots, evicted : Items \cup {Absent}, admitted : BOOLEAN]
Waits(queue) == [op : {"Wait"}, left : 0 .. Len(queue)]
Transfers == [op : {"Upload"}, slot : Slots, item : Items, ring : Bounces \cup {Absent}]
               \cup [op : {"Table"}, stage : Stages, table : [Items -> Slots \cup {Absent}]]
               \cup Waits(consumer)
Replays == [op : {"Replay"}, items : SUBSET Items] \cup Waits(transfer)

TypeOK ==
    /\ item_slot \in [Items -> Slots \cup {Absent}]
    /\ slot_item \in [Slots -> Items \cup {Absent}]
    /\ recency \in Seq(Slots)
    /\ pinned_round \in [Slots -> 0 .. MaxRounds] /\ round \in 0 .. MaxRounds
    /\ pc \in {"idle", "upload", "publish", "stall"}
    /\ plan \in Seq(Steps) /\ uploads \subseteq DOMAIN plan
    /\ {stalls, poisoned, unreleased} \subseteq BOOLEAN
    /\ transfer \in Seq(Transfers) /\ consumer \in Seq(Replays)
    /\ publication \in 0 .. Len(transfer)
    /\ reclaims \in Seq([generation : 0 .. MaxRounds, fence : 0 .. Len(consumer)])
    /\ Len(reclaims) <= RECLAIM_FENCE_GENERATIONS
    /\ stage \in Stages
    /\ staging \in [Stages -> [table : [Items -> Slots \cup {Absent}], fence : 0 .. Len(transfer)]]
    /\ BounceSlots > 0 => cursor \in Bounces
    /\ bounce \in [Bounces -> [item : Items \cup {Absent}, fence : 0 .. Len(transfer)]]
    /\ current \subseteq Items
    /\ slots \in [Slots -> Items \cup {Absent}]
    /\ table \in [Items -> Slots \cup {Absent}]

(* "Cache state must not change produced bits": whenever a replay is at    *)
(* the head of its stream, however far the transfers of later rounds have  *)
(* run, the table leads every item of its round to that item's bytes.      *)
ReplayReadsItsItems ==
    consumer # << >> /\ Head(consumer).op = "Replay" =>
        \A i \in Head(consumer).items :
            table[i] \in Slots /\ slots[table[i]] = i

(* Host bytes an enqueued copy has still to read are not rewritten: the    *)
(* bounce slots and the staging copies of the table.                       *)
SourcesStable ==
    \A k \in DOMAIN transfer :
        LET next == transfer[k] IN
        /\ next.op = "Upload" /\ next.ring # Absent => bounce[next.ring].item = next.item
        /\ next.op = "Table" => staging[next.stage].table = next.table

(* What the cache says is resident is on the device once the transfers     *)
(* have run, in the slot the published table names; a failed round can     *)
(* leave a claim with nothing behind it only in a poisoned pool.           *)
ResidencyIsReal ==
    ~poisoned /\ pc = "idle" /\ transfer = << >> =>
        /\ table = item_slot
        /\ \A i \in Items : item_slot[i] # Absent => slots[item_slot[i]] = i

(* The cache's two directions, its recency list and its readers agree.     *)
CacheAgrees ==
    /\ \A i \in Items : item_slot[i] # Absent => slot_item[item_slot[i]] = i
    /\ \A s \in Slots : slot_item[s] # Absent => item_slot[slot_item[s]] = s
    /\ ToSet(recency) = { s \in Slots : slot_item[s] # Absent }
    /\ Len(recency) = Cardinality(ToSet(recency))
    /\ \A k \in 1 .. Len(recency) - 1 :
          pinned_round[recency[k]] <= pinned_round[recency[k + 1]]

(* A committed round holds every item it asked for, also one that an       *)
(* earlier miss of the same round evicted.                                 *)
RoundIsResident ==
    [][round' # round => \A i \in current' : item_slot'[i] # Absent]_vars

=============================================================================
