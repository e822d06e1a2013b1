-------------------------- MODULE ServeWorker_proofs -------------------------
(***************************************************************************)
(* Proofs about ServeWorker, for any clients, batch and number of rounds:  *)
(* its type invariant, the ingress fence, the truth of the published       *)
(* state, the minimum park, the steps of the lifecycle, and that no job is *)
(* lost or answered twice.                                                 *)
(***************************************************************************)
EXTENDS ServeWorker, FiniteSetTheorems, TLAPS

(* The worker executes a job it has, and its answer is chosen before it is *)
(* sent.                                                                   *)
Executing == {"score", "execute", "publish", "reply", "restore", "restored",
              "handover"}
HandReady ==
    /\ pc \in Executing => hand # NoJob
    /\ \/ pc \in {"publish", "reply"}
       \/ pc = "withdraw" /\ hand # NoJob
       => verdict # "none"

(* The scheduler and the waiting list are empty, no job is held.           *)
Quiet == Idle /\ waiting = {} /\ held = NoJob

(* What the worker has in its hands at each place of its loop.             *)
Control ==
    /\ owner # "loaded" => Quiet
    /\ pc \in {"recv", "score", "execute", "publish", "reply", "restored",
               "handover", "guard", "dying", "exited"} => Quiet
    /\ pc \in {"score", "fill", "admit", "step", "fail_all", "close", "restored",
               "handover"} => owner = "loaded"
    /\ pc \in {"restore", "withdraw"} => owner # "loaded"
    /\ pc = "step" => waiting = {}
    /\ pc = "top" /\ waiting # {} => Idle
    /\ pc \in {"fail_all", "close", "unwind"} => waiting = {}
    /\ pc \in {"top", "recv", "fill", "admit", "step", "fail_all", "close",
               "unwind", "guard", "dying", "exited"} => hand = NoJob
    /\ held # NoJob => IsAdmin(held)
    /\ pc = "score" => hand.kind = "Score"
    /\ pc \in {"execute", "publish"} => IsAdmin(hand)

(* The batch bound, for sets that Cardinality measures.                    *)
Batch == IsFiniteSet(Active) /\ IsFiniteSet(waiting) /\ BatchFits

(* The worker ends for good, and only it closes the channel.               *)
Ending ==
    /\ closed => pc \in {"unwind", "guard", "dying", "exited"}
    /\ pc \in {"guard", "dying", "exited"} => closed /\ ingress = << >>
    /\ lifecycle = "Dead" <=> pc = "exited"
    /\ ~jobs_open \/ (pc = "unwind" /\ ~closed) => ~serving /\ ingress = << >>

PlainUpTo(n) == \A k \in 1 .. n : ~IsAdmin(ingress[k])

(* Loaded: nothing but inference is queued.                                *)
PhaseLoaded ==
    /\ owner = "loaded" /\ held = NoJob /\ PlainUpTo(Len(ingress))
    /\ pc \notin {"execute", "publish", "restored"}

(* Loading, Resuming: the job that started the restore is queued first, or *)
(* in the worker's hand.                                                   *)
PhaseRestoring(from, kind) ==
    \/ /\ pc \in {"top", "recv", "reply"} /\ owner = from /\ ingress # << >>
       /\ \A k \in 2 .. Len(ingress) : ~IsAdmin(ingress[k])
       /\ IsAdmin(ingress[1]) => ingress[1].kind = kind
    \/ /\ pc \in {"restore", "withdraw"} /\ owner = from
       /\ PlainUpTo(Len(ingress))
       /\ hand # NoJob /\ IsAdmin(hand) => hand.kind = kind
    \/ /\ pc = "restored" /\ PlainUpTo(Len(ingress))

(* Parked, Unloaded: nothing is queued.                                    *)
PhaseAway(what) ==
    owner = what /\ ingress = << >> /\ pc \in {"top", "recv", "reply", "unwind"}

(* Unloading, Parking: the job is queued last, held, or in hand.           *)
PhaseLeaving(kind) ==
    \/ /\ ingress # << >> /\ ingress[Len(ingress)].kind = kind
       /\ PlainUpTo(Len(ingress) - 1) /\ held = NoJob
       /\ pc \notin {"execute", "publish", "restored", "restore", "withdraw"}
       /\ owner # "loaded" =>
            Len(ingress) = 1 /\ owner = "parked" /\ pc \in {"top", "recv", "reply"}
    \/ /\ ingress = << >> /\ held # NoJob /\ held.kind = kind /\ owner = "loaded"
    \/ /\ ingress = << >> /\ pc = "execute" /\ hand.kind = kind
       /\ owner \in {"loaded", "parked"}
    \/ /\ ingress = << >> /\ pc = "publish" /\ hand.kind = kind
       /\ owner = IF kind = "Unload" THEN "none"
                  ELSE IF verdict = "served" THEN "parked" ELSE "loaded"

Phases ==
    ~closed =>
        /\ lifecycle = "Loaded" => PhaseLoaded
        /\ lifecycle = "Loading" => PhaseRestoring("none", "Load")
        /\ lifecycle = "Resuming" => PhaseRestoring("parked", "Resume")
        /\ lifecycle = "Parked" => PhaseAway("parked")
        /\ lifecycle = "Unloaded" => PhaseAway("none")
        /\ lifecycle = "Unloading" => PhaseLeaving("Unload")
        /\ lifecycle = "Parking" => PhaseLeaving("Park")

(* A minimum park that still runs is one of the parked model.              *)
HoldIsParked ==
    ~closed /\ deadline = "pending" =>
        lifecycle = "Parked" \/ (lifecycle = "Parking" /\ owner = "parked")

(* A client that was accepted and not answered is queued, or in the        *)
(* worker's books.                                                         *)
JobIds == { job.id : job \in {held, hand} \ {NoJob} }
Accounted ==
    \A i \in Clients :
        outcome[i] = "accepted" => i \in Queued \cup waiting \cup Active \cup JobIds

IInv ==
    /\ Types /\ HandReady
    /\ Control /\ Batch
    /\ Ending /\ Phases /\ HoldIsParked /\ Accounted

-----------------------------------------------------------------------------
(* Helpers: what the clients are told, and the queue.                      *)

LEMMA ToldTyped ==
  ASSUME Types, NEW S, NEW answer \in Outcomes
  PROVE  Told(S, answer) \in [Clients -> Outcomes]
  BY DEF Types, Told

LEMMA AdmittedJobs ==
  /\ \A i \in Inference : [id |-> i, kind |-> IF i \in Chats THEN "Chat" ELSE "Score",
                           hold |-> FALSE] \in Job
  /\ \A a \in Admins, kind \in AdminKind, hold \in BOOLEAN :
        [id |-> a, kind |-> kind, hold |-> hold] \in Job
  /\ \A job \in Job : /\ job.id \in Clients
                      /\ job.kind \in {"Chat", "Score"} \cup AdminKind
                      /\ job.kind = "Chat" => job.id \in Chats
                      /\ job.kind = "Score" => job.id \in Scores
                      /\ job.kind \in AdminKind => job.id \in Admins
                      /\ job.hold \in BOOLEAN
  BY DEF Job, Inference, Clients, AdminKind

LEMMA TakenFromQueue ==
  ASSUME Types, ingress # << >>
  PROVE  /\ Head(ingress) \in Job /\ Head(ingress) = ingress[1]
         /\ Tail(ingress) \in Seq(Job) /\ Len(Tail(ingress)) = Len(ingress) - 1
         /\ Len(ingress) \in Nat \ {0}
         /\ \A k \in 1 .. Len(Tail(ingress)) : Tail(ingress)[k] = ingress[k + 1]
  BY DEF Types

LEMMA AddedToQueue ==
  ASSUME Types, NEW job \in Job
  PROVE  /\ Append(ingress, job) \in Seq(Job) /\ Append(ingress, job) # << >>
         /\ Len(Append(ingress, job)) = Len(ingress) + 1
         /\ Append(ingress, job)[Len(ingress) + 1] = job
         /\ \A k \in 1 .. Len(ingress) : Append(ingress, job)[k] = ingress[k]
  BY DEF Types

-----------------------------------------------------------------------------
(* The types.                                                              *)

LEMMA TypesInitially == Init => Types /\ HandReady
  <1> SUFFICES ASSUME Init PROVE Types /\ HandReady
    OBVIOUS
  <1>1. ingress \in Seq(Job) /\ Len(ingress) <= MAX_BATCH
    BY ServeAssumption DEF Init
  <1>2. rounds \in [Chats -> 0 .. MaxRounds]
    BY ServeAssumption DEF Init
  <1>3. outcome \in [Clients -> Outcomes]
    BY DEF Init, Outcomes
  <1>4. HandReady
    BY DEF Init, HandReady, Executing
  <1> QED
    BY <1>1, <1>2, <1>3, <1>4 DEF Init, Types, States, PC

LEMMA TypesOfSendReserving ==
  ASSUME Types, NEW job \in Job, NEW reserved \in States, SendReserving(job, reserved)
  PROVE  /\ lifecycle' \in States
         /\ ingress' \in Seq(Job) /\ Len(ingress') <= MAX_BATCH
         /\ outcome' \in [Clients -> Outcomes]
  <1>1. CASE HasRoom
    <2>1. Len(ingress) \in Nat /\ Len(ingress) < MAX_BATCH /\ MAX_BATCH \in Nat
      BY <1>1, ServeAssumption DEF HasRoom, Types
    <2>2. ingress' = Append(ingress, job) /\ lifecycle' = reserved
          /\ outcome' = [outcome EXCEPT ![job.id] = "accepted"]
      BY <1>1 DEF SendReserving
    <2>3. lifecycle' \in States /\ outcome' \in [Clients -> Outcomes]
      BY <2>2 DEF Types, Outcomes
    <2>4. ingress' \in Seq(Job) /\ Len(ingress') = Len(ingress) + 1
      BY <2>2, AddedToQueue
    <2> QED
      BY <2>1, <2>3, <2>4
  <1>2. CASE ~HasRoom
    BY <1>2 DEF SendReserving, Types, Outcomes
  <1> QED
    BY <1>1, <1>2

LEMMA TypesOfHttp ==
  ASSUME Types, HandReady, Http
  PROVE  Types' /\ HandReady'
  <1>0. UNCHANGED <<closed, alive, pc, local>>
    BY DEF Http, Enqueue, LifecycleRequest, Disconnect, ExpireHold, Shutdown
  <1>1. HandReady'
    BY <1>0 DEF HandReady, Executing, local
  <1>2. serving' \in BOOLEAN /\ gone' \subseteq Chats
        /\ deadline' \in {"none", "pending", "expired"}
    BY DEF Types, Http, Enqueue, LifecycleRequest, Disconnect, ExpireHold, Shutdown
  <1>3. lifecycle' \in States /\ ingress' \in Seq(Job) /\ Len(ingress') <= MAX_BATCH
        /\ outcome' \in [Clients -> Outcomes]
    <2>1. ASSUME NEW i \in Inference, Enqueue(i)
          PROVE  <1>3!:
      <3>1. Wakes \in States
        BY DEF Wakes, Types, States
      <3> QED
        BY <2>1, <3>1, AdmittedJobs, TypesOfSendReserving DEF Enqueue, Types, Outcomes
    <2>2. ASSUME NEW a \in Admins, NEW kind \in AdminKind, NEW hold \in BOOLEAN,
                 LifecycleRequest(a, kind, hold)
          PROVE  <1>3!:
      <3>1. \A r \in Reservations : r[3] \in States
        BY DEF Reservations, States
      <3> QED
        BY <2>2, <3>1, AdmittedJobs, TypesOfSendReserving
           DEF LifecycleRequest, Types, Outcomes
    <2>3. CASE (\E c \in Chats : Disconnect(c)) \/ ExpireHold \/ Shutdown
      BY <2>3 DEF Disconnect, ExpireHold, Shutdown, Types
    <2> QED
      BY <2>1, <2>2, <2>3 DEF Http
  <1> QED
    BY <1>0, <1>1, <1>2, <1>3 DEF Types, local

LEMMA TypesOfHolding ==
  ASSUME Types, NEW c \in Chats, HoldJob(c)
  PROVE  waiting' \subseteq Chats /\ outcome' \in [Clients -> Outcomes]
  BY ToldTyped DEF HoldJob, Types, Outcomes

LEMMA TypesOfTaking ==
  ASSUME Types, HandReady, ReceiveIdle \/ Fill \/ ReceiveAway
  PROVE  Types' /\ HandReady'
  <1>1. ingress' \in Seq(Job) /\ Len(ingress') <= MAX_BATCH
    <2>1. CASE ingress' = Tail(ingress) /\ ingress # << >>
      BY <2>1, TakenFromQueue, ServeAssumption DEF Types
    <2>2. CASE ingress' = ingress
      BY <2>2 DEF Types
    <2> QED
      BY <2>1, <2>2 DEF ReceiveIdle, Fill, ReceiveAway
  <1>2. CASE ReceiveIdle
    <2>1. waiting' \subseteq Chats /\ outcome' \in [Clients -> Outcomes]
      BY <1>2, TakenFromQueue, AdmittedJobs, TypesOfHolding DEF ReceiveIdle, Types
    <2>2. hand' \in Job \cup {NoJob} /\ held' \in Job \cup {NoJob}
      BY <1>2, TakenFromQueue DEF ReceiveIdle, Types
    <2>3. pc' \in PC /\ jobs_open' \in BOOLEAN /\ HandReady'
      BY <1>2, TakenFromQueue, NoJobAssumption DEF ReceiveIdle, PC, Types, HandReady, Executing
    <2> QED
      BY <1>1, <1>2, <2>1, <2>2, <2>3 DEF ReceiveIdle, outside, Types
  <1>3. CASE Fill
    <2>1. waiting' \subseteq Chats /\ outcome' \in [Clients -> Outcomes]
      <3>1. "busy" \in Outcomes
        BY DEF Outcomes
      <3> QED
        BY <1>3, <3>1, TakenFromQueue, AdmittedJobs, TypesOfHolding, ToldTyped
           DEF Fill, Types
    <2>2. held' \in Job \cup {NoJob}
      BY <1>3, TakenFromQueue DEF Fill, Types
    <2>3. pc' \in PC /\ jobs_open' \in BOOLEAN /\ HandReady'
      BY <1>3 DEF Fill, PC, Types, HandReady, Executing
    <2> QED
      BY <1>1, <1>3, <2>1, <2>2, <2>3 DEF Fill, outside, Types
  <1>4. CASE ReceiveAway
    <2>1. hand' \in Job \cup {NoJob}
      BY <1>4, TakenFromQueue DEF ReceiveAway, Types
    <2>2. pc' \in PC /\ HandReady'
      BY <1>4, TakenFromQueue, NoJobAssumption DEF ReceiveAway, PC, HandReady, Executing
    <2> QED
      BY <1>1, <1>4, <2>1, <2>2 DEF ReceiveAway, outside, Types
  <1> QED
    BY <1>2, <1>3, <1>4

LEMMA TypesOfRounds ==
  ASSUME Types, HandReady,
         Top \/ CancelFails \/ Score \/ Admit \/ Step \/ StepFails
  PROVE  Types' /\ HandReady'
  <1>0. "dropped" \in Outcomes /\ "served" \in Outcomes /\ "failed" \in Outcomes
    BY DEF Outcomes
  <1>1. CASE Top
    <2>1. rounds' \in [Chats -> 0 .. MaxRounds]
      BY <1>1, ServeAssumption DEF Top, Types
    <2>2. outcome' \in [Clients -> Outcomes]
      BY <1>0, <1>1, ToldTyped DEF Top
    <2>3. pc' \in PC /\ HandReady'
      BY <1>1 DEF Top, PC, HandReady, Executing
    <2> QED
      BY <1>1, <2>1, <2>2, <2>3 DEF Top, outside, Types
  <1>2. CASE CancelFails
    BY <1>0, <1>2, ToldTyped DEF CancelFails, local, outside, Types, PC, HandReady, Executing
  <1>3. CASE Score
    BY <1>0, <1>3, ToldTyped DEF Score, outside, Types, PC, HandReady, Executing
  <1>4. CASE Admit
    <2>1. rounds' \in [Chats -> 0 .. MaxRounds]
      BY <1>4 DEF Admit, Types
    <2>2. outcome' \in [Clients -> Outcomes]
      <3>1. PICK left \in [waiting -> 0 .. MaxRounds], bad \in SUBSET waiting :
               outcome' = [i \in Clients |->
                 CASE i \in bad -> IF i \in gone THEN "dropped" ELSE "failed"
                   [] i \in waiting \ bad /\ left[i] = 0 -> "served"
                   [] OTHER -> outcome[i]]
        BY <1>4 DEF Admit
      <3> QED
        BY <1>0, <3>1 DEF Types
    <2>3. pc' \in PC /\ pc' \in {"step", "execute", "top", "unwind"}
      BY <1>4 DEF Admit, AfterAdmission, PC
    <2>5. pc' = "execute" => hand' = held /\ held # NoJob
      BY <1>4 DEF Admit, AfterAdmission
    <2>4. hand' \in Job \cup {NoJob} /\ held' \in Job \cup {NoJob} /\ waiting' \subseteq Chats
      BY <1>4 DEF Admit, Types
    <2> QED
      BY <1>4, <2>1, <2>2, <2>3, <2>4, <2>5 DEF Admit, outside, Types, HandReady, Executing
  <1>5. CASE Step
    <2>1. rounds' \in [Chats -> 0 .. MaxRounds]
      BY <1>5, ServeAssumption DEF Step, Types, Active
    <2>2. outcome' \in [Clients -> Outcomes]
      BY <1>0, <1>5 DEF Step, Types
    <2> QED
      BY <1>5, <2>1, <2>2 DEF Step, outside, Types, HandReady, Executing, PC
  <1>6. CASE StepFails
    BY <1>6 DEF StepFails, local, outside, Types, HandReady, Executing, PC
  <1> QED
    BY <1>1, <1>2, <1>3, <1>4, <1>5, <1>6

LEMMA TypesOfLifecycle ==
  ASSUME Types, HandReady,
         \/ Execute \/ Publish \/ Reply \/ Restore \/ PublishLoaded \/ HandOver
         \/ RestoreFails \/ Withdraw
  PROVE  Types' /\ HandReady'
  <1>0. /\ "dropped" \in Outcomes /\ "served" \in Outcomes /\ "failed" \in Outcomes
        /\ Settled \in States
    BY DEF Outcomes, States, Settled, Types
  <1>1. CASE Execute
    BY <1>1 DEF Execute, outside, Types, PC, HandReady, Executing
  <1>2. CASE Publish
    BY <1>0, <1>2 DEF Publish, DeadlineOf, local, outside, Types, PC, HandReady, Executing
  <1>3. CASE Reply
    <2>1. verdict \in Outcomes
      BY <1>0, <1>3 DEF Reply, Types, HandReady, Executing
    <2> QED
      BY <1>3, <2>1, ToldTyped DEF Reply, outside, Types, PC, HandReady, Executing
  <1>4. CASE Restore
    BY <1>4 DEF Restore, outside, Types, PC, HandReady, Executing
  <1>5. CASE PublishLoaded
    BY <1>0, <1>5 DEF PublishLoaded, local, outside, Types, PC, HandReady, Executing
  <1>6. CASE HandOver
    <2>1. waiting' \subseteq Chats /\ outcome' \in [Clients -> Outcomes]
      <3>1. CASE hand.kind = "Chat" /\ HoldJob(hand.id)
        <4>1. hand \in Job
          BY <1>6 DEF HandOver, HandReady, Executing, Types
        <4> QED
          BY <3>1, <4>1, AdmittedJobs, TypesOfHolding
      <3>2. CASE UNCHANGED waiting /\ \E answer \in {"served", "failed"} :
                    outcome' = Told({hand.id}, answer)
        BY <1>0, <3>2, ToldTyped DEF Types
      <3> QED
        BY <1>6, <3>1, <3>2 DEF HandOver
    <2> QED
      BY <1>6, <2>1 DEF HandOver, outside, Types, PC, HandReady, Executing
  <1>7. CASE RestoreFails
    BY <1>0, <1>7, ToldTyped DEF RestoreFails, outside, Types, PC, HandReady, Executing
  <1>8. CASE Withdraw
    <2>1. ingress' \in Seq(Job) /\ Len(ingress') <= MAX_BATCH
      BY <1>8, ServeAssumption DEF Withdraw
    <2> QED
      BY <1>0, <1>8, <2>1, ToldTyped DEF Withdraw, local, outside, Types, PC, HandReady, Executing
  <1> QED
    BY <1>1, <1>2, <1>3, <1>4, <1>5, <1>6, <1>7, <1>8

LEMMA TypesOfEnding ==
  ASSUME Types, HandReady, FailAll \/ Close \/ Unwind \/ NotAlive \/ Dead
  PROVE  Types' /\ HandReady'
  <1>0. "dropped" \in Outcomes /\ "failed" \in Outcomes /\ "Dead" \in States
    BY DEF Outcomes, States
  <1>1. CASE FailAll
    BY <1>0, <1>1, ToldTyped DEF FailAll, local, outside, Types, PC, HandReady, Executing
  <1>2. ASSUME ingress' = << >>
        PROVE  ingress' \in Seq(Job) /\ Len(ingress') <= MAX_BATCH
    BY <1>2, ServeAssumption
  <1>3. CASE Close
    BY <1>0, <1>2, <1>3, ToldTyped DEF Close, local, outside, Types, PC, HandReady, Executing
  <1>4. CASE Unwind
    <2>1. rounds' \in [Chats -> 0 .. MaxRounds]
      BY <1>4, ServeAssumption DEF Unwind
    <2> QED
      BY <1>0, <1>2, <1>4, <2>1, ToldTyped DEF Unwind, outside, Types, PC, HandReady, Executing
  <1>5. CASE NotAlive
    BY <1>5 DEF NotAlive, local, outside, Types, PC, HandReady, Executing
  <1>6. CASE Dead
    BY <1>0, <1>6 DEF Dead, local, outside, Types, PC, HandReady, Executing
  <1> QED
    BY <1>1, <1>3, <1>4, <1>5, <1>6

LEMMA TypesStep ==
  ASSUME Types, HandReady, [Next]_vars
  PROVE  Types' /\ HandReady'
  <1>1. CASE Http
    BY <1>1, TypesOfHttp
  <1>2. CASE Worker
    BY <1>2, TypesOfTaking, TypesOfRounds, TypesOfLifecycle, TypesOfEnding DEF Worker
  <1>3. CASE UNCHANGED vars
    BY <1>3 DEF vars, Types, HandReady, Executing
  <1> QED
    BY <1>1, <1>2, <1>3 DEF Next, Stopped

-----------------------------------------------------------------------------
(* What the worker has in its hands.                                       *)

LEMMA RoundsTyped ==
  ASSUME Types, Types'
  PROVE  /\ rounds \in [Chats -> Nat] /\ rounds' \in [Chats -> Nat]
         /\ rounds' = rounds => Active' = Active
         /\ Active = {} <=> \A c \in Chats : rounds[c] = 0
         /\ Active' = {} <=> \A c \in Chats : rounds'[c] = 0
  <1>1. rounds \in [Chats -> Nat] /\ rounds' \in [Chats -> Nat]
    BY ServeAssumption DEF Types
  <1> QED
    BY <1>1 DEF Active

LEMMA ControlOfHttp ==
  ASSUME Types, Types', Control, Http
  PROVE  Control'
  <1>1. UNCHANGED <<pc, local>>
    BY DEF Http, Enqueue, LifecycleRequest, Disconnect, ExpireHold, Shutdown
  <1> QED
    BY <1>1, RoundsTyped DEF Control, Quiet, Idle, local, IsAdmin

LEMMA ControlOfRounds ==
  ASSUME Types, Types', HandReady, Control,
         \/ Top \/ CancelFails \/ ReceiveIdle \/ Score \/ Fill
         \/ Admit \/ Step \/ StepFails
  PROVE  Control'
  <1>1. CASE Top
    <2>1. Active = {} => Active' = {}
      BY <1>1, RoundsTyped DEF Top
    <2> QED
      BY <1>1, <2>1 DEF Top, Control, Quiet, Idle
  <1>2. CASE CancelFails
    <2>1. Active # {}
      BY <1>2 DEF CancelFails, Doomed
    <2> QED
      BY <1>2, <2>1, RoundsTyped DEF CancelFails, Control, Quiet, Idle, local
  <1>3. CASE ReceiveIdle
    BY <1>3, RoundsTyped DEF ReceiveIdle, Control, Quiet, Idle
  <1>4. CASE Score
    BY <1>4, RoundsTyped DEF Score, Control, Quiet, Idle
  <1>5. CASE Fill
    BY <1>5, RoundsTyped DEF Fill, Control, Quiet, Idle
  <1>6. CASE Admit
    <2>1. waiting' = {} /\ owner' = owner /\ owner = "loaded"
      BY <1>6 DEF Admit, Control
    <2>2. \/ pc' = "step" /\ hand' = hand /\ held' = held
          \/ /\ Active' = {} /\ pc' = "execute" /\ held # NoJob
             /\ hand' = held /\ held' = NoJob
          \/ Active' = {} /\ pc' \in {"top", "unwind"} /\ hand' = hand /\ held' = NoJob
      BY <1>6 DEF Admit, AfterAdmission
    <2>3. pc = "admit" /\ hand = NoJob
      BY <1>6 DEF Admit, Control
    <2>4. pc' = "execute" => IsAdmin(hand')
      BY <2>2, <2>3 DEF Control
    <2> QED
      BY <2>1, <2>2, <2>3, <2>4 DEF Control, Quiet, Idle
  <1>7. CASE Step
    BY <1>7 DEF Step, Control
  <1>8. CASE StepFails
    BY <1>8, RoundsTyped DEF StepFails, Control, Quiet, Idle, local
  <1> QED
    BY <1>1, <1>2, <1>3, <1>4, <1>5, <1>6, <1>7, <1>8

LEMMA ControlOfLifecycle ==
  ASSUME Types, Types', HandReady, Control,
         \/ ReceiveAway \/ Execute \/ Publish \/ Reply \/ Restore \/ PublishLoaded
         \/ HandOver \/ RestoreFails \/ Withdraw
  PROVE  Control'
  <1> USE RoundsTyped DEF Control, Quiet, Idle
  <1>1. CASE ReceiveAway
    BY <1>1 DEF ReceiveAway, IsAdmin
  <1>2. CASE Execute
    BY <1>2 DEF Execute, IsAdmin
  <1>3. CASE Publish
    BY <1>3 DEF Publish, local, IsAdmin
  <1>4. CASE Reply
    BY <1>4 DEF Reply
  <1>5. CASE Restore
    BY <1>5 DEF Restore
  <1>6. CASE PublishLoaded
    BY <1>6 DEF PublishLoaded, local
  <1>7. CASE HandOver
    BY <1>7 DEF HandOver
  <1>8. CASE RestoreFails
    BY <1>8 DEF RestoreFails
  <1>9. CASE Withdraw
    BY <1>9 DEF Withdraw, local
  <1> QED
    BY <1>1, <1>2, <1>3, <1>4, <1>5, <1>6, <1>7, <1>8, <1>9

LEMMA ControlOfEnding ==
  ASSUME Types, Types', Control, FailAll \/ Close \/ Unwind \/ NotAlive \/ Dead
  PROVE  Control'
  <1> USE RoundsTyped DEF Control, Quiet, Idle
  <1>1. CASE FailAll
    BY <1>1 DEF FailAll, local
  <1>2. CASE Close
    BY <1>2 DEF Close, local
  <1>3. CASE Unwind
    BY <1>3 DEF Unwind
  <1>4. CASE NotAlive
    BY <1>4 DEF NotAlive, local
  <1>5. CASE Dead
    BY <1>5 DEF Dead, local
  <1> QED
    BY <1>1, <1>2, <1>3, <1>4, <1>5

LEMMA ControlStep ==
  ASSUME Types, Types', HandReady, Control, [Next]_vars
  PROVE  Control'
  <1>1. CASE Http
    BY <1>1, ControlOfHttp
  <1>2. CASE Worker
    BY <1>2, ControlOfRounds, ControlOfLifecycle, ControlOfEnding DEF Worker
  <1>3. CASE UNCHANGED vars
    BY <1>3 DEF vars, Control, Quiet, Idle, Active, IsAdmin
  <1> QED
    BY <1>1, <1>2, <1>3 DEF Next, Stopped

-----------------------------------------------------------------------------
(* The bound of a batch.                                                   *)

LEMMA BatchGrows ==
  ASSUME Batch, Cardinality(Active) + Cardinality(waiting) < MAX_BATCH,
         NEW c \in Chats, HoldJob(c), Active' = Active
  PROVE  Batch'
  <1>0. Cardinality(waiting) \in Nat
    BY FS_CardinalityType DEF Batch
  <1>1. IsFiniteSet(waiting \cup {c}) /\ Cardinality(waiting \cup {c}) <= Cardinality(waiting) + 1
    <2>1. IsFiniteSet(waiting)
      BY DEF Batch
    <2>2. /\ IsFiniteSet(waiting \cup {c})
          /\ Cardinality(waiting \cup {c}) =
               IF c \in waiting THEN Cardinality(waiting) ELSE Cardinality(waiting) + 1
      BY <2>1, FS_AddElement, Zenon
    <2> QED
      BY <1>0, <2>2
  <1>2. waiting' = waiting \/ waiting' = waiting \cup {c}
    BY DEF HoldJob
  <1>3. IsFiniteSet(waiting') /\ Cardinality(waiting') <= Cardinality(waiting) + 1
    <2>1. CASE waiting' = waiting
      BY <1>0, <2>1 DEF Batch
    <2>2. CASE waiting' = waiting \cup {c}
      BY <1>1, <2>2
    <2> QED
      BY <1>2, <2>1, <2>2
  <1> QED
    BY <1>3, FS_CardinalityType, ServeAssumption DEF Batch, BatchFits

LEMMA BatchShrinks ==
  ASSUME Batch, Active' \subseteq Active, waiting' = waiting
  PROVE  Batch'
  <1>1. IsFiniteSet(Active') /\ Cardinality(Active') <= Cardinality(Active)
    BY FS_Subset DEF Batch
  <1> QED
    BY <1>1, FS_CardinalityType, ServeAssumption DEF Batch, BatchFits

LEMMA QuietHasRoom ==
  ASSUME Quiet
  PROVE  /\ IsFiniteSet(Active) /\ IsFiniteSet(waiting)
         /\ Cardinality(Active) + Cardinality(waiting) < MAX_BATCH
  BY FS_EmptySet, ServeAssumption DEF Quiet, Idle

LEMMA BatchStep ==
  ASSUME Types, Types', HandReady, Control, Batch, [Next]_vars
  PROVE  Batch'
  <1>1. CASE UNCHANGED <<rounds, waiting>>
    BY <1>1, RoundsTyped DEF Batch, BatchFits
  <1>2. CASE Top
    BY <1>2, BatchShrinks, RoundsTyped DEF Top, Active
  <1>3. CASE Step
    BY <1>3, BatchShrinks, RoundsTyped DEF Step, Active
  <1>4. CASE ReceiveIdle
    BY <1>4, <1>1, RoundsTyped, QuietHasRoom, BatchGrows, TakenFromQueue, AdmittedJobs
       DEF ReceiveIdle, Control
  <1>5. CASE Fill
    BY <1>5, <1>1, RoundsTyped, BatchGrows, TakenFromQueue, AdmittedJobs
       DEF Fill, Filling
  <1>6. CASE HandOver
    <2>1. hand \in Job
      BY <1>6 DEF HandOver, HandReady, Executing, Types
    <2> QED
      BY <1>6, <1>1, <2>1, RoundsTyped, QuietHasRoom, BatchGrows, AdmittedJobs
         DEF HandOver, Control
  <1>7. CASE Admit
    <2>1. Active' \subseteq Active \cup waiting
      BY <1>7, RoundsTyped DEF Admit, Active
    <2>2. /\ IsFiniteSet(Active \cup waiting)
          /\ Cardinality(Active \cup waiting) <= Cardinality(Active) + Cardinality(waiting)
      <3>1. IsFiniteSet(Active) /\ IsFiniteSet(waiting)
        BY DEF Batch
      <3>2. Cardinality(Active) \in Nat /\ Cardinality(waiting) \in Nat
            /\ Cardinality(Active \cap waiting) \in Nat
        BY <3>1, FS_CardinalityType, FS_Intersection
      <3> QED
        <4>1. /\ IsFiniteSet(Active \cup waiting)
              /\ Cardinality(Active \cup waiting) =
                   Cardinality(Active) + Cardinality(waiting)
                     - Cardinality(Active \cap waiting)
          BY <3>1, FS_Union, Zenon
        <4> QED
          BY <3>2, <4>1
    <2>3. IsFiniteSet(Active') /\ Cardinality(Active') <= Cardinality(Active \cup waiting)
      BY <2>1, <2>2, FS_Subset
    <2>4. waiting' = {} /\ IsFiniteSet(waiting') /\ Cardinality(waiting') = 0
      BY <1>7, FS_EmptySet DEF Admit
    <2> QED
      BY <2>2, <2>3, <2>4, FS_CardinalityType, ServeAssumption DEF Batch, BatchFits
  <1>8. CASE Unwind
    <2>1. Active' = {} /\ waiting' = waiting
      BY <1>8, RoundsTyped DEF Unwind
    <2> QED
      BY <2>1, BatchShrinks
  <1> QED
    BY <1>1, <1>2, <1>3, <1>4, <1>5, <1>6, <1>7, <1>8
       DEF Next, Http, Worker, Stopped, vars, local,
           Enqueue, LifecycleRequest, Disconnect, ExpireHold, Shutdown,
           CancelFails, Score, StepFails, ReceiveAway, Execute, Publish, Reply, Restore,
           PublishLoaded, RestoreFails, Withdraw, FailAll, Close, NotAlive, Dead

-----------------------------------------------------------------------------
(* The end of the worker.                                                  *)

LEMMA ReservedIsAlive ==
  /\ Wakes \in Joins => Wakes # "Dead" /\ lifecycle # "Dead"
  /\ \A r \in Reservations : r[1] # "Dead" /\ r[3] # "Dead"
  /\ Settled # "Dead" \/ owner \notin {"loaded", "parked", "none"}
  BY DEF Wakes, Joins, Reservations, Settled

LEMMA EndingOfHttp ==
  ASSUME Types, Control, Ending, Http
  PROVE  Ending'
  <1>1. UNCHANGED <<closed, pc, jobs_open>>
    BY DEF Http, Enqueue, LifecycleRequest, Disconnect, ExpireHold, Shutdown, local
  <1>2. CASE UNCHANGED <<lifecycle, ingress>> /\ (serving' => serving)
    BY <1>1, <1>2 DEF Ending, Types
  <1>3. ASSUME NEW i \in Inference, Enqueue(i)
        PROVE  Ending'
    BY <1>1, <1>2, <1>3, ReservedIsAlive DEF Enqueue, SendReserving, HasRoom, Ending
  <1>4. ASSUME NEW a \in Admins, NEW kind \in AdminKind, NEW hold \in BOOLEAN,
               LifecycleRequest(a, kind, hold)
        PROVE  Ending'
    BY <1>1, <1>2, <1>4, ReservedIsAlive DEF LifecycleRequest, SendReserving, HasRoom, Ending
  <1> QED
    BY <1>2, <1>3, <1>4 DEF Http, Disconnect, ExpireHold, Shutdown

LEMMA EndingOfWorker ==
  ASSUME Types, Control, Ending, Worker
  PROVE  Ending'
  <1> USE DEF Ending, local, outside
  <1>1. CASE Top
    BY <1>1 DEF Top
  <1>2. CASE CancelFails \/ Score \/ Step \/ StepFails \/ Execute \/ Reply \/ Restore
             \/ HandOver \/ RestoreFails \/ FailAll
    BY <1>2 DEF CancelFails, Score, Step, StepFails, Execute, Reply, Restore,
                HandOver, RestoreFails, FailAll
  <1>3. CASE ReceiveIdle \/ Fill \/ ReceiveAway
    <2>1. CASE ReceiveIdle
      BY <2>1 DEF ReceiveIdle
    <2>2. CASE Fill
      BY <2>2 DEF Fill, Filling, Types
    <2>3. CASE ReceiveAway
      BY <2>3 DEF ReceiveAway
    <2> QED
      BY <1>3, <2>1, <2>2, <2>3
  <1>4. CASE Admit
    BY <1>4 DEF Admit, AfterAdmission
  <1>5. CASE Publish \/ PublishLoaded \/ Withdraw
    BY <1>5, ReservedIsAlive DEF Publish, PublishLoaded, Withdraw, Types
  <1>6. CASE Close \/ Unwind \/ NotAlive \/ Dead
    BY <1>6 DEF Close, Unwind, NotAlive, Dead
  <1> QED
    BY <1>1, <1>2, <1>3, <1>4, <1>5, <1>6 DEF Worker

-----------------------------------------------------------------------------
(* The phases of the lifecycle.                                            *)

(* A job is taken from the front of the queue.                             *)
LEMMA PlainTail ==
  ASSUME Types, ingress # << >>, ingress' = Tail(ingress)
  PROVE  /\ PlainUpTo(Len(ingress)) =>
               ~IsAdmin(Head(ingress)) /\ PlainUpTo(Len(ingress))'
         /\ (\A k \in 2 .. Len(ingress) : ~IsAdmin(ingress[k]))
               => PlainUpTo(Len(ingress))'
  <1>1. /\ Len(ingress) \in Nat \ {0} /\ Len(ingress') = Len(ingress) - 1
        /\ Head(ingress) = ingress[1]
        /\ \A k \in 1 .. Len(ingress') : ingress'[k] = ingress[k + 1]
    BY TakenFromQueue
  <1> QED
    BY <1>1 DEF PlainUpTo, IsAdmin

LEMMA ReservedTail ==
  ASSUME Types, ingress # << >>, ingress' = Tail(ingress), NEW kind \in AdminKind,
         ingress[Len(ingress)].kind = kind, PlainUpTo(Len(ingress) - 1)
  PROVE  IF IsAdmin(Head(ingress))
         THEN Head(ingress).kind = kind /\ ingress' = << >>
         ELSE /\ ingress' # << >> /\ ingress'[Len(ingress')].kind = kind
              /\ PlainUpTo(Len(ingress) - 1)'
  <1>1. /\ Len(ingress) \in Nat \ {0} /\ Len(ingress') = Len(ingress) - 1
        /\ Head(ingress) = ingress[1] /\ ingress' \in Seq(Job)
        /\ \A k \in 1 .. Len(ingress') : ingress'[k] = ingress[k + 1]
    BY TakenFromQueue
  <1>2. CASE Len(ingress) = 1
    BY <1>1, <1>2 DEF IsAdmin
  <1>3. CASE Len(ingress) > 1
    <2> DEFINE n == Len(ingress')
    <2>1. ~IsAdmin(Head(ingress)) /\ n \in Nat \ {0} /\ Len(ingress) = n + 1
      BY <1>1, <1>3 DEF PlainUpTo
    <2>2. ingress' # << >>
      BY <2>1
    <2>3. \A k \in 1 .. n : ingress'[k] = ingress[k + 1]
      BY <1>1
    <2> HIDE DEF n
    <2>4. \A k \in 1 .. n - 1 : ingress'[k] = ingress[k + 1] /\ k + 1 \in 1 .. n
      BY <2>1, <2>3
    <2>5. ingress'[n] = ingress[Len(ingress)]
      BY <2>1, <2>3
    <2>6. PlainUpTo(Len(ingress) - 1)'
      BY <2>1, <2>4 DEF PlainUpTo, IsAdmin, n
    <2> QED
      BY <2>1, <2>2, <2>5, <2>6 DEF n
  <1> QED
    BY <1>1, <1>2, <1>3

(* An inference request joins.                                             *)
LEMMA PhasesOfEnqueue ==
  ASSUME Types, Control, Ending, Phases, NEW i \in Inference, Enqueue(i)
  PROVE  Phases'
  <1> DEFINE job == [id |-> i, kind |-> IF i \in Chats THEN "Chat" ELSE "Score",
                     hold |-> FALSE]
  <1>0. UNCHANGED <<closed, pc, owner, hand, held, verdict>>
    BY DEF Enqueue, local
  <1>1. CASE UNCHANGED <<lifecycle, ingress>>
    BY <1>0, <1>1 DEF Phases, PhaseLoaded, PhaseRestoring, PhaseAway, PhaseLeaving,
                      PlainUpTo, IsAdmin
  <1>2. CASE /\ HasRoom /\ Wakes \in Joins /\ lifecycle' = Wakes
             /\ ingress' = Append(ingress, job)
    <2>1. job \in Job /\ ~IsAdmin(job)
      BY AdmittedJobs DEF IsAdmin, AdminKind
    <2>2. /\ ingress' # << >> /\ Len(ingress) \in Nat /\ Len(ingress') = Len(ingress) + 1
          /\ ingress'[Len(ingress) + 1] = job
          /\ \A k \in 1 .. Len(ingress) : ingress'[k] = ingress[k]
      BY <1>2, <2>1, AddedToQueue DEF Types
    <2>3. ~closed /\ serving
      BY <1>2 DEF HasRoom, Enqueue
    <2>4. ASSUME PlainUpTo(Len(ingress)) PROVE PlainUpTo(Len(ingress))'
      BY <2>1, <2>2, <2>4 DEF PlainUpTo, IsAdmin
    <2>5. CASE lifecycle = "Loaded"
      <3>1. lifecycle' = "Loaded"
        BY <1>2, <2>5 DEF Wakes
      <3> QED
        BY <1>0, <2>3, <2>4, <2>5, <3>1 DEF Phases, PhaseLoaded
    <2>6. CASE lifecycle \in {"Unloaded", "Parked"}
      <3>1. /\ lifecycle = "Unloaded" => lifecycle' = "Loading" /\ owner = "none"
            /\ lifecycle = "Parked" => lifecycle' = "Resuming" /\ owner = "parked"
            /\ ingress = << >> /\ pc \in {"top", "recv", "reply"}
        BY <1>2, <2>3, <2>6 DEF Wakes, Phases, PhaseAway, Ending
      <3>2. Len(ingress') = 1 /\ ingress'[1] = job
        BY <2>2, <3>1
      <3> QED
        BY <1>0, <2>1, <2>2, <2>6, <3>1, <3>2 DEF Phases, PhaseRestoring, IsAdmin
    <2>7. CASE lifecycle \in {"Loading", "Resuming"}
      <3>1. lifecycle' = lifecycle
        BY <1>2, <2>7 DEF Wakes
      <3>2. ASSUME NEW from, NEW kind, PhaseRestoring(from, kind)
            PROVE  PhaseRestoring(from, kind)'
        <4>1. CASE ingress # << >> /\ \A k \in 2 .. Len(ingress) : ~IsAdmin(ingress[k])
          <5>1. Len(ingress) >= 1
            BY <2>2, <4>1 DEF Types
          <5>2. \A k \in 2 .. Len(ingress') : ~IsAdmin(ingress'[k])
            BY <2>1, <2>2, <4>1, <5>1
          <5>3. ingress'[1] = ingress[1]
            BY <2>2, <5>1
          <5> QED
            BY <1>0, <2>2, <2>4, <3>2, <5>2, <5>3 DEF PhaseRestoring, IsAdmin
        <4>2. CASE PlainUpTo(Len(ingress)) /\ pc \notin {"top", "recv", "reply"}
          BY <1>0, <2>4, <3>2, <4>2 DEF PhaseRestoring, IsAdmin
        <4> QED
          BY <3>2, <4>1, <4>2 DEF PhaseRestoring
      <3> QED
        BY <1>0, <2>3, <2>7, <3>1, <3>2 DEF Phases
    <2> QED
      BY <1>2, <2>5, <2>6, <2>7 DEF Wakes, Joins
  <1> QED
    BY <1>1, <1>2 DEF Enqueue, SendReserving

(* A lifecycle request reserves its transition.                            *)
LEMMA PhasesOfReservation ==
  ASSUME Types, Control, Ending, Phases, NEW a \in Admins, NEW kind \in AdminKind,
         NEW hold \in BOOLEAN, LifecycleRequest(a, kind, hold)
  PROVE  Phases'
  <1> DEFINE job == [id |-> a, kind |-> kind, hold |-> hold]
  <1>0. UNCHANGED <<closed, pc, owner, hand, held, verdict>>
    BY DEF LifecycleRequest, local
  <1>1. CASE UNCHANGED <<lifecycle, ingress>>
    BY <1>0, <1>1 DEF Phases, PhaseLoaded, PhaseRestoring, PhaseAway, PhaseLeaving,
                      PlainUpTo, IsAdmin
  <1>2. ASSUME NEW r \in Reservations, HasRoom, r[1] = lifecycle, r[2] = kind,
               lifecycle' = r[3], ingress' = Append(ingress, job)
        PROVE  Phases'
    <2>1. job \in Job
      BY AdmittedJobs
    <2>2. /\ ingress' # << >> /\ Len(ingress) \in Nat /\ Len(ingress') = Len(ingress) + 1
          /\ ingress'[Len(ingress')] = job
          /\ \A k \in 1 .. Len(ingress) : ingress'[k] = ingress[k]
      BY <1>2, <2>1, AddedToQueue DEF Types
    <2>3. ~closed /\ serving
      BY <1>2 DEF HasRoom, LifecycleRequest
    <2>4. \/ lifecycle = "Loaded" /\ kind = "Unload" /\ lifecycle' = "Unloading"
          \/ lifecycle = "Loaded" /\ kind = "Park" /\ lifecycle' = "Parking"
          \/ lifecycle = "Parked" /\ kind = "Unload" /\ lifecycle' = "Unloading"
          \/ lifecycle = "Parked" /\ kind = "Park" /\ lifecycle' = "Parking"
          \/ lifecycle = "Parked" /\ kind = "Resume" /\ lifecycle' = "Resuming"
          \/ lifecycle = "Unloaded" /\ kind = "Load" /\ lifecycle' = "Loading"
      BY <1>2 DEF Reservations
    <2>5. CASE lifecycle = "Loaded"
      <3>1. PhaseLoaded
        BY <2>3, <2>5 DEF Phases
      <3>2. PlainUpTo(Len(ingress) - 1)'
        BY <2>2, <3>1 DEF PhaseLoaded, PlainUpTo, IsAdmin
      <3>3. pc \notin {"execute", "publish", "restored", "restore", "withdraw"}
        BY <3>1 DEF PhaseLoaded, Control
      <3> QED
        BY <1>0, <2>2, <2>4, <2>5, <3>1, <3>2, <3>3 DEF Phases, PhaseLoaded, PhaseLeaving
    <2>6. CASE lifecycle \in {"Parked", "Unloaded"}
      <3>1. /\ ingress = << >> /\ pc \in {"top", "recv", "reply"}
            /\ lifecycle = "Parked" => owner = "parked"
            /\ lifecycle = "Unloaded" => owner = "none"
        BY <2>3, <2>6 DEF Phases, PhaseAway, Ending
      <3>2. Len(ingress') = 1 /\ ingress'[1] = job /\ PlainUpTo(Len(ingress) - 1)'
        BY <2>2, <3>1 DEF PlainUpTo
      <3>3. held = NoJob
        BY <3>1, <2>6 DEF Control, Quiet
      <3> QED
        BY <1>0, <2>2, <2>4, <2>6, <3>1, <3>2, <3>3 DEF Phases, PhaseRestoring, PhaseLeaving
    <2> QED
      BY <2>4, <2>5, <2>6
  <1> QED
    BY <1>1, <1>2 DEF LifecycleRequest, SendReserving

(* The steps of the worker with the model loaded.                          *)
LEMMA PhasesOfRounds ==
  ASSUME Types, Types', HandReady, Control, Control', Ending, Ending', Phases,
         \/ Top \/ CancelFails \/ ReceiveIdle \/ Score \/ Fill
         \/ Admit \/ Step \/ StepFails
  PROVE  Phases'
  <1> USE DEF Phases
  <1>0. closed' = closed /\ lifecycle' = lifecycle
    BY DEF Top, CancelFails, ReceiveIdle, Score, Fill, Admit, Step, StepFails, outside
  <1>1. SUFFICES ASSUME ~closed PROVE Phases'
    BY <1>0
  (* The queue and what is held stay as they are.                          *)
  <1>2. ASSUME UNCHANGED <<ingress, held, owner>>,
               pc \notin {"execute", "publish", "restored", "restore", "withdraw"},
               pc' \notin {"execute", "publish", "restored", "restore", "withdraw"},
               owner = "loaded" \/ pc' \in {"recv", "unwind"}, pc' = "unwind" => ~jobs_open
        PROVE  Phases'
    <2>1. PlainUpTo(Len(ingress))' <=> PlainUpTo(Len(ingress))
      BY <1>2 DEF PlainUpTo, IsAdmin
    <2>2. PlainUpTo(Len(ingress) - 1)' <=> PlainUpTo(Len(ingress) - 1)
      BY <1>2 DEF PlainUpTo, IsAdmin
    <2>3. lifecycle = "Loaded" => PhaseLoaded'
      BY <1>1, <1>2, <2>1 DEF PhaseLoaded
    <2>4. ASSUME NEW from \in {"none", "parked"}, NEW kind, PhaseRestoring(from, kind)
          PROVE  PhaseRestoring(from, kind)'
      BY <1>1, <1>2, <2>1, <2>4 DEF PhaseRestoring, IsAdmin, Ending
    <2>5. ASSUME NEW what \in {"none", "parked"}, PhaseAway(what)
          PROVE  PhaseAway(what)'
      BY <1>2, <2>5 DEF PhaseAway
    <2>6. ASSUME NEW kind, PhaseLeaving(kind)
          PROVE  PhaseLeaving(kind)'
      BY <1>1, <1>2, <2>2, <2>6 DEF PhaseLeaving, Ending
    <2> QED
      BY <1>0, <1>1, <2>3, <2>4, <2>5, <2>6
  (* A job is taken with the model loaded.                                 *)
  <1>3. ASSUME ingress # << >>, ingress' = Tail(ingress), owner = "loaded", held = NoJob,
               pc \notin {"execute", "publish", "restored"}, owner' = owner,
               pc' \notin {"execute", "publish", "restored", "restore", "withdraw"},
               held' = IF IsAdmin(Head(ingress)) THEN Head(ingress) ELSE NoJob
        PROVE  Phases'
    <2>1. lifecycle \notin {"Loading", "Resuming", "Parked", "Unloaded"}
      BY <1>1, <1>3 DEF PhaseRestoring, PhaseAway
    <2>2. CASE lifecycle = "Loaded"
      BY <1>0, <1>1, <1>3, <2>2, PlainTail DEF PhaseLoaded
    <2>3. ASSUME NEW kind \in AdminKind, PhaseLeaving(kind)
          PROVE  PhaseLeaving(kind)'
      <3>1. ingress[Len(ingress)].kind = kind /\ PlainUpTo(Len(ingress) - 1)
        BY <1>3, <2>3 DEF PhaseLeaving
      <3>2. CASE IsAdmin(Head(ingress))
        <4>1. Head(ingress).kind = kind /\ ingress' = << >> /\ held' # NoJob
          BY <1>3, <3>1, <3>2, ReservedTail, TakenFromQueue, NoJobAssumption
        <4> QED
          BY <1>3, <3>2, <4>1 DEF PhaseLeaving
      <3>3. CASE ~IsAdmin(Head(ingress))
        BY <1>3, <3>1, <3>3, ReservedTail DEF PhaseLeaving
      <3> QED
        BY <3>2, <3>3
    <2> QED
      BY <1>0, <1>1, <2>1, <2>2, <2>3 DEF AdminKind
  <1>4. CASE Top
    BY <1>4, <1>2 DEF Top, Control
  <1>5. CASE CancelFails \/ StepFails
    BY <1>5, <1>2 DEF CancelFails, StepFails, local, Control
  <1>6. CASE ReceiveIdle
    <2>1. owner = "loaded" /\ held = NoJob /\ owner' = owner /\ pc = "recv"
          /\ pc' \in {"fill", "score"}
      BY <1>6 DEF ReceiveIdle, Control, Quiet
    <2>2. CASE ingress = << >>
      BY <1>2, <1>6, <2>1, <2>2 DEF ReceiveIdle
    <2>3. CASE ingress # << >>
      <3>1. ingress' = Tail(ingress)
            /\ held' = IF IsAdmin(Head(ingress)) THEN Head(ingress) ELSE NoJob
        BY <1>6, <2>1, <2>3 DEF ReceiveIdle, IsAdmin, AdminKind
      <3> QED
        BY <1>3, <2>1, <2>3, <3>1
    <2> QED
      BY <2>2, <2>3
  <1>7. CASE Score \/ Step
    BY <1>7, <1>2 DEF Score, Step, Control
  <1>8. CASE Fill
    <2>1. owner = "loaded" /\ owner' = owner /\ pc = "fill" /\ pc' \in {"fill", "admit"}
      BY <1>8 DEF Fill, Control
    <2>2. CASE Filling /\ ingress # << >>
      <3>1. /\ ingress' = Tail(ingress) /\ held = NoJob
            /\ held' = IF IsAdmin(Head(ingress)) THEN Head(ingress) ELSE NoJob
        BY <1>8, <2>2 DEF Fill, Filling, IsAdmin, AdminKind
      <3> QED
        BY <1>3, <2>1, <2>2, <3>1
    <2>3. CASE ~(Filling /\ ingress # << >>)
      BY <1>2, <1>8, <2>1, <2>3 DEF Fill
    <2> QED
      BY <2>2, <2>3
  <1>9. CASE Admit
    <2>1. owner = "loaded" /\ owner' = owner /\ pc = "admit" /\ ingress' = ingress
      BY <1>9 DEF Admit, Control
    <2>2. CASE pc' = "execute"
      <3>1. held # NoJob /\ hand' = held
        BY <1>9, <2>2 DEF Admit, AfterAdmission
      <3> QED
        BY <1>0, <1>1, <2>1, <2>2, <3>1 DEF PhaseLoaded, PhaseRestoring, PhaseAway, PhaseLeaving
    <2>3. CASE pc' # "execute"
      BY <1>2, <1>9, <2>1, <2>3 DEF Admit, AfterAdmission
    <2> QED
      BY <2>2, <2>3
  <1> QED
    BY <1>4, <1>5, <1>6, <1>7, <1>8, <1>9

(* The steps of the worker with the model away, and its lifecycle jobs.    *)
LEMMA PhasesOfLifecycle ==
  ASSUME Types, Types', HandReady, Control, Control', Ending, Ending', Phases,
         \/ ReceiveAway \/ Execute \/ Publish \/ Reply \/ Restore \/ PublishLoaded
         \/ HandOver \/ RestoreFails \/ Withdraw
  PROVE  Phases'
  <1>0. SUFFICES ASSUME ~closed PROVE Phases'
    BY DEF Phases, ReceiveAway, Execute, Publish, Reply, Restore, PublishLoaded,
           HandOver, RestoreFails, Withdraw, outside, local
  <1>1. CASE ReceiveAway
    <2>1. /\ lifecycle' = lifecycle /\ owner' = owner /\ held' = held /\ pc = "recv"
          /\ held = NoJob /\ owner # "loaded" /\ closed' = closed
      BY <1>1 DEF ReceiveAway, outside, Control, Quiet
    <2>2. CASE ingress = << >>
      BY <1>0, <1>1, <2>1, <2>2 DEF ReceiveAway, Phases, PhaseLoaded, PhaseRestoring,
                                   PhaseAway, PhaseLeaving, Ending
    <2>3. CASE ingress # << >>
      <3>1. /\ ingress' = Tail(ingress) /\ hand' = Head(ingress) /\ Head(ingress) = ingress[1]
            /\ pc' = IF owner = "parked" /\ IsAdmin(hand') /\ hand'.kind # "Resume"
                     THEN "execute" ELSE "restore"
            /\ IsAdmin(hand') <=> IsAdmin(Head(ingress))
        BY <1>1, <2>3, TakenFromQueue DEF ReceiveAway, IsAdmin
      <3>2. lifecycle \notin {"Loaded", "Parked", "Unloaded"}
        BY <1>0, <2>1, <2>3 DEF Phases, PhaseLoaded, PhaseAway
      <3>3. ASSUME NEW from \in {"none", "parked"}, NEW kind \in {"Load", "Resume"},
                   kind = "Resume" <=> from = "parked", PhaseRestoring(from, kind)
            PROVE  PhaseRestoring(from, kind)'
        <4>1. /\ owner = from /\ PlainUpTo(Len(ingress))'
              /\ IsAdmin(hand') => hand'.kind = kind
          BY <2>1, <2>3, <3>1, <3>3, PlainTail DEF PhaseRestoring
        <4>2. pc' = "restore"
          BY <3>1, <3>3, <4>1
        <4> QED
          BY <2>1, <4>1, <4>2 DEF PhaseRestoring
      <3>4. ASSUME NEW kind \in {"Unload", "Park"}, PhaseLeaving(kind)
            PROVE  PhaseLeaving(kind)'
        <4>1. Len(ingress) = 1 /\ owner = "parked" /\ ingress[1].kind = kind
          BY <2>1, <2>3, <3>4 DEF PhaseLeaving
        <4>2. ingress' = << >> /\ IsAdmin(hand') /\ hand'.kind = kind
          BY <2>3, <3>1, <3>4, <4>1, TakenFromQueue DEF IsAdmin, AdminKind
        <4>3. pc' = "execute"
          BY <3>1, <4>1, <4>2
        <4> QED
          BY <2>1, <4>1, <4>2, <4>3 DEF PhaseLeaving
      <3> QED
        BY <1>0, <2>1, <3>2, <3>3, <3>4 DEF Phases
    <2> QED
      BY <2>2, <2>3
  <1>2. CASE Execute
    <2>1. /\ lifecycle' = lifecycle /\ pc = "execute" /\ pc' = "publish" /\ ingress' = ingress
          /\ held' = held /\ hand' = hand /\ held = NoJob /\ closed' = closed
      BY <1>2 DEF Execute, outside, Control, Quiet
    <2>2. lifecycle \in {"Unloading", "Parking", "Dead"}
      BY <1>0, <2>1 DEF Phases, PhaseLoaded, PhaseRestoring, PhaseAway, Types, States
    <2>3. ASSUME NEW kind \in {"Unload", "Park"}, PhaseLeaving(kind)
          PROVE  PhaseLeaving(kind)'
      <3>1. ingress = << >> /\ hand.kind = kind /\ owner \in {"loaded", "parked"}
        BY <2>1, <2>3 DEF PhaseLeaving
      <3>2. owner' = IF kind = "Unload" THEN "none"
                     ELSE IF verdict' = "served" THEN "parked" ELSE "loaded"
        BY <1>2, <3>1 DEF Execute
      <3> QED
        BY <2>1, <3>1, <3>2 DEF PhaseLeaving
    <2> QED
      BY <1>0, <2>1, <2>2, <2>3 DEF Phases
  <1>3. CASE Publish
    <2>1. /\ pc = "publish" /\ pc' = "reply" /\ lifecycle' = Settled /\ ingress' = ingress
          /\ held' = held /\ hand' = hand /\ owner' = owner /\ held = NoJob /\ closed' = closed
      BY <1>3 DEF Publish, local, outside, Control, Quiet
    <2>2. ingress = << >> /\ owner \in {"none", "parked", "loaded"}
      BY <1>0, <2>1 DEF Phases, PhaseLoaded, PhaseRestoring, PhaseAway, PhaseLeaving,
                        Types, States, Ending
    <2> QED
      BY <2>1, <2>2 DEF Settled, Phases, PhaseLoaded, PhaseAway, PlainUpTo
  <1>4. CASE Reply
    <2>1. /\ pc = "reply" /\ pc' = "top" /\ UNCHANGED <<lifecycle, ingress, owner, held, closed>>
          /\ held = NoJob
      BY <1>4 DEF Reply, outside, Control, Quiet
    <2> QED
      BY <1>0, <2>1 DEF Phases, PhaseLoaded, PhaseRestoring, PhaseAway, PhaseLeaving,
                        PlainUpTo, IsAdmin
  <1>5. CASE Restore
    <2>1. /\ pc = "restore" /\ pc' = "restored" /\ UNCHANGED <<lifecycle, ingress, held, closed>>
          /\ held = NoJob /\ owner # "loaded"
      BY <1>5 DEF Restore, outside, Control, Quiet
    <2> QED
      BY <1>0, <2>1 DEF Phases, PhaseLoaded, PhaseRestoring, PhaseAway, PhaseLeaving,
                        PlainUpTo, IsAdmin
  <1>6. CASE PublishLoaded
    <2>1. /\ pc = "restored" /\ pc' = "handover" /\ lifecycle' = Settled
          /\ UNCHANGED <<ingress, held, closed, owner>>
          /\ held = NoJob /\ owner = "loaded"
      BY <1>6 DEF PublishLoaded, local, outside, Control, Quiet
    <2>2. PlainUpTo(Len(ingress))
      BY <1>0, <2>1 DEF Phases, PhaseLoaded, PhaseRestoring, PhaseAway, PhaseLeaving,
                        Types, States, Ending
    <2> QED
      BY <2>1, <2>2 DEF Settled, Phases, PhaseLoaded, PlainUpTo, IsAdmin
  <1>7. CASE HandOver
    <2>1. /\ pc = "handover" /\ pc' = "top" /\ UNCHANGED <<lifecycle, ingress, owner, held, closed>>
          /\ held = NoJob /\ owner = "loaded"
      BY <1>7 DEF HandOver, outside, Control, Quiet
    <2> QED
      BY <1>0, <2>1 DEF Phases, PhaseLoaded, PhaseRestoring, PhaseAway, PhaseLeaving,
                        PlainUpTo, IsAdmin
  <1>8. CASE RestoreFails
    <2>1. /\ pc = "restore" /\ pc' = "withdraw"
          /\ UNCHANGED <<lifecycle, ingress, held, closed, owner>>
          /\ held = NoJob /\ owner # "loaded" /\ hand' \in {hand, NoJob}
      BY <1>8 DEF RestoreFails, outside, Control, Quiet
    <2> QED
      BY <1>0, <2>1 DEF Phases, PhaseLoaded, PhaseRestoring, PhaseAway, PhaseLeaving,
                        PlainUpTo, IsAdmin
  <1>9. CASE Withdraw
    <2>1. /\ pc = "withdraw" /\ pc' \in {"top", "reply"} /\ lifecycle' = Settled
          /\ ingress' = << >> /\ owner' = owner /\ owner \in {"none", "parked"}
      BY <1>9 DEF Withdraw, local, Control, Types
    <2> QED
      BY <2>1 DEF Settled, Phases, PhaseAway
  <1> QED
    BY <1>1, <1>2, <1>3, <1>4, <1>5, <1>6, <1>7, <1>8, <1>9

LEMMA PhasesOfEnding ==
  ASSUME Types, Control, Ending, Phases,
         FailAll \/ Close \/ Unwind \/ NotAlive \/ Dead
  PROVE  Phases'
  <1>1. CASE FailAll
    <2>1. /\ pc = "fail_all" /\ pc' = "close"
          /\ UNCHANGED <<lifecycle, ingress, held, closed, owner>> /\ owner = "loaded"
      BY <1>1 DEF FailAll, local, outside, Control
    <2> QED
      BY <2>1 DEF Phases, PhaseLoaded, PhaseRestoring, PhaseAway, PhaseLeaving,
                  PlainUpTo, IsAdmin
  <1>2. CASE Close \/ Unwind \/ NotAlive \/ Dead
    <2>1. closed'
      BY <1>2 DEF Close, Unwind, NotAlive, Dead, Ending, outside
    <2> QED
      BY <2>1 DEF Phases
  <1> QED
    BY <1>1, <1>2

LEMMA PhasesStep ==
  ASSUME Types, Types', HandReady, Control, Control', Ending, Ending', Phases, [Next]_vars
  PROVE  Phases'
  <1>1. CASE UNCHANGED vars \/ UNCHANGED <<lifecycle, ingress, closed, pc, local>>
    BY <1>1 DEF vars, local, Phases, PhaseLoaded, PhaseRestoring, PhaseAway, PhaseLeaving,
                PlainUpTo, IsAdmin
  <1>2. CASE Http
    BY <1>1, <1>2, PhasesOfEnqueue, PhasesOfReservation
       DEF Http, Disconnect, ExpireHold, Shutdown
  <1>3. CASE Worker
    BY <1>3, PhasesOfRounds, PhasesOfLifecycle, PhasesOfEnding DEF Worker
  <1> QED
    BY <1>1, <1>2, <1>3 DEF Next, Stopped

-----------------------------------------------------------------------------
(* The minimum park.                                                       *)

LEMMA ClosedForGood ==
  ASSUME [Next]_vars, closed
  PROVE  closed'
  <1>1. CASE Http
    BY <1>1 DEF Http, Enqueue, LifecycleRequest, Disconnect, ExpireHold, Shutdown
  <1>2. CASE Worker
    BY <1>2 DEF Worker, outside, Top, CancelFails, ReceiveIdle, Score, Fill, Admit, Step,
                StepFails, ReceiveAway, Execute, Publish, Reply, Restore, PublishLoaded,
                HandOver, RestoreFails, Withdraw, FailAll, Close, Unwind, NotAlive, Dead
  <1> QED
    BY <1>1, <1>2 DEF Next, Stopped, vars

LEMMA HoldStep ==
  ASSUME Types, Types', HandReady, Control, Ending, Phases, Phases', HoldIsParked,
         [Next]_vars
  PROVE  HoldIsParked'
  <1>0. SUFFICES ASSUME ~closed, ~closed', deadline' = "pending"
                 PROVE  HoldIsParked'
    BY ClosedForGood DEF HoldIsParked
  <1>1. CASE UNCHANGED <<lifecycle, deadline, owner>>
    BY <1>0, <1>1 DEF HoldIsParked
  <1>2. ASSUME NEW i \in Inference, Enqueue(i)
        PROVE  HoldIsParked'
    <2>1. deadline = "pending" /\ owner' = owner
      BY <1>0, <1>2 DEF Enqueue, local
    <2>2. lifecycle \in {"Parked", "Parking"} /\ (lifecycle = "Parking" => owner = "parked")
      BY <1>0, <2>1 DEF HoldIsParked
    <2>3. ForcedPark \/ Wakes \notin Joins
      BY <2>1, <2>2 DEF ForcedPark, Wakes, Joins
    <2>4. lifecycle' = lifecycle
      BY <1>2, <2>3 DEF Enqueue
    <2> QED
      BY <2>1, <2>2, <2>4 DEF HoldIsParked
  <1>3. ASSUME NEW a \in Admins, NEW kind \in AdminKind, NEW hold \in BOOLEAN,
               LifecycleRequest(a, kind, hold)
        PROVE  HoldIsParked'
    <2>1. deadline = "pending" /\ owner' = owner
      BY <1>0, <1>3 DEF LifecycleRequest, local
    <2>2. lifecycle \in {"Parked", "Parking"} /\ (lifecycle = "Parking" => owner = "parked")
      BY <1>0, <2>1 DEF HoldIsParked
    <2>3. CASE lifecycle' = lifecycle
      BY <2>1, <2>2, <2>3 DEF HoldIsParked
    <2>4. CASE lifecycle' # lifecycle
      <3>1. PICK r \in Reservations :
               /\ r[1] = lifecycle /\ r[2] = kind
               /\ SendReserving([id |-> a, kind |-> kind, hold |-> hold], r[3])
               /\ deadline' = IF HasRoom /\ lifecycle = "Parked" /\ kind \in EndsHold
                              THEN "none" ELSE deadline
        BY <1>3, <2>4 DEF LifecycleRequest
      <3>2. HasRoom /\ lifecycle' = r[3]
        BY <2>4, <3>1 DEF SendReserving
      <3>3. lifecycle = "Parked" /\ kind = "Park" /\ r[3] = "Parking"
        BY <1>0, <2>2, <3>1, <3>2 DEF Reservations, EndsHold
      <3>4. owner = "parked"
        BY <1>0, <3>3 DEF Phases, PhaseAway
      <3> QED
        BY <2>1, <3>2, <3>3, <3>4 DEF HoldIsParked
    <2> QED
      BY <2>3, <2>4
  <1>4. CASE Execute
    <2>1. deadline = "pending" /\ lifecycle' = lifecycle
      BY <1>0, <1>4 DEF Execute
    <2>2. CASE lifecycle = "Parked"
      BY <2>1, <2>2 DEF HoldIsParked
    <2>3. CASE lifecycle = "Parking" /\ owner = "parked"
      <3>1. hand.kind = "Park"
        BY <1>0, <1>4, <2>3 DEF Phases, PhaseLeaving, Execute
      <3>2. owner' = "parked"
        BY <1>4, <2>3, <3>1 DEF Execute
      <3> QED
        BY <2>1, <2>3, <3>2 DEF HoldIsParked
    <2> QED
      BY <1>0, <2>1, <2>2, <2>3 DEF HoldIsParked
  <1>5. CASE Publish
    <2>1. lifecycle' = Settled /\ owner' = owner /\ pc = "publish"
      BY <1>5 DEF Publish, local
    <2>2. owner = "parked"
      <3>1. CASE hand.kind = "Park" /\ verdict = "served"
        BY <1>0, <2>1, <3>1 DEF Phases, PhaseLoaded, PhaseRestoring, PhaseAway, PhaseLeaving,
                               Types, States, Ending, Control, Quiet
      <3>2. CASE ~(hand.kind = "Park" /\ verdict = "served")
        <4>1. deadline = "pending"
          BY <1>0, <1>5, <3>2 DEF Publish
        <4>2. lifecycle = "Parking" /\ owner = "parked"
          BY <1>0, <2>1, <4>1 DEF HoldIsParked, Phases, PhaseAway
        <4> QED
          BY <4>2
      <3> QED
        BY <3>1, <3>2
    <2> QED
      BY <2>1, <2>2 DEF Settled, HoldIsParked
  <1>6. CASE Restore \/ PublishLoaded \/ Withdraw
    <2>1. deadline = "pending" /\ pc \in {"restore", "restored", "withdraw"}
      BY <1>0, <1>6 DEF Restore, PublishLoaded, Withdraw
    <2>2. lifecycle \notin {"Parked", "Parking"}
      BY <1>0, <2>1 DEF Phases, PhaseAway, PhaseLeaving, Control, Quiet
    <2> QED
      BY <1>0, <2>1, <2>2 DEF HoldIsParked
  <1>7. CASE Dead \/ Unwind
    BY <1>0, <1>7 DEF Dead, Unwind, Ending, outside
  <1>8. ASSUME ExpireHold
        PROVE  HoldIsParked'
    BY <1>0, <1>8 DEF ExpireHold
  <1>9. ASSUME (\E c \in Chats : Disconnect(c)) \/ Shutdown
        PROVE  HoldIsParked'
    BY <1>1, <1>9 DEF Disconnect, Shutdown, local
  <1>10. CASE Worker
    BY <1>1, <1>4, <1>5, <1>6, <1>7, <1>10
       DEF Worker, local, Top, CancelFails, ReceiveIdle, Score, Fill, Admit, Step,
           StepFails, ReceiveAway, Reply, HandOver, RestoreFails, FailAll, Close, NotAlive
  <1> QED
    BY <1>1, <1>2, <1>3, <1>8, <1>9, <1>10 DEF Next, Http, Stopped, vars

-----------------------------------------------------------------------------
(* No accepted job is lost.                                                *)

LEMMA QueuedTail ==
  ASSUME Types, ingress # << >>, ingress' = Tail(ingress)
  PROVE  Queued \subseteq Queued' \cup {Head(ingress).id}
  <1> SUFFICES ASSUME NEW k \in 1 .. Len(ingress), k # 1
               PROVE  ingress[k].id \in Queued'
    BY TakenFromQueue DEF Queued
  <1>1. k - 1 \in 1 .. Len(ingress') /\ ingress'[k - 1] = ingress[k]
    BY TakenFromQueue
  <1> QED
    BY <1>1 DEF Queued

LEMMA QueuedAppend ==
  ASSUME Types, NEW job \in Job, ingress' = Append(ingress, job)
  PROVE  Queued \cup {job.id} \subseteq Queued'
  <1>1. Len(ingress) \in Nat /\ Len(ingress') = Len(ingress) + 1
    BY AddedToQueue DEF Types
  <1>2. \A k \in 1 .. Len(ingress) : k \in 1 .. Len(ingress') /\ ingress'[k] = ingress[k]
    BY <1>1, AddedToQueue
  <1>3. Len(ingress') \in 1 .. Len(ingress') /\ ingress'[Len(ingress')] = job
    BY <1>1, AddedToQueue
  <1> QED
    BY <1>2, <1>3 DEF Queued

LEMMA ToldIsSettled ==
  ASSUME Types, NEW S, NEW answer, answer # "accepted", NEW i \in Clients,
         Told(S, answer)[i] = "accepted"
  PROVE  outcome[i] = "accepted" /\ i \notin S
  BY DEF Told, Types

LEMMA HeldIsWaiting ==
  ASSUME Types, NEW c \in Chats, HoldJob(c), NEW i \in Clients, outcome'[i] = "accepted"
  PROVE  outcome[i] = "accepted" /\ waiting \subseteq waiting' /\ (i = c => i \in waiting')
  BY ToldIsSettled DEF HoldJob

LEMMA AccountedOfHttp ==
  ASSUME Types, Types', Accounted, Http
  PROVE  Accounted'
  <1>1. UNCHANGED <<waiting, held, hand, rounds>>
    BY DEF Http, Enqueue, LifecycleRequest, Disconnect, ExpireHold, Shutdown, local
  <1>2. Active' = Active /\ JobIds' = JobIds
    BY <1>1, RoundsTyped DEF JobIds
  <1>3. CASE UNCHANGED <<outcome, ingress>>
    BY <1>1, <1>2, <1>3 DEF Accounted, Queued
  <1>4. ASSUME NEW job \in Job, NEW reserved, SendReserving(job, reserved)
        PROVE  Accounted'
    <2>1. CASE HasRoom
      <3>1. ingress' = Append(ingress, job) /\ outcome' = [outcome EXCEPT ![job.id] = "accepted"]
        BY <1>4, <2>1 DEF SendReserving
      <3>2. Queued \cup {job.id} \subseteq Queued'
        BY <3>1, QueuedAppend
      <3> QED
        BY <1>1, <1>2, <3>1, <3>2 DEF Accounted, Types
    <2>2. CASE ~HasRoom
      <3>1. ingress' = ingress /\ outcome' = [outcome EXCEPT ![job.id] = "refused"]
        BY <1>4, <2>2 DEF SendReserving
      <3>2. Queued' = Queued
        BY <3>1 DEF Queued
      <3> QED
        BY <1>1, <1>2, <3>1, <3>2 DEF Accounted, Types
    <2> QED
      BY <2>1, <2>2
  <1>5. ASSUME NEW i \in Clients, NEW answer, answer # "accepted", ingress' = ingress,
               outcome' = [outcome EXCEPT ![i] = answer]
        PROVE  Accounted'
    <2>1. Queued' = Queued
      BY <1>5 DEF Queued
    <2> QED
      BY <1>1, <1>2, <1>5, <2>1 DEF Accounted, Types
  <1>6. ASSUME NEW i \in Inference, Enqueue(i)
        PROVE  Accounted'
    BY <1>4, <1>5, <1>6, AdmittedJobs DEF Enqueue, Clients
  <1>7. ASSUME NEW a \in Admins, NEW kind \in AdminKind, NEW hold \in BOOLEAN,
               LifecycleRequest(a, kind, hold)
        PROVE  Accounted'
    BY <1>4, <1>5, <1>7, AdmittedJobs DEF LifecycleRequest, Clients
  <1> QED
    BY <1>3, <1>6, <1>7 DEF Http, Disconnect, ExpireHold, Shutdown

LEMMA AccountedOfRounds ==
  ASSUME Types, Types', HandReady, Control, Accounted,
         \/ Top \/ CancelFails \/ ReceiveIdle \/ Score \/ Fill
         \/ Admit \/ Step \/ StepFails
  PROVE  Accounted'
  <1> SUFFICES ASSUME NEW i \in Clients, outcome'[i] = "accepted"
               PROVE  i \in Queued' \cup waiting' \cup Active' \cup JobIds'
    BY DEF Accounted
  <1>0. outcome[i] = "accepted" => i \in Queued \cup waiting \cup Active \cup JobIds
    BY DEF Accounted
  <1>1. /\ ingress' = ingress => Queued' = Queued
        /\ UNCHANGED <<held, hand>> => JobIds' = JobIds
        /\ held' # NoJob => held'.id \in JobIds'
        /\ hand' # NoJob => hand'.id \in JobIds'
        /\ rounds' = rounds => Active' = Active
    BY RoundsTyped DEF Queued, JobIds
  <1>2. CASE Top
    <2> DEFINE cancelled == IF owner = "loaded" THEN Doomed ELSE {}
    <2>1. /\ outcome' = Told(cancelled, "dropped") /\ UNCHANGED <<waiting, ingress, held, hand>>
          /\ rounds' = [c \in Chats |-> IF c \in cancelled THEN 0 ELSE rounds[c]]
      BY <1>2 DEF Top
    <2>2. outcome[i] = "accepted" /\ i \notin cancelled
      BY <2>1, ToldIsSettled
    <2>3. i \in Active => i \in Active'
      BY <2>1, <2>2 DEF Active
    <2> QED
      BY <1>0, <1>1, <2>1, <2>2, <2>3
  <1>3. CASE CancelFails \/ StepFails \/ Score
    <2>1. outcome[i] = "accepted" /\ (Score => i # hand.id)
      BY <1>3, ToldIsSettled DEF CancelFails, StepFails, Score
    <2>2. JobIds \subseteq JobIds' \cup (IF Score THEN {hand.id} ELSE {})
      BY <1>3, <1>1 DEF JobIds, CancelFails, StepFails, Score, local
    <2> QED
      BY <1>0, <1>1, <1>3, <2>1, <2>2 DEF CancelFails, StepFails, Score, local
  <1>4. CASE ReceiveIdle
    <2>1. Active' = Active /\ hand = NoJob /\ held = NoJob /\ JobIds = {}
      BY <1>1, <1>4 DEF ReceiveIdle, Control, Quiet, JobIds
    <2>2. CASE ingress # << >>
      <3>1. Queued \subseteq Queued' \cup {Head(ingress).id} /\ Head(ingress) \in Job
            /\ Head(ingress) # NoJob
        BY <1>4, <2>2, QueuedTail, TakenFromQueue, NoJobAssumption DEF ReceiveIdle
      <3>2. CASE Head(ingress).kind = "Chat" /\ HoldJob(Head(ingress).id)
        BY <1>0, <2>1, <3>1, <3>2, HeldIsWaiting, AdmittedJobs
      <3>3. CASE UNCHANGED <<waiting, outcome>> /\ (hand' = Head(ingress) \/ held' = Head(ingress))
        BY <1>0, <1>1, <2>1, <3>1, <3>3
      <3> QED
        BY <1>4, <2>2, <3>2, <3>3 DEF ReceiveIdle
    <2>3. CASE ingress = << >>
      BY <1>0, <1>1, <1>4, <2>1, <2>3 DEF ReceiveIdle
    <2> QED
      BY <2>2, <2>3
  <1>5. CASE Fill
    <2>1. Active' = Active /\ hand' = hand /\ (held' = held => JobIds' = JobIds)
      BY <1>1, <1>5 DEF Fill
    <2>2. CASE Filling /\ ingress # << >>
      <3>1. Queued \subseteq Queued' \cup {Head(ingress).id} /\ Head(ingress) \in Job
            /\ Head(ingress) # NoJob /\ held = NoJob
        BY <1>5, <2>2, QueuedTail, TakenFromQueue, NoJobAssumption DEF Fill, Filling
      <3>2. CASE Head(ingress).kind = "Chat" /\ HoldJob(Head(ingress).id) /\ held' = held
        BY <1>0, <2>1, <3>1, <3>2, HeldIsWaiting, AdmittedJobs
      <3>3. CASE outcome' = Told({Head(ingress).id}, "busy") /\ UNCHANGED <<held, waiting>>
        BY <1>0, <2>1, <3>1, <3>3, ToldIsSettled
      <3>4. CASE held' = Head(ingress) /\ UNCHANGED <<waiting, outcome>>
        <4>1. JobIds \subseteq JobIds' /\ Head(ingress).id \in JobIds'
          BY <1>1, <2>1, <3>1, <3>4 DEF JobIds
        <4> QED
          BY <1>0, <2>1, <3>1, <3>4, <4>1
      <3> QED
        BY <1>5, <2>2, <3>2, <3>3, <3>4 DEF Fill
    <2>3. CASE ~(Filling /\ ingress # << >>)
      BY <1>0, <1>1, <1>5, <2>1, <2>3 DEF Fill
    <2> QED
      BY <2>2, <2>3
  <1>6. CASE Admit
    <2>1. PICK left \in [waiting -> 0 .. MaxRounds], bad \in SUBSET waiting :
             /\ \A c \in bad : left[c] = 0
             /\ rounds' = [c \in Chats |-> IF c \in waiting THEN left[c] ELSE rounds[c]]
             /\ outcome' = [j \in Clients |->
                   CASE j \in bad -> IF j \in gone THEN "dropped" ELSE "failed"
                     [] j \in waiting \ bad /\ left[j] = 0 -> "served"
                     [] OTHER -> outcome[j]]
      BY <1>6 DEF Admit
    <2>2. outcome[i] = "accepted" /\ (i \in waiting => left[i] # 0)
      BY <2>1
    <2>3. waiting \subseteq Chats /\ \A c \in waiting : left[c] \in 0 .. MaxRounds
      BY <2>1 DEF Types
    <2>4. i \in waiting \cup Active => i \in Active'
      BY <2>1, <2>2, <2>3, ServeAssumption DEF Active
    <2>5. JobIds' = JobIds
      BY <1>6 DEF Admit, AfterAdmission, Control, JobIds
    <2>6. Queued' = Queued
      BY <1>1, <1>6 DEF Admit
    <2> QED
      BY <1>0, <2>2, <2>4, <2>5, <2>6
  <1>7. CASE Step
    <2>1. PICK done \in SUBSET Active, lost \in SUBSET Active :
             /\ \A c \in Active : rounds[c] = 1 => c \in done
             /\ rounds' = [c \in Chats |->
                   IF c \in done \/ c \notin Active THEN 0 ELSE rounds[c] - 1]
             /\ outcome' = [j \in Clients |->
                   IF j \notin Active \/ outcome[j] # "accepted" THEN outcome[j]
                   ELSE IF j \in lost THEN "dropped"
                   ELSE IF j \in done THEN "served" ELSE outcome[j]]
      BY <1>7 DEF Step
    <2>2. outcome[i] = "accepted" /\ (i \in Active => i \notin done)
      BY <2>1
    <2>3. i \in Active => i \in Active'
      <3> SUFFICES ASSUME i \in Active PROVE i \in Active'
        OBVIOUS
      <3>1. i \in Chats /\ rounds[i] \in Nat /\ rounds[i] > 1 /\ rounds'[i] = rounds[i] - 1
        BY <2>1, <2>2, RoundsTyped DEF Active
      <3> QED
        BY <3>1 DEF Active
    <2> QED
      BY <1>0, <1>1, <1>7, <2>2, <2>3 DEF Step
  <1> QED
    BY <1>2, <1>3, <1>4, <1>5, <1>6, <1>7

LEMMA AccountedOfLifecycle ==
  ASSUME Types, Types', HandReady, Control, Accounted,
         \/ ReceiveAway \/ Execute \/ Publish \/ Reply \/ Restore \/ PublishLoaded
         \/ HandOver \/ RestoreFails \/ Withdraw
  PROVE  Accounted'
  <1> SUFFICES ASSUME NEW i \in Clients, outcome'[i] = "accepted"
               PROVE  i \in Queued' \cup waiting' \cup Active' \cup JobIds'
    BY DEF Accounted
  <1>0. outcome[i] = "accepted" => i \in Queued \cup waiting \cup Active \cup JobIds
    BY DEF Accounted
  <1>1. /\ ingress' = ingress => Queued' = Queued
        /\ UNCHANGED <<held, hand>> => JobIds' = JobIds
        /\ held' = held /\ hand' = NoJob => JobIds \subseteq JobIds' \cup {hand.id}
        /\ hand' # NoJob => hand'.id \in JobIds'
        /\ Active' = Active
    BY RoundsTyped DEF Queued, JobIds, ReceiveAway, Execute, Publish, Reply, Restore,
                       PublishLoaded, HandOver, RestoreFails, Withdraw, local
  <1>2. CASE ReceiveAway
    <2>1. hand = NoJob /\ held = NoJob /\ JobIds = {}
      BY <1>2 DEF ReceiveAway, Control, Quiet, JobIds
    <2>2. CASE ingress # << >>
      BY <1>0, <1>1, <1>2, <2>1, <2>2, QueuedTail, TakenFromQueue, NoJobAssumption
         DEF ReceiveAway
    <2>3. CASE ingress = << >>
      BY <1>0, <1>1, <1>2, <2>1, <2>3 DEF ReceiveAway
    <2> QED
      BY <2>2, <2>3
  <1>3. CASE Execute \/ Publish \/ Restore \/ PublishLoaded
    BY <1>0, <1>1, <1>3 DEF Execute, Publish, Restore, PublishLoaded, local
  <1>4. CASE Reply
    <2>1. verdict # "accepted"
      BY DEF Types
    <2> QED
      BY <1>0, <1>1, <1>4, <2>1, ToldIsSettled DEF Reply
  <1>5. CASE HandOver
    <2>1. hand \in Job /\ held' = held /\ hand' = NoJob /\ ingress' = ingress
      BY <1>5 DEF HandOver, HandReady, Executing, Types
    <2>2. CASE hand.kind = "Chat" /\ HoldJob(hand.id)
      BY <1>0, <1>1, <2>1, <2>2, HeldIsWaiting, AdmittedJobs
    <2>3. CASE UNCHANGED waiting /\ \E answer \in {"served", "failed"} :
                  outcome' = Told({hand.id}, answer)
      BY <1>0, <1>1, <2>1, <2>3, ToldIsSettled
    <2> QED
      BY <1>5, <2>2, <2>3 DEF HandOver
  <1>6. CASE RestoreFails
    BY <1>0, <1>1, <1>6, ToldIsSettled DEF RestoreFails
  <1>7. CASE Withdraw
    BY <1>0, <1>1, <1>7, ToldIsSettled DEF Withdraw, local
  <1> QED
    BY <1>2, <1>3, <1>4, <1>5, <1>6, <1>7

LEMMA AccountedOfEnding ==
  ASSUME Types, Types', Control, Accounted,
         FailAll \/ Close \/ Unwind \/ NotAlive \/ Dead
  PROVE  Accounted'
  <1> SUFFICES ASSUME NEW i \in Clients, outcome'[i] = "accepted"
               PROVE  i \in Queued' \cup waiting' \cup Active' \cup JobIds'
    BY DEF Accounted
  <1>0. outcome[i] = "accepted" => i \in Queued \cup waiting \cup Active \cup JobIds
    BY DEF Accounted
  <1>1. /\ ingress' = ingress => Queued' = Queued
        /\ UNCHANGED <<held, hand>> => JobIds' = JobIds
        /\ rounds' = rounds => Active' = Active
    BY RoundsTyped DEF Queued, JobIds
  <1>2. CASE FailAll \/ NotAlive \/ Dead
    BY <1>0, <1>1, <1>2, ToldIsSettled DEF FailAll, NotAlive, Dead, local
  <1>3. CASE Close
    BY <1>0, <1>1, <1>3, ToldIsSettled DEF Close, local
  <1>4. CASE Unwind
    <2>1. waiting = {} /\ hand = NoJob
          /\ JobIds = IF held = NoJob THEN {} ELSE {held.id}
      BY <1>4 DEF Unwind, Control, JobIds
    <2> QED
      BY <1>0, <1>4, <2>1, ToldIsSettled DEF Unwind
  <1> QED
    BY <1>2, <1>3, <1>4

LEMMA AccountedStep ==
  ASSUME Types, Types', HandReady, Control, Accounted, [Next]_vars
  PROVE  Accounted'
  <1>1. CASE Http
    BY <1>1, AccountedOfHttp
  <1>2. CASE Worker
    BY <1>2, AccountedOfRounds, AccountedOfLifecycle, AccountedOfEnding DEF Worker
  <1>3. CASE UNCHANGED vars
    BY <1>3 DEF vars, Accounted, Queued, Active, JobIds
  <1> QED
    BY <1>1, <1>2, <1>3 DEF Next, Stopped

-----------------------------------------------------------------------------
(* The inductive invariant.                                                *)

LEMMA IInvInitially == Init => IInv
  <1> SUFFICES ASSUME Init PROVE IInv
    OBVIOUS
  <1>1. Types /\ HandReady
    BY TypesInitially
  <1>2. Active = {} /\ waiting = {} /\ Quiet
    BY DEF Init, Active, Quiet, Idle
  <1>3. Control
    BY <1>2 DEF Init, Control
  <1>4. Batch
    BY <1>2, FS_EmptySet, ServeAssumption DEF Batch, BatchFits
  <1>5. Ending
    BY DEF Init, Ending
  <1>6. Phases
    BY DEF Init, Phases, PhaseLoaded, PlainUpTo
  <1>7. HoldIsParked
    BY DEF Init, HoldIsParked
  <1>8. Accounted
    BY DEF Init, Accounted
  <1> QED
    BY <1>1, <1>3, <1>4, <1>5, <1>6, <1>7, <1>8 DEF IInv

LEMMA IInvStep == IInv /\ [Next]_vars => IInv'
  <1> SUFFICES ASSUME IInv, [Next]_vars PROVE IInv'
    OBVIOUS
  <1>0. /\ Types /\ HandReady /\ Control /\ Batch /\ Ending /\ Phases /\ HoldIsParked
        /\ Accounted
    BY DEF IInv
  <1>1. Types' /\ HandReady'
    BY <1>0, TypesStep
  <1>2. Control'
    BY <1>0, <1>1, ControlStep
  <1>3. Batch'
    BY <1>0, <1>1, BatchStep
  <1>4. Ending'
    <2>1. CASE UNCHANGED vars
      BY <1>0, <2>1 DEF vars, Ending
    <2> QED
      BY <1>0, <2>1, EndingOfHttp, EndingOfWorker DEF Next, Stopped
  <1>5. Phases'
    BY <1>0, <1>1, <1>2, <1>4, PhasesStep
  <1>6. HoldIsParked'
    BY <1>0, <1>1, <1>5, HoldStep
  <1>7. Accounted'
    BY <1>0, <1>1, AccountedStep
  <1> QED
    BY <1>1, <1>2, <1>3, <1>4, <1>5, <1>6, <1>7 DEF IInv

LEMMA Invariance == Spec => []IInv
  BY IInvInitially, IInvStep, PTL DEF Spec

(* The variables keep their types, the channel its capacity, and the       *)
(* scheduler never has more requests than slots (server.rs,                *)
(* serve_reloadable).                                                      *)
THEOREM TypeCorrect == Spec => []TypeOK
  <1>1. IInv => TypeOK
    BY DEF IInv, Batch, TypeOK
  <1> QED
    BY <1>1, Invariance, PTL

(* While an unload or a park is reserved, its job is the last accepted one *)
(* (the ingress fence of lifecycle_request and enqueue_chat_job).          *)
THEOREM FenceHolds == Spec => []FenceIsLast
  <1>1. IInv => FenceIsLast
    <2> SUFFICES ASSUME IInv, ~closed, NEW kind \in {"Unload", "Park"},
                        kind = (IF lifecycle = "Unloading" THEN "Unload" ELSE "Park"),
                        lifecycle \in {"Unloading", "Parking"}
                 PROVE  \/ /\ ingress # << >> /\ ingress[Len(ingress)].kind = kind
                           /\ \A k \in 1 .. Len(ingress) - 1 : ~IsAdmin(ingress[k])
                        \/ /\ ingress = << >>
                           /\ \E job \in Unpublished : IsAdmin(job) /\ job.kind = kind
      BY DEF FenceIsLast
    <2>1. PhaseLeaving(kind) /\ Control
      BY DEF IInv, Phases
    <2>2. CASE ingress # << >>
      BY <2>1, <2>2 DEF PhaseLeaving, PlainUpTo
    <2>3. CASE ingress = << >>
      <3>1. CASE held # NoJob /\ held.kind = kind /\ owner = "loaded"
        <4>1. IsAdmin(held)
          BY <2>1, <3>1 DEF Control
        <4>2. pc # "reply"
          BY <2>1, <3>1 DEF Control, Quiet
        <4> QED
          BY <2>3, <3>1, <4>1, <4>2 DEF Unpublished
      <3>2. CASE pc \in {"execute", "publish"} /\ hand.kind = kind
        <4>1. IsAdmin(hand) /\ hand # NoJob
          BY <3>2 DEF IInv, Control, HandReady, Executing
        <4> QED
          BY <2>3, <3>2, <4>1 DEF Unpublished
      <3> QED
        BY <2>1, <2>3, <3>1, <3>2 DEF PhaseLeaving
    <2> QED
      BY <2>2, <2>3
  <1> QED
    BY <1>1, Invariance, PTL

(* A published stable state is what the worker owns, and a model parked or *)
(* unloaded has no request left (publish_parked, publish_unloaded,         *)
(* fail_load_queued, fail_resume_queued).                                  *)
THEOREM SettledHolds == Spec => []SettledIsTrue
  <1>1. IInv => SettledIsTrue
    <2> SUFFICES ASSUME IInv, ~closed PROVE SettledIsTrue
      BY DEF SettledIsTrue
    <2>1. lifecycle = "Loaded" => owner = "loaded"
      BY DEF IInv, Phases, PhaseLoaded
    <2>2. ASSUME lifecycle \in {"Parked", "Unloaded"}
          PROVE  /\ lifecycle = Settled
                 /\ ingress = << >> /\ waiting = {} /\ Idle /\ Unpublished = {}
      <3>1. /\ owner = IF lifecycle = "Parked" THEN "parked" ELSE "none"
            /\ ingress = << >> /\ pc \in {"top", "recv", "reply", "unwind"}
        BY <2>2 DEF IInv, Phases, PhaseAway
      <3>2. Quiet /\ (pc # "reply" => hand = NoJob)
        BY <3>1, <2>2 DEF IInv, Control
      <3> QED
        BY <2>2, <3>1, <3>2 DEF Settled, Quiet, Unpublished
    <2> QED
      BY <2>1, <2>2 DEF SettledIsTrue
  <1> QED
    BY <1>1, Invariance, PTL

(* While a minimum park runs, no inference request is accepted             *)
(* (enqueue_chat_job, enqueue_score_job and the forced_park_until it       *)
(* reads).                                                                 *)
THEOREM HoldRefuses == Spec => NoAdmissionDuringHold
  <1>1. ASSUME IInv, [Next]_vars, deadline = "pending", NEW i \in Inference,
               outcome[i] = "new", outcome'[i] = "accepted"
        PROVE  FALSE
    <2>0. Types /\ outcome \in [Clients -> Outcomes] /\ i \in Clients
      BY <1>1 DEF IInv, Types, Clients
    <2>1. ASSUME NEW j \in Inference, Enqueue(j)
          PROVE  FALSE
      <3>1. CASE closed
        BY <1>1, <2>0, <2>1, <3>1 DEF Enqueue, SendReserving, HasRoom
      <3>2. CASE ~closed
        <4>1. lifecycle \in {"Parked", "Parking"}
          BY <1>1, <3>2 DEF IInv, HoldIsParked
        <4>2. ForcedPark \/ Wakes \notin Joins
          BY <1>1, <4>1 DEF ForcedPark, Wakes, Joins
        <4> QED
          BY <1>1, <2>0, <2>1, <4>2 DEF Enqueue
      <3> QED
        BY <3>1, <3>2
    <2>2. ASSUME NEW a \in Admins, NEW kind \in AdminKind, NEW hold \in BOOLEAN,
                 LifecycleRequest(a, kind, hold)
          PROVE  FALSE
      <3>1. a # i
        BY ServeAssumption DEF Inference
      <3> QED
        BY <1>1, <2>0, <2>2, <3>1 DEF LifecycleRequest, SendReserving
    <2>3. CASE Worker
      <3>1. ASSUME NEW S, NEW answer, outcome' = Told(S, answer), answer # "accepted"
            PROVE  FALSE
        BY <1>1, <2>0, <3>1 DEF Told
      <3>2. CASE outcome' = outcome
        BY <1>1, <3>2
      <3>3. CASE Admit
        BY <1>1, <2>0, <3>3 DEF Admit
      <3>4. CASE Step
        BY <1>1, <2>0, <3>4 DEF Step
      <3>5. CASE Reply
        BY <1>1, <2>0, <3>1, <3>5 DEF Reply, Types
      <3>6. CASE Top \/ CancelFails \/ ReceiveIdle \/ Score \/ Fill \/ StepFails
        BY <3>1, <3>2, <3>6 DEF Top, CancelFails, ReceiveIdle, Score, Fill, StepFails, HoldJob
      <3>7. CASE ReceiveAway \/ Execute \/ Publish \/ Restore \/ PublishLoaded \/ HandOver
                 \/ RestoreFails \/ Withdraw
        BY <3>1, <3>2, <3>7 DEF ReceiveAway, Execute, Publish, Restore, PublishLoaded,
                                HandOver, RestoreFails, Withdraw, HoldJob
      <3>8. CASE FailAll \/ Close \/ Unwind \/ NotAlive \/ Dead
        BY <3>1, <3>2, <3>8 DEF FailAll, Close, Unwind, NotAlive, Dead
      <3> QED
        BY <2>3, <3>3, <3>4, <3>5, <3>6, <3>7, <3>8 DEF Worker
    <2>4. outcome' # outcome
      BY <1>1
    <2> QED
      BY <1>1, <2>1, <2>2, <2>3, <2>4 DEF Next, Http, Stopped, vars,
                                          Disconnect, ExpireHold, Shutdown
  <1>2. IInv /\ [Next]_vars
           => [deadline = "pending" =>
                 \A i \in Inference : outcome[i] = "new" => outcome'[i] # "accepted"]_vars
    BY <1>1
  <1> QED
    BY <1>2, Invariance, PTL DEF Spec, NoAdmissionDuringHold

(* An accepted request that nobody has answered is queued, waiting, active *)
(* or the job in the worker's hands; so when the engine thread has ended,  *)
(* every accepted request has been answered or its reply sender dropped    *)
(* (fail_all, jobs.close and fail_queued, the locals of serve_reloadable). *)
THEOREM NobodyIsForgotten ==
  Spec => [](Accounted /\ (pc = "exited" => \A i \in Clients : outcome[i] # "accepted"))
  <1>1. IInv => Accounted /\ (pc = "exited" => \A i \in Clients : outcome[i] # "accepted")
    <2> SUFFICES ASSUME IInv, pc = "exited"
                 PROVE  \A i \in Clients : outcome[i] # "accepted"
      BY DEF IInv
    <2>1. ingress = << >> /\ Quiet /\ hand = NoJob /\ Accounted
      BY DEF IInv, Ending, Control
    <2>2. Queued = {} /\ waiting = {} /\ Active = {} /\ JobIds = {}
      BY <2>1 DEF Queued, Quiet, Idle, JobIds
    <2> QED
      BY <2>1, <2>2 DEF Accounted
  <1> QED
    BY <1>1, Invariance, PTL

(* Each step of the server is a step of the lifecycle a client sees, or    *)
(* none: the table of docs/PLAN-offload-gpu-and-kv.md 2.2. That every      *)
(* transition settles is liveness, which TLC checks.                       *)
THEOREM LifecycleSteps == Spec => Abstract!Init /\ [][Abstract!Next]_lifecycle
  <1>1. Init => Abstract!Init
    BY DEF Init, Abstract!Init
  <1>2. IInv /\ [Next]_vars => [Abstract!Next]_lifecycle
    <2> SUFFICES ASSUME IInv, [Next]_vars, lifecycle' # lifecycle
                 PROVE  Abstract!Next
      OBVIOUS
    <2> USE DEF Abstract!Next, Abstract!Reserve, Abstract!Settle, Abstract!Die
    <2>1. ASSUME NEW i \in Inference, Enqueue(i)
          PROVE  Abstract!Next
      BY <2>1 DEF Enqueue, SendReserving, Wakes
    <2>2. ASSUME NEW a \in Admins, NEW kind \in AdminKind, NEW hold \in BOOLEAN,
                 LifecycleRequest(a, kind, hold)
          PROVE  Abstract!Next
      BY <2>2 DEF LifecycleRequest, SendReserving, Reservations
    <2>3. ASSUME pc \in {"publish", "restored", "withdraw"}, lifecycle' = Settled
          PROVE  Abstract!Next
      <3>1. ~closed
        BY <2>3 DEF IInv, Ending
      <3>2. CASE pc = "publish"
        <4>1. /\ lifecycle = "Unloading" => owner = "none"
              /\ lifecycle = "Parking" => owner \in {"parked", "loaded"}
              /\ lifecycle \in {"Unloading", "Parking"}
          BY <3>1, <3>2 DEF IInv, Phases, PhaseLoaded, PhaseRestoring, PhaseAway,
                            PhaseLeaving, Types, States, Ending, Control, Quiet
        <4> QED
          BY <2>3, <4>1 DEF Settled
      <3>3. CASE pc \in {"restored", "withdraw"}
        <4>1. /\ lifecycle \in {"Loading", "Resuming"}
              /\ pc = "restored" => owner = "loaded"
              /\ pc = "withdraw" => owner = IF lifecycle = "Loading" THEN "none" ELSE "parked"
          BY <3>1, <3>3 DEF IInv, Phases, PhaseLoaded, PhaseRestoring, PhaseAway,
                            PhaseLeaving, Types, States, Ending, Control, Quiet
        <4> QED
          BY <2>3, <3>3, <4>1 DEF Settled
      <3> QED
        BY <2>3, <3>2, <3>3
    <2>4. CASE Dead
      BY <2>4 DEF Dead
    <2>5. CASE Worker
      BY <2>3, <2>4, <2>5
         DEF Worker, Top, CancelFails, ReceiveIdle, Score, Fill, Admit, Step, StepFails,
             ReceiveAway, Execute, Publish, Reply, Restore, PublishLoaded, HandOver,
             RestoreFails, Withdraw, FailAll, Close, Unwind, NotAlive
    <2> QED
      BY <2>1, <2>2, <2>5 DEF Next, Http, Stopped, vars, Disconnect, ExpireHold, Shutdown
  <1> QED
    BY <1>1, <1>2, Invariance, PTL DEF Spec

-----------------------------------------------------------------------------
(* Every client is answered once.                                          *)

(* What a client has been told stays: no request is answered twice, and a  *)
(* job that was answered is worked on for nobody (record_admission and the *)
(* reply senders, which the worker consumes when it answers).              *)
AnsweredOnce ==
    [][\A i \in Clients :
         outcome[i] \notin {"new", "accepted"} => outcome'[i] = outcome[i]]_vars

(* The jobs the worker has still to answer, each in one place: no job is   *)
(* in the channel twice, or in the channel and in the worker's books.      *)
Distinct ==
    \A j, k \in 1 .. Len(ingress) : ingress[j].id = ingress[k].id => j = k
Open == Queued \cup waiting \cup JobIds
Sole ==
    /\ Distinct
    /\ \A i \in Open : outcome[i] = "accepted"
    /\ \A c \in Active : outcome[c] # "new"
    /\ Queued \cap (waiting \cup Active \cup JobIds) = {}
Answered ==
    \A i \in Clients :
        outcome[i] \notin {"new", "accepted"} => outcome'[i] = outcome[i]

LEMMA BooksTyped ==
  ASSUME Types
  PROVE  Queued \subseteq Clients /\ JobIds \subseteq Clients
         /\ waiting \subseteq Clients /\ Active \subseteq Chats
         /\ Inference \subseteq Clients /\ Chats \subseteq Clients
  <1>1. \A k \in 1 .. Len(ingress) : ingress[k] \in Job
    BY DEF Types
  <1>2. \A job \in {held, hand} \ {NoJob} : job \in Job
    BY DEF Types
  <1> QED
    BY <1>1, <1>2, AdmittedJobs DEF Queued, JobIds, Active, Types, Clients, Inference

LEMMA DistinctTail ==
  ASSUME Types, Distinct, ingress # << >>, ingress' = Tail(ingress)
  PROVE  /\ Distinct' /\ Head(ingress).id \in Queued
         /\ Queued' = Queued \ {Head(ingress).id}
  <1> DEFINE n == Len(ingress)
  <1>1. /\ n \in Nat \ {0} /\ Head(ingress) = ingress[1] /\ Len(ingress') = n - 1
        /\ \A k \in 1 .. n - 1 : ingress'[k] = ingress[k + 1]
    BY TakenFromQueue
  <1> HIDE DEF n
  <1>2. \A j, k \in 1 .. n : ingress[j].id = ingress[k].id => j = k
    BY DEF Distinct, n
  <1>3. Queued = { ingress[k].id : k \in 1 .. n } /\ Queued' = { ingress'[k].id : k \in 1 .. n - 1 }
    BY <1>1 DEF Queued, n
  <1>4. Distinct'
    <2> SUFFICES ASSUME NEW j \in 1 .. n - 1, NEW k \in 1 .. n - 1,
                        ingress'[j].id = ingress'[k].id
                 PROVE  j = k
      BY <1>1 DEF Distinct
    <2>1. /\ j + 1 \in 1 .. n /\ k + 1 \in 1 .. n
          /\ ingress'[j] = ingress[j + 1] /\ ingress'[k] = ingress[k + 1]
      BY <1>1
    <2>2. j + 1 = k + 1
      BY <1>2, <2>1
    <2> QED
      BY <2>2
  <1>5. Head(ingress).id \in Queued
    BY <1>1, <1>3
  <1>6. ASSUME NEW i \in Queued, i # Head(ingress).id PROVE i \in Queued'
    <2>1. PICK k \in 1 .. n : i = ingress[k].id
      BY <1>3
    <2>2. k # 1
      BY <1>1, <1>6, <2>1
    <2>3. k - 1 \in 1 .. n - 1 /\ ingress'[k - 1] = ingress[(k - 1) + 1] /\ (k - 1) + 1 = k
      BY <1>1, <2>2
    <2> QED
      BY <1>3, <2>1, <2>3
  <1>7. ASSUME NEW i \in Queued' PROVE i \in Queued /\ i # Head(ingress).id
    <2>1. PICK k \in 1 .. n - 1 : i = ingress'[k].id
      BY <1>3
    <2>2. k + 1 \in 1 .. n /\ i = ingress[k + 1].id /\ k + 1 # 1 /\ 1 \in 1 .. n
      BY <1>1, <2>1
    <2> QED
      BY <1>1, <1>2, <1>3, <2>2
  <1> QED
    BY <1>4, <1>5, <1>6, <1>7

LEMMA DistinctAppend ==
  ASSUME Types, Distinct, NEW job \in Job, job.id \notin Queued,
         ingress' = Append(ingress, job)
  PROVE  Distinct' /\ Queued' = Queued \cup {job.id}
  <1> DEFINE n == Len(ingress)
  <1>1. /\ n \in Nat /\ Len(ingress') = n + 1 /\ ingress'[n + 1] = job
        /\ \A k \in 1 .. n : ingress'[k] = ingress[k]
    BY AddedToQueue DEF Types
  <1> HIDE DEF n
  <1>2. \A j, k \in 1 .. n : ingress[j].id = ingress[k].id => j = k
    BY DEF Distinct, n
  <1>3. Queued = { ingress[k].id : k \in 1 .. n } /\ Queued' = { ingress'[k].id : k \in 1 .. n + 1 }
    BY <1>1 DEF Queued, n
  <1>4. \A k \in 1 .. n + 1 : k \in 1 .. n \/ k = n + 1
    BY <1>1
  <1>5. Distinct'
    <2> SUFFICES ASSUME NEW j \in 1 .. n + 1, NEW k \in 1 .. n + 1,
                        ingress'[j].id = ingress'[k].id
                 PROVE  j = k
      BY <1>1 DEF Distinct
    <2>1. \A m \in 1 .. n : ingress'[m].id \in Queued
      BY <1>1, <1>3
    <2> QED
      BY <1>1, <1>2, <1>4, <2>1
  <1>6. 1 .. n \subseteq 1 .. n + 1 /\ n + 1 \in 1 .. n + 1
    BY <1>1
  <1>7. Queued \cup {job.id} \subseteq Queued'
    BY <1>1, <1>3, <1>6
  <1>8. Queued' \subseteq Queued \cup {job.id}
    BY <1>1, <1>3, <1>4
  <1> QED
    BY <1>5, <1>7, <1>8

(* Whom an answer leaves alone.                                            *)
Spares(S) ==
    /\ \A i \in Clients : i \notin S => outcome'[i] = outcome[i]
    /\ \A i \in Clients : outcome[i] # "new" => outcome'[i] # "new"
    /\ Answered

LEMMA ToldSpares ==
  ASSUME Types, NEW S, NEW answer, answer # "new", outcome' = Told(S, answer)
  PROVE  Spares(S)
  BY DEF Types, Told, Spares, Answered

LEMMA HoldSpares ==
  ASSUME Types, NEW c \in Chats, HoldJob(c)
  PROVE  \/ Spares({}) /\ waiting' = waiting \cup {c}
         \/ Spares({c}) /\ waiting' = waiting
  <1>1. CASE c \in gone
    BY <1>1, ToldSpares DEF HoldJob
  <1>2. CASE c \notin gone
    BY <1>2 DEF HoldJob, Spares, Answered
  <1> QED
    BY <1>1, <1>2

(* A step of the worker takes jobs off the channel, moves those it has not *)
(* answered, and answers others.                                           *)
LEMMA SoleMoves ==
  ASSUME Types, Types', Sole, Distinct', NEW S, Spares(S),
         Queued' \subseteq Queued, waiting' \cup JobIds' \subseteq Open,
         Active' \subseteq Active \cup waiting,
         Queued' \cap (waiting' \cup JobIds') = {}, Open' \cap S = {}
  PROVE  Sole' /\ Answered
  <1>1. Open \subseteq Clients /\ Active \cup waiting \subseteq Clients
    BY BooksTyped, ServeAssumption DEF Open
  <1>2. Open' \subseteq Open
    BY DEF Open
  <1>3. \A i \in Open' : outcome'[i] = "accepted"
    BY <1>1, <1>2 DEF Sole, Spares
  <1>4. \A c \in Active \cup waiting : outcome[c] # "new"
    BY DEF Sole, Open
  <1>5. \A c \in Active' : outcome'[c] # "new"
    BY <1>1, <1>4 DEF Spares
  <1>6. Queued' \cap (waiting' \cup Active' \cup JobIds') = {}
    BY DEF Sole
  <1> QED
    BY <1>3, <1>5, <1>6 DEF Sole, Spares

LEMMA SoleOfHttp ==
  ASSUME Types, Types', Sole, Http
  PROVE  Sole' /\ Answered
  <1>1. UNCHANGED <<waiting, held, hand, rounds>>
    BY DEF Http, Enqueue, LifecycleRequest, Disconnect, ExpireHold, Shutdown, local
  <1>2. Active' = Active /\ JobIds' = JobIds
    BY <1>1, RoundsTyped DEF JobIds
  <1>3. Open \subseteq Clients /\ Active \subseteq Clients /\ outcome \in [Clients -> Outcomes]
    BY BooksTyped, ServeAssumption DEF Open, Types
  <1>4. CASE UNCHANGED <<outcome, ingress>>
    BY <1>1, <1>2, <1>4 DEF Sole, Distinct, Open, Queued, Answered
  <1>5. ASSUME NEW i \in Clients, NEW answer, outcome[i] = "new", answer # "new",
               outcome' = [outcome EXCEPT ![i] = answer]
        PROVE  /\ \A j \in Clients : outcome'[j] = IF j = i THEN answer ELSE outcome[j]
               /\ i \notin Open /\ i \notin Active /\ Answered
    <2>1. \A j \in Clients : outcome'[j] = IF j = i THEN answer ELSE outcome[j]
      BY <1>3, <1>5
    <2>2. i \notin Open /\ i \notin Active
      BY <1>5 DEF Sole
    <2> QED
      BY <1>5, <2>1, <2>2 DEF Answered
  <1>6. ASSUME NEW i \in Clients, NEW answer, outcome[i] = "new", answer # "new",
               outcome' = [outcome EXCEPT ![i] = answer], ingress' = ingress
        PROVE  Sole' /\ Answered
    <2>1. Queued' = Queued /\ Open' = Open /\ (Distinct' <=> Distinct)
      BY <1>1, <1>2, <1>6 DEF Queued, Open, Distinct
    <2>2. /\ \A j \in Clients : outcome'[j] = IF j = i THEN answer ELSE outcome[j]
          /\ i \notin Open /\ i \notin Active /\ Answered
      BY <1>5, <1>6
    <2> QED
      BY <1>1, <1>2, <1>3, <2>1, <2>2 DEF Sole
  <1>7. ASSUME NEW job \in Job, NEW reserved, SendReserving(job, reserved),
               outcome[job.id] = "new"
        PROVE  Sole' /\ Answered
    <2>0. job.id \in Clients
      BY AdmittedJobs
    <2>1. CASE ~HasRoom
      BY <1>6, <1>7, <2>0, <2>1 DEF SendReserving
    <2>2. CASE HasRoom
      <3>1. ingress' = Append(ingress, job) /\ outcome' = [outcome EXCEPT ![job.id] = "accepted"]
        BY <1>7, <2>2 DEF SendReserving
      <3>2. /\ \A j \in Clients : outcome'[j] = IF j = job.id THEN "accepted" ELSE outcome[j]
            /\ job.id \notin Open /\ job.id \notin Active /\ Answered
        BY <1>5, <1>7, <2>0, <3>1
      <3>3. Distinct' /\ Queued' = Queued \cup {job.id}
        BY <3>1, <3>2, DistinctAppend DEF Sole, Open
      <3>4. Open' = Open \cup {job.id}
        BY <1>1, <1>2, <3>3 DEF Open
      <3>5. \A i \in Open' : outcome'[i] = "accepted"
        BY <1>3, <2>0, <3>2, <3>4 DEF Sole
      <3>6. \A c \in Active' : outcome'[c] # "new"
        BY <1>2, <1>3, <3>2 DEF Sole
      <3>7. Queued' \cap (waiting' \cup Active' \cup JobIds') = {}
        BY <1>1, <1>2, <3>2, <3>3 DEF Sole, Open
      <3> QED
        BY <3>2, <3>3, <3>5, <3>6, <3>7 DEF Sole
    <2> QED
      BY <2>1, <2>2
  <1>8. ASSUME NEW i \in Inference, Enqueue(i)
        PROVE  Sole' /\ Answered
    <2>1. outcome[i] = "new" /\ i \in Clients
      BY <1>8 DEF Enqueue, Clients
    <2> QED
      BY <1>6, <1>7, <1>8, <2>1, AdmittedJobs DEF Enqueue
  <1>9. ASSUME NEW a \in Admins, NEW kind \in AdminKind, NEW hold \in BOOLEAN,
               LifecycleRequest(a, kind, hold)
        PROVE  Sole' /\ Answered
    <2>1. outcome[a] = "new" /\ a \in Clients
      BY <1>9 DEF LifecycleRequest, Clients
    <2> QED
      BY <1>6, <1>7, <1>9, <2>1, AdmittedJobs DEF LifecycleRequest
  <1> QED
    BY <1>4, <1>8, <1>9 DEF Http, Disconnect, ExpireHold, Shutdown

(* The held job is a lifecycle job, so no chat of the scheduler is it.     *)
LEMMA HeldIsNoChat ==
  ASSUME Types, Control, hand = NoJob
  PROVE  JobIds \cap Chats = {} /\ (held = NoJob => JobIds = {})
  <1>1. held # NoJob => held \in Job /\ held.kind \in AdminKind
    BY DEF Types, Control, IsAdmin
  <1>2. held # NoJob => held.id \in Admins
    BY <1>1, AdmittedJobs
  <1>3. JobIds = IF held = NoJob THEN {} ELSE {held.id}
    BY DEF JobIds
  <1> QED
    BY <1>2, <1>3, ServeAssumption

(* With the scheduler empty, what the worker has is the job in its hand.   *)
LEMMA QuietBooks ==
  ASSUME Quiet
  PROVE  /\ waiting = {} /\ Active = {} /\ held = NoJob
         /\ JobIds = IF hand = NoJob THEN {} ELSE {hand.id}
  BY DEF Quiet, Idle, JobIds

LEMMA SoleOfRounds ==
  ASSUME Types, Types', HandReady, Control, Sole,
         \/ Top \/ CancelFails \/ ReceiveIdle \/ Score \/ Fill
         \/ Admit \/ Step \/ StepFails
  PROVE  Sole' /\ Answered
  <1>0. /\ Queued \cap (waiting \cup Active \cup JobIds) = {} /\ Distinct
        /\ Active \subseteq Chats /\ waiting \subseteq Chats
    BY BooksTyped DEF Sole, Types
  <1>1. /\ ingress' = ingress => Queued' = Queued /\ (Distinct' <=> Distinct)
        /\ UNCHANGED <<held, hand>> => JobIds' = JobIds
        /\ rounds' = rounds => Active' = Active
        /\ JobIds' = { job.id : job \in {held', hand'} \ {NoJob} }
    BY RoundsTyped DEF Queued, Distinct, JobIds
  <1>2. ASSUME NEW S \in SUBSET Active, Spares(S), pc \in {"top", "step"},
               UNCHANGED <<ingress, waiting, held, hand>>, Active' \subseteq Active
        PROVE  Sole' /\ Answered
    <2>1. waiting # {} => Active = {}
      BY <1>2 DEF Control, Idle
    <2>2. JobIds \cap Chats = {}
      BY <1>2, HeldIsNoChat DEF Control
    <2>3. Open' = Open /\ Open \cap S = {}
      BY <1>0, <1>1, <1>2, <2>1, <2>2 DEF Open
    <2> QED
      BY <1>0, <1>1, <1>2, <2>3, SoleMoves DEF Open
  <1>3. CASE Top
    <2> DEFINE cancelled == IF owner = "loaded" THEN Doomed ELSE {}
    <2>1. /\ outcome' = Told(cancelled, "dropped") /\ UNCHANGED <<waiting, ingress, held, hand>>
          /\ rounds' = [c \in Chats |-> IF c \in cancelled THEN 0 ELSE rounds[c]]
          /\ pc = "top"
      BY <1>3 DEF Top
    <2>2. cancelled \in SUBSET Active
      BY DEF Doomed
    <2> HIDE DEF cancelled
    <2>3. Active' \subseteq Active
      BY <2>1 DEF Active
    <2>4. Spares(cancelled)
      BY <2>1, ToldSpares
    <2> QED
      BY <1>2, <2>1, <2>2, <2>3, <2>4
  <1>4. CASE CancelFails \/ StepFails
    <2>1. UNCHANGED <<waiting, ingress, held, hand, rounds>> /\ pc \in {"top", "step"}
      BY <1>4 DEF CancelFails, StepFails, local
    <2>2. \E S \in SUBSET Active : Spares(S)
      <3>1. CASE CancelFails
        <4>1. PICK tried \in SUBSET Doomed : outcome' = Told(tried, "dropped")
          BY <3>1 DEF CancelFails
        <4>2. tried \in SUBSET Active
          BY DEF Doomed
        <4>3. Spares(tried)
          BY <4>1, ToldSpares
        <4> QED
          BY <4>2, <4>3
      <3>2. CASE StepFails
        <4>1. Spares({})
          BY <3>2 DEF StepFails, Spares, Answered
        <4> QED
          BY <4>1
      <3> QED
        BY <1>4, <3>1, <3>2
    <2> QED
      BY <1>1, <1>2, <2>1, <2>2
  <1>5. CASE Step
    <2>1. PICK done \in SUBSET Active, lost \in SUBSET Active :
             /\ rounds' = [c \in Chats |->
                   IF c \in done \/ c \notin Active THEN 0 ELSE rounds[c] - 1]
             /\ outcome' = [j \in Clients |->
                   IF j \notin Active \/ outcome[j] # "accepted" THEN outcome[j]
                   ELSE IF j \in lost THEN "dropped"
                   ELSE IF j \in done THEN "served" ELSE outcome[j]]
      BY <1>5 DEF Step
    <2>2. Active' \subseteq Active
      BY <2>1 DEF Active
    <2>3. Spares(Active)
      BY <2>1 DEF Spares, Answered
    <2> QED
      BY <1>2, <1>5, <2>2, <2>3 DEF Step
  (* A job comes off the channel and is answered or goes to the books.     *)
  <1>6. ASSUME NEW S, Spares(S), ingress # << >>, ingress' = Tail(ingress), JobIds = {},
               waiting' \cup JobIds' \subseteq waiting \cup {Head(ingress).id},
               S \subseteq {Head(ingress).id},
               S = {} \/ waiting' \cup JobIds' \subseteq waiting,
               rounds' = rounds
        PROVE  Sole' /\ Answered
    <2>1. /\ Distinct' /\ Head(ingress).id \in Queued
          /\ Queued' = Queued \ {Head(ingress).id}
      BY <1>0, <1>6, DistinctTail
    <2>2. Head(ingress).id \notin waiting
      BY <1>0, <2>1
    <2>3. Open' \cap S = {} /\ Queued' \cap (waiting' \cup JobIds') = {}
      BY <1>0, <1>6, <2>1, <2>2 DEF Open
    <2> QED
      BY <1>1, <1>6, <2>1, <2>3, SoleMoves DEF Open
  <1>7. CASE ReceiveIdle
    <2>0. /\ Quiet /\ hand = NoJob /\ UNCHANGED rounds
      BY <1>7 DEF ReceiveIdle, Control
    <2>1. waiting = {} /\ held = NoJob /\ JobIds = {}
      BY <2>0, QuietBooks
    <2>2. CASE ingress # << >>
      <3>1. Head(ingress) \in Job /\ ingress' = Tail(ingress)
        BY <1>7, <2>2, TakenFromQueue DEF ReceiveIdle
      <3>2. CASE Head(ingress).kind = "Chat" /\ HoldJob(Head(ingress).id) /\ UNCHANGED <<hand, held>>
        <4>1. Head(ingress).id \in Chats /\ JobIds' = {}
          BY <1>1, <2>1, <3>1, <3>2, AdmittedJobs
        <4> QED
          BY <1>6, <2>0, <2>1, <2>2, <3>1, <3>2, <4>1, HoldSpares
      <3>3. CASE /\ UNCHANGED <<waiting, outcome>>
                 /\ \/ hand' = Head(ingress) /\ held' = held
                    \/ held' = Head(ingress) /\ hand' = hand
        <4>1. JobIds' \subseteq {Head(ingress).id}
          BY <1>1, <2>0, <2>1, <3>3
        <4>2. Spares({})
          BY <3>3 DEF Spares, Answered
        <4> QED
          BY <1>6, <2>0, <2>1, <2>2, <3>1, <3>3, <4>1, <4>2
      <3> QED
        BY <1>7, <2>2, <3>2, <3>3 DEF ReceiveIdle
    <2>3. CASE ingress = << >>
      <3>1. UNCHANGED <<ingress, hand, held, waiting, outcome, rounds>>
        BY <1>7, <2>3 DEF ReceiveIdle
      <3>2. Spares({})
        BY <3>1 DEF Spares, Answered
      <3> QED
        BY <1>0, <1>1, <3>1, <3>2, SoleMoves DEF Open
    <2> QED
      BY <2>2, <2>3
  <1>8. CASE Score
    <2>1. /\ Quiet /\ hand # NoJob /\ hand' = NoJob
          /\ UNCHANGED <<ingress, waiting, rounds, held>>
      BY <1>8 DEF Score, Control, HandReady, Executing
    <2>2. Spares({hand.id})
      BY <1>8, ToldSpares DEF Score
    <2>3. /\ waiting = {} /\ JobIds = {hand.id} /\ JobIds' = {} /\ Active' = Active
          /\ Queued' = Queued /\ Distinct'
      BY <1>0, <1>1, <2>1, QuietBooks
    <2>4. Open' \cap {hand.id} = {} /\ waiting' \cup JobIds' = {}
      BY <1>0, <2>1, <2>3 DEF Open
    <2> QED
      BY <2>2, <2>3, <2>4, SoleMoves
  <1>9. CASE Fill
    <2>1. hand = NoJob /\ hand' = NoJob /\ rounds' = rounds
      BY <1>9 DEF Fill, Control
    <2>2. CASE Filling /\ ingress # << >>
      <3>1. /\ Head(ingress) \in Job /\ ingress' = Tail(ingress)
            /\ held = NoJob /\ JobIds = {}
        BY <1>9, <2>1, <2>2, TakenFromQueue, HeldIsNoChat DEF Fill, Filling
      <3>2. CASE Head(ingress).kind = "Chat" /\ HoldJob(Head(ingress).id) /\ held' = held
        <4>1. Head(ingress).id \in Chats /\ JobIds' = {}
          BY <1>1, <2>1, <3>1, <3>2, AdmittedJobs
        <4> QED
          BY <1>6, <2>1, <2>2, <3>1, <3>2, <4>1, HoldSpares
      <3>3. CASE outcome' = Told({Head(ingress).id}, "busy") /\ UNCHANGED <<held, waiting>>
        <4>1. Spares({Head(ingress).id}) /\ JobIds' = {}
          BY <1>1, <2>1, <3>1, <3>3, ToldSpares
        <4> QED
          BY <1>6, <2>1, <2>2, <3>1, <3>3, <4>1
      <3>4. CASE held' = Head(ingress) /\ UNCHANGED <<waiting, outcome>>
        <4>1. JobIds' \subseteq {Head(ingress).id}
          BY <1>1, <2>1, <3>4
        <4>2. Spares({})
          BY <3>4 DEF Spares, Answered
        <4> QED
          BY <1>6, <2>1, <2>2, <3>1, <3>4, <4>1, <4>2
      <3> QED
        BY <1>9, <2>2, <3>2, <3>3, <3>4 DEF Fill
    <2>3. CASE ~(Filling /\ ingress # << >>)
      <3>1. UNCHANGED <<ingress, hand, held, waiting, outcome, rounds>>
        BY <1>9, <2>3 DEF Fill
      <3>2. Spares({})
        BY <3>1 DEF Spares, Answered
      <3> QED
        BY <1>0, <1>1, <3>1, <3>2, SoleMoves DEF Open
    <2> QED
      BY <2>2, <2>3
  <1>10. CASE Admit
    <2>1. PICK left \in [waiting -> 0 .. MaxRounds], bad \in SUBSET waiting :
             /\ rounds' = [c \in Chats |-> IF c \in waiting THEN left[c] ELSE rounds[c]]
             /\ outcome' = [j \in Clients |->
                   CASE j \in bad -> IF j \in gone THEN "dropped" ELSE "failed"
                     [] j \in waiting \ bad /\ left[j] = 0 -> "served"
                     [] OTHER -> outcome[j]]
      BY <1>10 DEF Admit
    <2>2. \A i \in waiting : outcome[i] = "accepted"
      BY DEF Sole, Open
    <2>3. Spares(waiting)
      BY <2>1, <2>2 DEF Spares, Answered
    <2>4. Active' \subseteq Active \cup waiting
      BY <2>1 DEF Active
    <2>5. JobIds' = JobIds /\ ingress' = ingress /\ waiting' = {} /\ hand = NoJob
      BY <1>10 DEF Admit, AfterAdmission, Control, JobIds
    <2>6. JobIds \cap waiting = {}
      BY <1>0, <2>5, HeldIsNoChat
    <2>7. Open' \cap waiting = {}
      BY <1>0, <1>1, <2>5, <2>6 DEF Open
    <2> QED
      BY <1>0, <1>1, <2>3, <2>4, <2>5, <2>7, SoleMoves DEF Open
  <1> QED
    BY <1>3, <1>4, <1>5, <1>7, <1>8, <1>9, <1>10

LEMMA SoleOfLifecycle ==
  ASSUME Types, Types', HandReady, Control, Sole,
         \/ ReceiveAway \/ Execute \/ Publish \/ Reply \/ Restore \/ PublishLoaded
         \/ HandOver \/ RestoreFails \/ Withdraw
  PROVE  Sole' /\ Answered
  <1>0. /\ Queued \cap (waiting \cup Active \cup JobIds) = {} /\ Distinct
        /\ UNCHANGED <<rounds, held>>
    BY DEF Sole, ReceiveAway, Execute, Publish, Reply, Restore,
           PublishLoaded, HandOver, RestoreFails, Withdraw, local
  <1>1. Quiet
    BY DEF Control, ReceiveAway, Execute, Publish, Reply, Restore,
           PublishLoaded, HandOver, RestoreFails, Withdraw
  <1>2. /\ waiting = {} /\ Active = {} /\ held = NoJob /\ Active' = Active
        /\ JobIds = (IF hand = NoJob THEN {} ELSE {hand.id})
        /\ JobIds' = (IF hand' = NoJob THEN {} ELSE {hand'.id})
        /\ ingress' = ingress => Queued' = Queued /\ (Distinct' <=> Distinct)
    BY <1>0, <1>1, QuietBooks, RoundsTyped DEF JobIds, Queued, Distinct
  <1>3. ASSUME UNCHANGED <<ingress, outcome, waiting, hand>>
        PROVE  Sole' /\ Answered
    <2>1. Spares({})
      BY <1>3 DEF Spares, Answered
    <2> QED
      BY <1>0, <1>2, <1>3, <2>1, SoleMoves DEF Open
  <1>4. ASSUME ingress' = ingress, hand # NoJob, hand' = NoJob, NEW S, Spares(S),
               S \subseteq {hand.id}, waiting' \subseteq {hand.id} \ S
        PROVE  Sole' /\ Answered
    <2>1. Open' \cap S = {} /\ Queued' \cap (waiting' \cup JobIds') = {}
      BY <1>0, <1>2, <1>4 DEF Open
    <2>2. waiting' \cup JobIds' \subseteq Open
      BY <1>2, <1>4 DEF Open
    <2> QED
      BY <1>0, <1>2, <1>4, <2>1, <2>2, SoleMoves
  <1>5. CASE ReceiveAway
    <2>1. hand = NoJob /\ UNCHANGED <<outcome, waiting>>
      BY <1>5 DEF ReceiveAway, Control
    <2>2. CASE ingress # << >>
      <3>1. ingress' = Tail(ingress) /\ hand' = Head(ingress)
        BY <1>5, <2>2 DEF ReceiveAway
      <3>2. /\ Distinct' /\ Head(ingress).id \in Queued
            /\ Queued' = Queued \ {Head(ingress).id}
        BY <1>0, <2>2, <3>1, DistinctTail
      <3>3. Spares({})
        BY <2>1 DEF Spares, Answered
      <3>4. waiting' = {} /\ JobIds' \subseteq {Head(ingress).id}
        BY <1>2, <2>1, <3>1
      <3> QED
        BY <1>2, <3>2, <3>3, <3>4, SoleMoves DEF Open
    <2>3. CASE ingress = << >>
      BY <1>3, <1>5, <2>1, <2>3 DEF ReceiveAway
    <2> QED
      BY <2>2, <2>3
  <1>6. CASE Execute \/ Publish \/ Restore \/ PublishLoaded
    BY <1>3, <1>6 DEF Execute, Publish, Restore, PublishLoaded, local
  <1>7. CASE Reply
    <2>1. /\ hand # NoJob /\ hand' = NoJob /\ UNCHANGED <<ingress, waiting>>
          /\ outcome' = Told({hand.id}, verdict) /\ verdict # "new"
      BY <1>7 DEF Reply, HandReady, Executing, Types
    <2>2. Spares({hand.id})
      BY <2>1, ToldSpares
    <2> QED
      BY <1>2, <1>4, <2>1, <2>2
  <1>8. CASE HandOver
    <2>1. hand \in Job /\ hand # NoJob /\ hand' = NoJob /\ ingress' = ingress
      BY <1>8 DEF HandOver, HandReady, Executing, Types
    <2>2. CASE hand.kind = "Chat" /\ HoldJob(hand.id)
      <3>1. hand.id \in Chats
        BY <2>1, <2>2, AdmittedJobs
      <3>2. \/ Spares({}) /\ waiting' = waiting \cup {hand.id}
            \/ Spares({hand.id}) /\ waiting' = waiting
        BY <2>2, <3>1, HoldSpares
      <3> QED
        BY <1>2, <1>4, <2>1, <3>2
    <2>3. CASE UNCHANGED waiting /\ \E answer \in {"served", "failed"} :
                  outcome' = Told({hand.id}, answer)
      <3>1. Spares({hand.id})
        BY <2>3, ToldSpares
      <3> QED
        BY <1>2, <1>4, <2>1, <2>3, <3>1
    <2> QED
      BY <1>8, <2>2, <2>3 DEF HandOver
  <1>9. CASE RestoreFails
    <2>1. hand # NoJob /\ UNCHANGED <<ingress, waiting>>
      BY <1>9 DEF RestoreFails, HandReady, Executing
    <2>2. CASE UNCHANGED <<hand, outcome>>
      BY <1>3, <2>1, <2>2
    <2>3. CASE hand' = NoJob /\ outcome' = Told({hand.id}, "failed")
      <3>1. Spares({hand.id})
        BY <2>3, ToldSpares
      <3> QED
        BY <1>2, <1>4, <2>1, <2>3, <3>1
    <2> QED
      BY <1>9, <2>2, <2>3 DEF RestoreFails
  <1>10. CASE Withdraw
    <2>1. ingress' = << >> /\ outcome' = Told(Queued, "failed") /\ UNCHANGED <<waiting, hand>>
      BY <1>10 DEF Withdraw, local
    <2>2. Spares(Queued) /\ Queued' = {} /\ Distinct'
      BY <2>1, ToldSpares DEF Queued, Distinct
    <2>3. JobIds' = JobIds /\ waiting' = {}
      BY <1>2, <2>1
    <2> QED
      BY <1>0, <1>2, <2>2, <2>3, SoleMoves DEF Open
  <1> QED
    BY <1>5, <1>6, <1>7, <1>8, <1>9, <1>10

LEMMA SoleOfEnding ==
  ASSUME Types, Types', Control, Sole,
         FailAll \/ Close \/ Unwind \/ NotAlive \/ Dead
  PROVE  Sole' /\ Answered
  <1>0. /\ Queued \cap (waiting \cup Active \cup JobIds) = {} /\ Distinct
        /\ Active \subseteq Chats
    BY BooksTyped DEF Sole
  <1>1. waiting = {} /\ waiting' = {} /\ hand = NoJob /\ hand' = NoJob
    BY DEF Control, Quiet, FailAll, Close, Unwind, NotAlive, Dead, local
  <1>2. JobIds \cap Chats = {}
    BY <1>1, HeldIsNoChat
  <1>3. CASE FailAll \/ Close \/ NotAlive \/ Dead
    <2>1. JobIds' = JobIds /\ Active' = Active
      BY <1>3, RoundsTyped DEF JobIds, FailAll, Close, NotAlive, Dead, local
    <2>2. CASE FailAll
      <3>1. Queued' = Queued /\ Distinct' /\ Spares(Active)
        BY <1>0, <2>2, ToldSpares DEF FailAll, Queued, Distinct
      <3>2. Open' \cap Active = {}
        BY <1>0, <1>1, <1>2, <2>1, <3>1 DEF Open
      <3> QED
        BY <1>0, <1>1, <2>1, <3>1, <3>2, SoleMoves DEF Open
    <2>3. CASE Close
      <3>1. Queued' = {} /\ Distinct' /\ Spares(Queued)
        BY <2>3, ToldSpares DEF Close, Queued, Distinct
      <3> QED
        BY <1>0, <1>1, <2>1, <3>1, SoleMoves DEF Open
    <2>4. CASE NotAlive \/ Dead
      <3>1. Queued' = Queued /\ Distinct' /\ Spares({})
        BY <1>0, <2>4 DEF NotAlive, Dead, Queued, Distinct, Spares, Answered
      <3> QED
        BY <1>0, <1>1, <2>1, <3>1, SoleMoves DEF Open
    <2> QED
      BY <1>3, <2>2, <2>3, <2>4
  <1>4. CASE Unwind
    <2>1. Queued' = {} /\ Distinct' /\ JobIds' = {} /\ Active' = {}
      BY <1>1, <1>4 DEF Unwind, Queued, Distinct, JobIds, Active
    <2>2. \E S : Spares(S)
      BY <1>4, ToldSpares DEF Unwind
    <2>3. PICK S : Spares(S)
      BY <2>2
    <2> QED
      BY <1>1, <2>1, <2>3, SoleMoves DEF Open
  <1> QED
    BY <1>3, <1>4

LEMMA SoleStep == IInv /\ Sole /\ [Next]_vars => Sole' /\ Answered
  <1> SUFFICES ASSUME IInv, Sole, [Next]_vars PROVE Sole' /\ Answered
    OBVIOUS
  <1>1. Types /\ Types' /\ HandReady /\ Control
    BY IInvStep DEF IInv
  <1>2. CASE Http
    BY <1>1, <1>2, SoleOfHttp
  <1>3. CASE Worker
    BY <1>1, <1>3, SoleOfRounds, SoleOfLifecycle, SoleOfEnding DEF Worker
  <1>4. CASE UNCHANGED vars
    BY <1>4 DEF vars, Sole, Distinct, Open, Queued, Active, JobIds, Answered
  <1> QED
    BY <1>2, <1>3, <1>4 DEF Next, Stopped

(* A job is in one place until it is answered: what is queued, waiting,    *)
(* held or in hand has not been answered, and nothing queued is also in    *)
(* the worker's books.                                                     *)
THEOREM JobsAreSole == Spec => []Sole
  <1>1. Init => Sole
    BY DEF Init, Sole, Distinct, Open, Queued, JobIds, Active
  <1> QED
    BY <1>1, Invariance, SoleStep, PTL DEF Spec

(* Nobody is answered twice (AnsweredOnce).                                *)
THEOREM NobodyIsAnsweredTwice == Spec => AnsweredOnce
  <1>1. IInv /\ Sole /\ [Next]_vars => [Answered]_vars
    BY SoleStep
  <1> QED
    BY <1>1, Invariance, JobsAreSole, PTL DEF Spec, AnsweredOnce, Answered
=============================================================================
