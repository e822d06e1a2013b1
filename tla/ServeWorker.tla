----------------------------- MODULE ServeWorker -----------------------------
(***************************************************************************)
(* The serving core of the reloadable target: HTTP handlers that reserve   *)
(* lifecycle transitions and enqueue jobs under one mutex, and the single  *)
(* engine thread that takes the jobs, runs the scheduler rounds, executes  *)
(* the lifecycle jobs and publishes their completion                       *)
(* (crates/tuisko-serve/src/server.rs, serve_reloadable and the handlers). *)
(*                                                                         *)
(* A handler's critical section is one action: everything it does to the   *)
(* shared state happens under the lifecycle mutex. The engine thread holds *)
(* the mutex only to publish, so each of its steps between two accesses to *)
(* shared state is an action of its own.                                   *)
(***************************************************************************)
EXTENDS Naturals, Sequences, FiniteSets

CONSTANTS
    Chats,      \* chat requests, each submitted at most once
    Scores,     \* scoring requests
    Admins,     \* lifecycle requests
    NoJob,      \* no job
    MAX_BATCH,  \* scheduler slots, and capacity of the ingress channel
    MaxRounds   \* scheduler rounds a request can take (bound)

ASSUME ServeAssumption ==
    /\ MAX_BATCH \in Nat \ {0} /\ MaxRounds \in Nat \ {0}
    /\ Chats \cap Scores = {} /\ (Chats \cup Scores) \cap Admins = {}

Inference == Chats \cup Scores
Clients == Inference \cup Admins
AdminKind == {"Unload", "Load", "Park", "Resume"}

(* A job in the channel: whose it is, its kind and, for a park, whether it *)
(* asks for a minimum park.                                                *)
Job == [id : Chats, kind : {"Chat"}, hold : {FALSE}]
         \cup [id : Scores, kind : {"Score"}, hold : {FALSE}]
         \cup [id : Admins, kind : AdminKind, hold : BOOLEAN]
IsAdmin(job) == job.kind \in AdminKind

ASSUME NoJobAssumption == NoJob \notin Job

VARIABLES
    lifecycle,   \* the published state (mutex)
    deadline,    \* forced_park_until: "none", "pending" or "expired" (mutex)
    ingress,     \* the bounded jobs channel
    closed,      \* the worker has closed the channel's receiving end
    serving,     \* the HTTP side still holds senders
    gone,        \* chats whose client has disconnected
    alive,       \* worker_alive
    outcome,     \* outcome[i]: what client i has been told
    owner,       \* what the worker owns: "loaded", "parked" or "none"
    pc,          \* where the worker is
    hand,        \* the job the worker is executing
    verdict,     \* the answer it will give to that job
    waiting,     \* chats received and not yet admitted
    rounds,      \* rounds[c]: rounds left of the active chat c (0: inactive)
    held,        \* held_admin
    jobs_open    \* the worker believes more jobs can come

vars == <<lifecycle, deadline, ingress, closed, serving, gone, alive, outcome,
          owner, pc, hand, verdict, waiting, rounds, held, jobs_open>>
local == <<owner, hand, verdict, waiting, rounds, held, jobs_open>>

Active == { c \in Chats : rounds[c] > 0 }
Idle == Active = {}

Init ==
    /\ lifecycle = "Loaded" /\ deadline = "none"
    /\ ingress = << >> /\ closed = FALSE /\ serving = TRUE
    /\ gone = {} /\ alive = TRUE
    /\ outcome = [i \in Clients |-> "new"]
    /\ owner = "loaded" /\ pc = "top" /\ hand = NoJob /\ verdict = "none"
    /\ waiting = {} /\ rounds = [c \in Chats |-> 0]
    /\ held = NoJob /\ jobs_open = TRUE

(* What the clients in S are told, if they still wait for an answer.       *)
Told(S, answer) ==
    [i \in Clients |->
        IF i \in S /\ outcome[i] = "accepted" THEN answer ELSE outcome[i]]

-----------------------------------------------------------------------------
(* The HTTP side. try_send fails on a full or a closed channel; the state  *)
(* reserved for the job is then taken back before the mutex is released.   *)

BugHasRoom_Unbounded == ~closed /\ Len(ingress) <= MAX_BATCH
HasRoom == ~closed /\ Len(ingress) < MAX_BATCH

BugSendReserving_NoRollback(job, reserved) ==
    /\ lifecycle' = reserved
    /\ IF HasRoom
       THEN /\ ingress' = Append(ingress, job)
            /\ outcome' = [outcome EXCEPT ![job.id] = "accepted"]
       ELSE /\ outcome' = [outcome EXCEPT ![job.id] = "refused"]
            /\ UNCHANGED ingress
SendReserving(job, reserved) ==
    IF HasRoom
    THEN /\ ingress' = Append(ingress, job)
         /\ lifecycle' = reserved
         /\ outcome' = [outcome EXCEPT ![job.id] = "accepted"]
    ELSE /\ outcome' = [outcome EXCEPT ![job.id] = "refused"]
         /\ UNCHANGED <<ingress, lifecycle>>

(* The state under which an inference request joins the queue.             *)
BugJoins_BehindFence == {"Loaded", "Loading", "Resuming", "Parking"}
Joins == {"Loaded", "Loading", "Resuming"}

(* The first request to find the model unloaded or parked starts its load  *)
(* or its resume.                                                          *)
Wakes == CASE lifecycle = "Unloaded" -> "Loading"
           [] lifecycle = "Parked"   -> "Resuming"
           [] OTHER                  -> lifecycle

ForcedPark == lifecycle = "Parked" /\ deadline = "pending"

(* enqueue_chat_job, enqueue_score_job                                     *)
Enqueue(i) ==
    LET job == [id |-> i, kind |-> IF i \in Chats THEN "Chat" ELSE "Score",
                hold |-> FALSE]
    IN  /\ serving /\ outcome[i] = "new"
        /\ IF ForcedPark \/ Wakes \notin Joins
           THEN /\ outcome' = [outcome EXCEPT ![i] = "refused"]
                /\ UNCHANGED <<lifecycle, deadline, ingress>>
           ELSE /\ deadline' = IF lifecycle = "Parked" THEN "none" ELSE deadline
                /\ SendReserving(job, Wakes)
        /\ UNCHANGED <<closed, serving, gone, alive, pc, local>>

(* The lifecycle requests that reach the worker, and what they reserve.    *)
Reservations ==
    { <<"Loaded", "Unload", "Unloading">>, <<"Loaded", "Park", "Parking">>,
      <<"Parked", "Unload", "Unloading">>, <<"Parked", "Park", "Parking">>,
      <<"Parked", "Resume", "Resuming">>,  <<"Unloaded", "Load", "Loading">> }

(* The ones the handler answers at once, with success.                     *)
Idempotent ==
    { <<"Loaded", "Load">>, <<"Loaded", "Resume">>, <<"Unloaded", "Unload">> }

(* A resume or an unload of the parked model ends the minimum park.        *)
BugEndsHold_ResumeOnly == {"Resume"}
EndsHold == {"Resume", "Unload"}

(* lifecycle_request; only a park carries a duration                       *)
LifecycleRequest(a, kind, hold) ==
    /\ serving /\ outcome[a] = "new"
    /\ hold => kind = "Park"
    /\ \/ \E r \in Reservations :
             /\ r[1] = lifecycle /\ r[2] = kind
             /\ SendReserving([id |-> a, kind |-> kind, hold |-> hold], r[3])
             /\ deadline' = IF HasRoom /\ lifecycle = "Parked" /\ kind \in EndsHold
                            THEN "none" ELSE deadline
       \/ /\ \A r \in Reservations : <<r[1], r[2]>> # <<lifecycle, kind>>
          /\ outcome' = [outcome EXCEPT ![a] =
                IF <<lifecycle, kind>> \in Idempotent THEN "served" ELSE "refused"]
          /\ UNCHANGED <<lifecycle, deadline, ingress>>
    /\ UNCHANGED <<closed, serving, gone, alive, pc, local>>

(* A chat client goes away while its request is queued or running.         *)
Disconnect(c) ==
    /\ outcome[c] = "accepted" /\ c \notin gone
    /\ gone' = gone \cup {c}
    /\ UNCHANGED <<lifecycle, deadline, ingress, closed, serving, alive, outcome,
                   pc, local>>

(* The minimum park runs out.                                              *)
ExpireHold ==
    /\ deadline = "pending" /\ deadline' = "expired"
    /\ UNCHANGED <<lifecycle, ingress, closed, serving, gone, alive, outcome, pc,
                   local>>

(* Graceful shutdown: the senders are dropped once no connection is left.  *)
(* A connected chat holds its connection; clients of other jobs may have   *)
(* left, which nothing else can tell.                                      *)
Shutdown ==
    /\ serving
    /\ \A c \in Chats : outcome[c] = "accepted" => c \in gone \/ closed
    /\ serving' = FALSE
    /\ UNCHANGED <<lifecycle, deadline, ingress, closed, gone, alive, outcome, pc,
                   local>>

-----------------------------------------------------------------------------
(* The engine thread, one action for each step of the serve_reloadable     *)
(* loop that touches shared state.                                         *)
outside == <<closed, serving, gone, alive>>

(* hold_job: a chat whose client is gone is dropped, any other waits for   *)
(* the next admission.                                                     *)
HoldJob(c) ==
    /\ waiting' = IF c \in gone THEN waiting ELSE waiting \cup {c}
    /\ outcome' = IF c \in gone THEN Told({c}, "dropped") ELSE outcome

(* Active chats whose client is gone or whose lane is lost.                *)
Doomed == { c \in Active : c \in gone \/ outcome[c] # "accepted" }

(* cancel_disconnected, then the choice of the branch of the loop          *)
Top ==
    /\ pc = "top"
    /\ LET cancelled == IF owner = "loaded" THEN Doomed ELSE {} IN
       /\ rounds' = [c \in Chats |-> IF c \in cancelled THEN 0 ELSE rounds[c]]
       /\ outcome' = Told(cancelled, "dropped")
       /\ pc' = CASE owner = "loaded" /\ (~Idle' \/ waiting # {} \/ held # NoJob
                                            \/ ~jobs_open) -> "fill"
                  [] owner # "loaded" /\ ~jobs_open -> "unwind"
                  [] OTHER -> "recv"
    /\ UNCHANGED <<lifecycle, deadline, ingress, outside, owner, hand, verdict,
                   waiting, held, jobs_open>>

(* The engine refuses one of the cancellations.                            *)
CancelFails ==
    /\ pc = "top" /\ owner = "loaded"
    /\ \E tried \in (SUBSET Doomed) \ {{}} : outcome' = Told(tried, "dropped")
    /\ pc' = "fail_all"
    /\ UNCHANGED <<lifecycle, deadline, ingress, outside, local>>

(* blocking_recv with the model loaded and idle                            *)
ReceiveIdle ==
    /\ pc = "recv" /\ owner = "loaded"
    /\ \/ /\ ingress # << >> /\ ingress' = Tail(ingress)
          /\ LET job == Head(ingress) IN
             \/ job.kind = "Chat" /\ HoldJob(job.id) /\ pc' = "fill"
                  /\ UNCHANGED <<hand, held>>
             \/ job.kind = "Score" /\ hand' = job /\ pc' = "score"
                  /\ UNCHANGED <<held, waiting, outcome>>
             \/ IsAdmin(job) /\ held' = job /\ pc' = "fill"
                  /\ UNCHANGED <<hand, waiting, outcome>>
          /\ UNCHANGED jobs_open
       \/ /\ ingress = << >> /\ ~serving /\ jobs_open' = FALSE /\ pc' = "fill"
          /\ UNCHANGED <<ingress, hand, held, waiting, outcome>>
    /\ UNCHANGED <<lifecycle, deadline, outside, owner, verdict, rounds>>

(* run_score_job of the job just received                                  *)
Score ==
    /\ pc = "score" /\ pc' = "fill" /\ hand' = NoJob
    /\ \E answer \in {"served", "failed"} : outcome' = Told({hand.id}, answer)
    /\ UNCHANGED <<lifecycle, deadline, ingress, outside, owner, verdict, waiting,
                   rounds, held, jobs_open>>

(* The try_recv loop takes jobs until a lifecycle job is held or every     *)
(* slot has its request; it runs no scoring job.                           *)
Filling ==
    /\ jobs_open /\ held = NoJob
    /\ Cardinality(Active) + Cardinality(waiting) < MAX_BATCH

Fill ==
    /\ pc = "fill"
    /\ IF Filling /\ ingress # << >>
       THEN /\ ingress' = Tail(ingress) /\ UNCHANGED <<pc, jobs_open>>
            /\ LET job == Head(ingress) IN
               \/ job.kind = "Chat" /\ HoldJob(job.id) /\ UNCHANGED held
               \/ job.kind = "Score" /\ outcome' = Told({job.id}, "busy")
                    /\ UNCHANGED <<held, waiting>>
               \/ IsAdmin(job) /\ held' = job /\ UNCHANGED <<waiting, outcome>>
       ELSE /\ pc' = "admit"
            /\ jobs_open' = (jobs_open /\ (Filling => serving))
            /\ UNCHANGED <<ingress, held, waiting, outcome>>
    /\ UNCHANGED <<lifecycle, deadline, outside, owner, hand, verdict, rounds>>

(* After admission: run a round, execute the lifecycle job once no request *)
(* is active, go round the loop, or leave it.                              *)
BugAfterAdmission_HeldForgotten(active) ==
    IF active # {} THEN "step" ELSE IF jobs_open THEN "top" ELSE "unwind"
AfterAdmission(active) ==
    IF active # {} THEN "step"
    ELSE IF held # NoJob THEN "execute" ELSE IF jobs_open THEN "top" ELSE "unwind"

(* admit_group and record_admission: each chat is refused by the engine,   *)
(* completed by its prompt pass alone, or active for some rounds.          *)
Admit ==
    /\ pc = "admit"
    /\ \E left \in [waiting -> 0 .. MaxRounds], bad \in SUBSET waiting :
          /\ \A c \in bad : left[c] = 0
          /\ rounds' = [c \in Chats |-> IF c \in waiting THEN left[c] ELSE rounds[c]]
          /\ outcome' = [i \in Clients |->
                CASE i \in bad -> IF i \in gone THEN "dropped" ELSE "failed"
                  [] i \in waiting \ bad /\ left[i] = 0 -> "served"
                  [] OTHER -> outcome[i]]
    /\ waiting' = {}
    /\ pc' = AfterAdmission(Active')
    /\ hand' = IF pc' = "execute" THEN held ELSE hand
    /\ held' = IF pc' = "execute" THEN NoJob ELSE held
    /\ UNCHANGED <<lifecycle, deadline, ingress, outside, owner, verdict, jobs_open>>

(* One scheduler round: some requests complete, some reply lanes are full  *)
(* or closed and are lost, the last answer included.                       *)
Step ==
    /\ pc = "step" /\ pc' = "top"
    /\ \E done \in SUBSET Active, lost \in SUBSET Active :
          /\ \A c \in Active : rounds[c] = 1 => c \in done
          /\ rounds' = [c \in Chats |->
                IF c \in done \/ c \notin Active THEN 0 ELSE rounds[c] - 1]
          /\ outcome' = [i \in Clients |->
                IF i \notin Active \/ outcome[i] # "accepted" THEN outcome[i]
                ELSE IF i \in lost THEN "dropped"
                ELSE IF i \in done THEN "served" ELSE outcome[i]]
    /\ UNCHANGED <<lifecycle, deadline, ingress, outside, owner, hand, verdict,
                   waiting, held, jobs_open>>

StepFails ==
    /\ pc = "step" /\ pc' = "fail_all"
    /\ UNCHANGED <<lifecycle, deadline, ingress, outside, outcome, local>>

-----------------------------------------------------------------------------
(* The engine thread with the model parked or unloaded, and the lifecycle  *)
(* jobs. It executes first, then publishes, then replies.                  *)

(* What the worker publishes when it is done.                              *)
Settled == CASE owner = "loaded" -> "Loaded"
             [] owner = "parked" -> "Parked"
             [] owner = "none"   -> "Unloaded"

(* blocking_recv: every job starts a restore, except the lifecycle jobs    *)
(* that the parked model answers as it is.                                 *)
ReceiveAway ==
    /\ pc = "recv" /\ owner # "loaded"
    /\ \/ /\ ingress # << >> /\ ingress' = Tail(ingress) /\ hand' = Head(ingress)
          /\ pc' = IF owner = "parked" /\ IsAdmin(hand') /\ hand'.kind # "Resume"
                   THEN "execute" ELSE "restore"
       \/ /\ ingress = << >> /\ ~serving /\ pc' = "unwind"
          /\ UNCHANGED <<ingress, hand>>
    /\ UNCHANGED <<lifecycle, deadline, outside, outcome, owner, verdict, waiting,
                   rounds, held, jobs_open>>

(* An unload drops what is owned; a park that fails gives the generator    *)
(* back. The kinds a state does not expect leave it as it is.              *)
Execute ==
    /\ pc = "execute" /\ pc' = "publish"
    /\ \E ok \in BOOLEAN :
          /\ ~ok => owner = "loaded" /\ hand.kind = "Park"
          /\ owner' = CASE hand.kind = "Unload" -> "none"
                        [] hand.kind = "Park" /\ ok -> "parked"
                        [] OTHER -> owner
          /\ verdict' = IF ok /\ ~(hand.kind = "Load" /\ owner = "parked")
                        THEN "served" ELSE "failed"
    /\ UNCHANGED <<lifecycle, deadline, ingress, outside, outcome, hand, waiting,
                   rounds, held, jobs_open>>

(* publish_parked for a park that succeeded: the new deadline replaces the *)
(* old one, whatever it was.                                               *)
DeadlineOf(job) == IF job.hold THEN "pending" ELSE "none"

Publish ==
    /\ pc = "publish" /\ pc' = "reply"
    /\ lifecycle' = Settled
    /\ deadline' = IF hand.kind = "Park" /\ verdict = "served"
                   THEN DeadlineOf(hand) ELSE deadline
    /\ UNCHANGED <<ingress, outside, outcome, local>>

Reply ==
    /\ pc = "reply" /\ pc' = "top"
    /\ outcome' = Told({hand.id}, verdict)
    /\ hand' = NoJob /\ verdict' = "none"
    /\ UNCHANGED <<lifecycle, deadline, ingress, outside, owner, waiting, rounds,
                   held, jobs_open>>

(* G::resume or reload() succeeds; the worker publishes, then hands the    *)
(* job over to the loaded model.                                           *)
Restore ==
    /\ pc = "restore" /\ pc' = "restored" /\ owner' = "loaded"
    /\ UNCHANGED <<lifecycle, deadline, ingress, outside, outcome, hand, verdict,
                   waiting, rounds, held, jobs_open>>

PublishLoaded ==
    /\ pc = "restored" /\ pc' = "handover" /\ lifecycle' = Settled
    /\ UNCHANGED <<deadline, ingress, outside, outcome, local>>

HandOver ==
    /\ pc = "handover" /\ pc' = "top" /\ hand' = NoJob
    /\ \/ hand.kind = "Chat" /\ HoldJob(hand.id)
       \/ hand.kind = "Score"
            /\ \E answer \in {"served", "failed"} : outcome' = Told({hand.id}, answer)
            /\ UNCHANGED waiting
       \/ IsAdmin(hand) /\ outcome' = Told({hand.id}, "served") /\ UNCHANGED waiting
    /\ UNCHANGED <<lifecycle, deadline, ingress, outside, owner, verdict, rounds,
                   held, jobs_open>>

(* The restore fails. An explicit resume is answered after the state has   *)
(* been published, every other job before.                                 *)
RestoreFails ==
    /\ pc = "restore"
    /\ IF owner = "parked" /\ IsAdmin(hand)
       THEN pc' = "withdraw" /\ verdict' = "failed" /\ UNCHANGED <<hand, outcome>>
       ELSE /\ pc' = "withdraw" /\ hand' = NoJob /\ UNCHANGED verdict
            /\ outcome' = Told({hand.id}, "failed")
    /\ UNCHANGED <<lifecycle, deadline, ingress, outside, owner, waiting, rounds,
                   held, jobs_open>>

Queued == { ingress[k].id : k \in 1 .. Len(ingress) }

(* The state is taken back and everything queued behind the attempt fails  *)
(* in one critical section (fail_load_queued, fail_resume_queued).         *)
BugWithdraw_QueueKept ==
    /\ pc = "withdraw"
    /\ lifecycle' = Settled
    /\ pc' = IF hand = NoJob THEN "top" ELSE "reply"
    /\ UNCHANGED <<deadline, ingress, outcome, outside, local>>
Withdraw ==
    /\ pc = "withdraw"
    /\ lifecycle' = Settled /\ ingress' = << >> /\ outcome' = Told(Queued, "failed")
    /\ pc' = IF hand = NoJob THEN "top" ELSE "reply"
    /\ UNCHANGED <<deadline, outside, local>>

-----------------------------------------------------------------------------
(* The end of the engine thread.                                           *)

(* fail_all, then jobs.close() and fail_queued                             *)
FailAll ==
    /\ pc = "fail_all" /\ pc' = "close"
    /\ outcome' = Told(Active, "failed")
    /\ UNCHANGED <<lifecycle, deadline, ingress, outside, local>>

Close ==
    /\ pc = "close" /\ pc' = "unwind"
    /\ closed' = TRUE /\ ingress' = << >> /\ outcome' = Told(Queued, "failed")
    /\ UNCHANGED <<lifecycle, deadline, serving, gone, alive, local>>

(* The loop's locals are dropped: a held lifecycle job with its reply      *)
(* sender, the generator, the receiver of the channel.                     *)
Unwind ==
    /\ pc = "unwind" /\ pc' = "guard"
    /\ outcome' = Told(Queued \cup Active
                         \cup (IF held = NoJob THEN {} ELSE {held.id}), "dropped")
    /\ closed' = TRUE /\ ingress' = << >>
    /\ owner' = "none" /\ held' = NoJob /\ rounds' = [c \in Chats |-> 0]
    /\ UNCHANGED <<lifecycle, deadline, serving, gone, alive, hand, verdict, waiting,
                   jobs_open>>

(* ReadinessGuard::drop                                                    *)
NotAlive ==
    /\ pc = "guard" /\ pc' = "dying" /\ alive' = FALSE
    /\ UNCHANGED <<lifecycle, deadline, ingress, closed, serving, gone, outcome,
                   local>>

Dead ==
    /\ pc = "dying" /\ pc' = "exited" /\ lifecycle' = "Dead"
    /\ UNCHANGED <<deadline, ingress, outside, outcome, local>>

(* Nothing is left to do.                                                  *)
Stopped == pc = "exited" /\ ~serving /\ UNCHANGED vars

-----------------------------------------------------------------------------
Http ==
    \/ \E i \in Inference : Enqueue(i)
    \/ \E a \in Admins, kind \in AdminKind, hold \in BOOLEAN :
          LifecycleRequest(a, kind, hold)
    \/ \E c \in Chats : Disconnect(c)
    \/ ExpireHold
    \/ Shutdown

Worker ==
    \/ Top \/ CancelFails \/ ReceiveIdle \/ Score \/ Fill \/ Admit \/ Step \/ StepFails
    \/ ReceiveAway \/ Execute \/ Publish \/ Reply
    \/ Restore \/ PublishLoaded \/ HandOver \/ RestoreFails \/ Withdraw
    \/ FailAll \/ Close \/ Unwind \/ NotAlive \/ Dead

Next == Http \/ Worker \/ Stopped

Spec == Init /\ [][Next]_vars

(* The operating system runs the engine thread; clients owe nothing.       *)
FairSpec == Spec /\ WF_vars(Worker)

-----------------------------------------------------------------------------
(* The types of the variables, with the capacity of the channel and the    *)
(* bound of a batch (channel(MAX_BATCH), TextGenerator::slot_capacity).    *)
PC == {"top", "recv", "score", "fill", "admit", "step", "execute", "publish",
       "reply", "restore", "restored", "handover", "withdraw", "fail_all",
       "close", "unwind", "guard", "dying", "exited"}

States == {"Loaded", "Parked", "Unloaded", "Loading", "Unloading", "Parking",
           "Resuming", "Dead"}
Outcomes == {"new", "accepted", "refused", "served", "failed", "busy", "dropped"}

Types ==
    /\ lifecycle \in States
    /\ deadline \in {"none", "pending", "expired"}
    /\ ingress \in Seq(Job) /\ Len(ingress) <= MAX_BATCH
    /\ {closed, serving, alive, jobs_open} \subseteq BOOLEAN
    /\ gone \subseteq Chats /\ waiting \subseteq Chats
    /\ outcome \in [Clients -> Outcomes]
    /\ owner \in {"loaded", "parked", "none"} /\ pc \in PC
    /\ hand \in Job \cup {NoJob} /\ held \in Job \cup {NoJob}
    /\ verdict \in {"none", "served", "failed"}
    /\ rounds \in [Chats -> 0 .. MaxRounds]
BatchFits == Cardinality(Active) + Cardinality(waiting) <= MAX_BATCH
TypeOK == Types /\ BatchFits

(* The lifecycle job whose transition the worker has not published yet.    *)
Unpublished ==
    {held, hand} \ ({NoJob} \cup (IF pc = "reply" THEN {hand} ELSE {}))

(* The ingress fence of docs/PLAN-offload-gpu-and-kv.md 2.3: while an      *)
(* unload or a park is reserved, its job is the last one accepted. Nothing *)
(* can land behind it, so nothing can be lost with the generator.          *)
FenceIsLast ==
    lifecycle \in {"Unloading", "Parking"} /\ ~closed =>
        LET Reserved(job) == job.kind = (IF lifecycle = "Unloading" THEN "Unload"
                                         ELSE "Park") IN
        \/ /\ ingress # << >> /\ Reserved(ingress[Len(ingress)])
           /\ \A k \in 1 .. Len(ingress) - 1 : ~IsAdmin(ingress[k])
        \/ /\ ingress = << >>
           /\ \E job \in Unpublished : IsAdmin(job) /\ Reserved(job)

(* The published stable states tell the truth about what the worker owns,  *)
(* and about its queue: a parked or unloaded model has no request left     *)
(* queued, waiting or active, also right after a failed restore whose      *)
(* backlog was failed (fail_load_queued, fail_resume_queued).              *)
SettledIsTrue ==
    ~closed =>
        /\ lifecycle = "Loaded" => owner = "loaded"
        /\ lifecycle \in {"Parked", "Unloaded"} =>
             /\ lifecycle = Settled
             /\ ingress = << >> /\ waiting = {} /\ Idle /\ Unpublished = {}

(* No inference request joins the queue while a minimum park runs: the     *)
(* deadline never outlives the parked state it was set for.                *)
NoAdmissionDuringHold ==
    [][deadline = "pending" =>
         \A i \in Inference : outcome[i] = "new" => outcome'[i] # "accepted"]_vars

(* Every accepted request is answered or its reply channel closed: by the  *)
(* scheduler, by a refusal, by a failed restore, or by the worker's end.   *)
EveryJobSettles ==
    \A i \in Clients : outcome[i] = "accepted" ~> outcome[i] # "accepted"

(* What a client sees of the model is the lifecycle of ModelLifecycle, in  *)
(* which every transition settles.                                         *)
Abstract == INSTANCE ModelLifecycle WITH state <- lifecycle
ImplementsLifecycle == Abstract!Spec

(* README.md: "POST /v1/park?seconds=N instead enforces a minimum park of  *)
(* N whole seconds"; "An explicit /v1/resume overrides the hold". So a     *)
(* hold that still runs ends by a resume, or with the parked model.        *)
HoldIsKept ==
    [][deadline = "pending" /\ deadline' = "none"
         => lifecycle' \in {"Resuming", "Unloading"}]_vars

=============================================================================
