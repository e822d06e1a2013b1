------------------------------ MODULE ReplyLane ------------------------------
(***************************************************************************)
(* One chat request from the ingress queue to the client's last byte: the  *)
(* engine thread (crates/tuisko-serve/src/server.rs), the bounded lane of  *)
(* replies it feeds without ever waiting, the task that reads the lane     *)
(* and writes the HTTP body (response.rs), and the client, who reads at    *)
(* its own pace and may hang up at any time.                               *)
(*                                                                         *)
(* The other requests appear as what they do to this one: a scheduler      *)
(* round may fail for all. A delta of text is its number.                  *)
(***************************************************************************)
EXTENDS Naturals, SequencesExt

CONSTANTS
    LaneRoom,   \* GENERATION_REPLY_BUFFER
    EventRoom,  \* STREAM_EVENT_BUFFER
    MaxRounds,  \* rounds the request's token budget can last (bound)
    MaxBurst    \* deltas of text one round can produce

ASSUME LaneAssumption ==
    /\ LaneRoom \in Nat \ {0} /\ EventRoom \in Nat \ {0}
    /\ MaxRounds \in Nat \ {0} /\ MaxBurst \in Nat

VARIABLES
    \* the engine thread
    place,      \* where the request is, or how it left
    pc,         \* where the thread is in its loop, while the request is active
    sender,     \* the lane's sender is still held
    burst,      \* deltas of the current event not yet sent
    ends,       \* the current event completes the request
    rounds,     \* scheduler rounds the request took part in
    made,       \* deltas the engine produced
    late,       \* rounds begun after the client's disconnection was published
    \* the lane and its reader
    lane,       \* replies in the channel
    heard,      \* numbers of the deltas the reader took
    todo,       \* events the reader still has to write
    ending,     \* nothing will be read from the lane any more
    \* the HTTP body
    streaming,  \* the client asked for a stream
    sent,       \* events written to the body
    taken,      \* how many of them the client has read
    conn        \* the client's end of the response

engine == <<place, pc, sender, burst, ends, rounds, made, late>>
reader == <<heard, todo, ending>>
body == <<streaming, sent, taken, conn>>
vars == <<engine, lane, reader, body>>

Left == {"completed", "cancelled", "refused", "failed"}
Verdicts == {"finish", "error"}
EventKinds == {"role", "text", "calls", "usage", "DONE"} \cup Verdicts

Delta(n) == [kind |-> "Delta", n |-> n]
Done == [kind |-> "Done", n |-> 0]
Error == [kind |-> "Error", n |-> 0]
Replies == [kind : {"Delta", "Done", "Error"}, n : Nat]

Init ==
    /\ place = "queued" /\ pc = "idle" /\ sender = TRUE
    /\ burst = 0 /\ ends = FALSE /\ rounds = 0 /\ made = 0 /\ late = 0
    /\ lane = << >> /\ heard = << >> /\ ending = FALSE
    /\ streaming \in BOOLEAN
    /\ todo = IF streaming THEN <<"role">> ELSE << >>
    /\ sent = << >> /\ taken = 0 /\ conn = "open"

(* ClientStatus::is_disconnected: the flag is set when the guard is dropped. *)
Disconnected == conn \in {"ended", "closed"}
(* The reader has returned, and with it the lane's receiver is gone.        *)
LaneClosed == ending /\ todo = << >>

-----------------------------------------------------------------------------
(* The engine thread. It only ever try_sends.                              *)

(* What the lane holds after a try_send of r, if the sender is still held. *)
BugFits_OneMore == sender /\ ~LaneClosed /\ Len(lane) <= LaneRoom
Fits == sender /\ ~LaneClosed /\ Len(lane) < LaneRoom
Offered(r) == IF Fits THEN Append(lane, r) ELSE lane

(* The request leaves the scheduler and its sender is dropped.             *)
BugLeaves_SenderKept(how) ==
    /\ place' = how /\ pc' = "idle"
    /\ UNCHANGED <<sender, burst, ends, rounds, made, late>>
Leaves(how) ==
    /\ place' = how /\ pc' = "idle" /\ sender' = FALSE
    /\ UNCHANGED <<burst, ends, rounds, made, late>>

(* hold_job                                                                *)
Hold ==
    /\ place = "queued"
    /\ IF Disconnected \/ LaneClosed
       THEN Leaves("cancelled")
       ELSE /\ place' = "waiting"
            /\ UNCHANGED <<pc, sender, burst, ends, rounds, made, late>>
    /\ UNCHANGED <<lane, reader, body>>

(* The model cannot be loaded or resumed, or the engine died: the job is   *)
(* answered from the queue.                                                *)
FailQueued ==
    /\ place = "queued"
    /\ lane' = Offered(Error) /\ Leaves("refused")
    /\ UNCHANGED <<reader, body>>

(* admit_group, record_admission: admitted; completed at once (no token    *)
(* asked for); or refused, silently if the client is gone.                 *)
Admit ==
    /\ place = "waiting"
    /\ \/ /\ place' = "active" /\ pc' = "step"
          /\ UNCHANGED <<lane, sender, burst, ends, rounds, made, late>>
       \/ lane' = Offered(Done) /\ Leaves("completed")
       \/ /\ lane' = IF Disconnected THEN lane ELSE Offered(Error)
          /\ Leaves(IF Disconnected THEN "cancelled" ELSE "refused")
    /\ UNCHANGED <<reader, body>>

(* Whom cancel_disconnected takes out of the scheduler.                    *)
BugAbandoned_FlagOnly == Disconnected
Abandoned == Disconnected \/ ~sender \/ LaneClosed

(* cancel_disconnected, at the top of the loop. Its sender is dropped with *)
(* the reply record even when the engine refuses the cancellation.         *)
Scan ==
    /\ pc = "scan"
    /\ IF Abandoned
       THEN \E how \in {"cancelled", "failed"} : Leaves(how)
       ELSE /\ pc' = "step"
            /\ UNCHANGED <<place, sender, burst, ends, rounds, made, late>>
    /\ UNCHANGED <<lane, reader, body>>

(* step: the request's event carries up to MaxBurst deltas, and completes  *)
(* it at the latest when its token budget is used up.                      *)
Step ==
    /\ pc = "step"
    /\ rounds' = rounds + 1
    /\ late' = IF Disconnected THEN late + 1 ELSE late
    /\ \E n \in 0..MaxBurst : burst' = n /\ made' = made + n
    /\ ends' \in (IF rounds + 1 = MaxRounds THEN {TRUE} ELSE BOOLEAN)
    /\ pc' = "emit"
    /\ UNCHANGED <<place, sender, lane, reader, body>>

(* fail_all: a round, or the cancellation of another request, failed.      *)
FailAll ==
    /\ pc \in {"scan", "step"}
    /\ lane' = Offered(Error)
    /\ Leaves("failed")
    /\ UNCHANGED <<reader, body>>

(* try_send_generation_steps: the first delta that does not fit ends the   *)
(* event and drops the sender.                                             *)
BugSendDelta_GoesOn ==
    /\ pc = "emit" /\ burst > 0
    /\ lane' = Offered(Delta(made - burst + 1))
    /\ burst' = burst - 1
    /\ UNCHANGED <<place, pc, sender, ends, rounds, made, late, reader, body>>
BugSendDelta_Waits ==
    /\ pc = "emit" /\ burst > 0
    /\ sender /\ ~LaneClosed => Fits
    /\ lane' = Offered(Delta(made - burst + 1))
    /\ sender' = Fits
    /\ burst' = IF Fits THEN burst - 1 ELSE 0
    /\ UNCHANGED <<place, pc, ends, rounds, made, late, reader, body>>
SendDelta ==
    /\ pc = "emit" /\ burst > 0
    /\ lane' = Offered(Delta(made - burst + 1))
    /\ sender' = Fits
    /\ burst' = IF Fits THEN burst - 1 ELSE 0
    /\ UNCHANGED <<place, pc, ends, rounds, made, late, reader, body>>

(* The end of the event: a completed request is removed and told so, if    *)
(* its sender survived and the lane has room.                              *)
EndEvent ==
    /\ pc = "emit" /\ burst = 0
    /\ IF ends
       THEN /\ lane' = Offered(Done)
            /\ Leaves("completed")
       ELSE /\ pc' = "scan"
            /\ UNCHANGED <<place, sender, burst, ends, rounds, made, late, lane>>
    /\ UNCHANGED <<reader, body>>

Engine == Hold \/ FailQueued \/ Admit \/ Scan \/ Step \/ FailAll \/ SendDelta \/ EndEvent

-----------------------------------------------------------------------------
(* The reader of the lane.                                                 *)

(* A lane whose sender is gone and that is empty reads as an error.        *)
BugNextReply_ClosedIsDone == IF lane # << >> THEN Head(lane) ELSE Done
NextReply == IF lane # << >> THEN Head(lane) ELSE Error
Readable == ~ending /\ todo = << >> /\ (lane # << >> \/ ~sender)
Heard(r) ==
    /\ lane' = IF lane # << >> THEN Tail(lane) ELSE lane
    /\ heard' = IF r.kind = "Delta" THEN Append(heard, r.n) ELSE heard
    /\ ending' = (r.kind # "Delta")

(* The events a reply turns into. The parser may hold a delta back for a   *)
(* marker it could be the start of, flush text and calls at the end, or    *)
(* find the calls in breach of the request's constraint.                   *)
Optional(e) == {<< >>, <<e>>}
Malformed == <<"error">>
Script(r) ==
    CASE r.kind = "Delta" -> Optional("text")
      [] r.kind = "Done"  ->
            { t \o c \o <<"finish">> \o u \o <<"DONE">> :
                t \in Optional("text"), c \in Optional("calls"), u \in Optional("usage") }
              \cup {Malformed}
      [] r.kind = "Error" -> {<<"error", "DONE">>}

(* The pump of streaming_response receives a reply ...                     *)
PumpReceives ==
    /\ streaming /\ Readable
    /\ Heard(NextReply)
    /\ todo' \in Script(NextReply)
    /\ UNCHANGED <<engine, body>>

(* ... and writes its events, waiting for room; it returns at the first    *)
(* that the client's end no longer takes.                                  *)
PumpWrites ==
    /\ streaming /\ todo # << >>
    /\ IF conn = "open"
       THEN /\ Len(sent) - taken < EventRoom
            /\ sent' = Append(sent, Head(todo)) /\ todo' = Tail(todo)
            /\ UNCHANGED ending
       ELSE /\ todo' = << >> /\ ending' = TRUE
            /\ UNCHANGED sent
    /\ UNCHANGED <<engine, lane, heard, streaming, taken, conn>>

(* blocking_response collects the lane and answers once; the handler then  *)
(* drops the connection guard.                                             *)
Collect ==
    /\ ~streaming /\ Readable
    /\ Heard(NextReply)
    /\ IF NextReply.kind = "Delta"
       THEN UNCHANGED <<sent, conn>>
       ELSE /\ \E answer \in IF NextReply.kind = "Done" THEN Verdicts ELSE {"error"} :
                  sent' = <<answer>>
            /\ conn' = "ended"
    /\ UNCHANGED <<engine, todo, streaming, taken>>

-----------------------------------------------------------------------------
(* The client.                                                             *)

(* ClientEventStream::poll_next                                            *)
Poll ==
    /\ streaming /\ conn = "open" /\ taken < Len(sent)
    /\ taken' = taken + 1
    /\ UNCHANGED <<engine, lane, reader, streaming, sent, conn>>

(* The body is read to its end and dropped.                                *)
ReadToEnd ==
    /\ streaming /\ conn = "open" /\ LaneClosed /\ taken = Len(sent)
    /\ conn' = "ended"
    /\ UNCHANGED <<engine, lane, reader, streaming, sent, taken>>

(* The client goes away. What it leaves is dropped in order: first the     *)
(* channel (the events of a stream, the lane of a blocking handler) ...    *)
HangUp ==
    /\ conn = "open" /\ conn' = "closing"
    /\ IF streaming THEN UNCHANGED <<todo, ending>>
                    ELSE todo' = << >> /\ ending' = TRUE
    /\ UNCHANGED <<engine, lane, heard, streaming, sent, taken>>

(* ... then the guard, whose drop publishes the disconnection.             *)
DropGuard ==
    /\ conn = "closing" /\ conn' = "closed"
    /\ UNCHANGED <<engine, lane, reader, streaming, sent, taken>>

Reader == PumpReceives \/ PumpWrites \/ Collect
Client == Poll \/ ReadToEnd \/ HangUp \/ DropGuard
Stopped == conn \in {"ended", "closed"} /\ place \in Left /\ UNCHANGED vars

Next == Engine \/ Reader \/ Client \/ Stopped

(* The engine thread, the runtime's tasks and the drop of an abandoned     *)
(* response always go on. Nothing makes a client read or hang up.          *)
Fairness ==
    /\ WF_vars(Hold) /\ WF_vars(Admit) /\ WF_vars(Scan) /\ WF_vars(Step)
    /\ WF_vars(SendDelta) /\ WF_vars(EndEvent)
    /\ WF_vars(Reader) /\ WF_vars(ReadToEnd) /\ WF_vars(DropGuard)
Spec == Init /\ [][Next]_vars /\ Fairness

-----------------------------------------------------------------------------
(* Every variable has its type and neither channel exceeds its bound.      *)
TypeOK ==
    /\ place \in {"queued", "waiting", "active"} \cup Left
    /\ pc \in {"idle", "scan", "step", "emit"} /\ (pc # "idle" <=> place = "active")
    /\ burst \in 0..MaxBurst /\ rounds \in 0..MaxRounds
    /\ sender \in BOOLEAN /\ ends \in BOOLEAN /\ ending \in BOOLEAN /\ streaming \in BOOLEAN
    /\ made \in Nat /\ late \in 0..MaxRounds
    /\ lane \in Seq(Replies) /\ Len(lane) <= LaneRoom
    /\ heard \in Seq(Nat) /\ todo \in Seq(EventKinds)
    /\ sent \in Seq(EventKinds) /\ taken \in 0..Len(sent)
    /\ Len(sent) - taken <= EventRoom
    /\ conn \in {"open", "closing", "closed", "ended"}

(* The text the client is given has no gap: the deltas taken from the lane *)
(* and those still in it are the first ones the engine produced, whatever  *)
(* was dropped on the way (try_send_generation_steps, response.rs).        *)
NoGap ==
    /\ \A i \in DOMAIN heard : heard[i] = i
    /\ \A i \in DOMAIN lane : lane[i].kind = "Delta" => lane[i].n = Len(heard) + i

(* What the client is told is true. A finish is only ever written for a    *)
(* request that completed and all of whose text was written before it; a   *)
(* verdict, good or bad, is never given while the engine can still send.   *)
VerdictIsTrue ==
    LET written == sent \o todo
    IN  /\ Contains(written, "finish") =>
              place = "completed" /\ Len(heard) = made
        /\ \A v \in Verdicts : Contains(written, v) => ~sender

(* Nobody's work ends at once: after a disconnection is published the      *)
(* request takes part in one more round at most, and a request whose lane  *)
(* was lost in none (cancel_disconnected before every round).              *)
LeavesPromptly == late <= 1 /\ (pc = "step" => sender)

(* A client that does not read, or hangs up, never holds the engine: every *)
(* request leaves the scheduler, with no fairness asked of the client.     *)
RequestLeaves == (place = "queued") ~> (place \in Left)

(* A client that keeps reading comes to the end of its response, or hangs  *)
(* up: no lost reply leaves it waiting.                                    *)
ReaderSeesEnd == WF_vars(Poll) => ((conn = "open") ~> (conn # "open"))

(* streaming_response is documented (response.rs:222) to stream the events *)
(* "followed by `[DONE]`".                                                 *)
EndsInDone ==
    streaming /\ LaneClosed /\ conn = "open" => Last(sent) = "DONE"
=============================================================================
