--------------------------- MODULE ReplyLane_proofs ---------------------------
(***************************************************************************)
(* Safety of ReplyLane for channels of every size and budgets of every     *)
(* length: the text has no gap, a verdict is true, no round is run for     *)
(* nobody, and the events of a body are in order.                          *)
(***************************************************************************)
EXTENDS ReplyLane, TLAPS

(* The scheduler side: what is still untouched while the request waits,    *)
(* and that every round is preceded by a scan that found the client there. *)
Scheduled ==
    /\ place \in {"queued", "waiting"} =>
          sender /\ made = 0 /\ burst = 0 /\ rounds = 0 /\ late = 0
    /\ place \in Left => ~sender
    /\ pc = "step" => sender /\ late = 0 /\ burst = 0 /\ rounds < MaxRounds
    /\ pc = "scan" => burst = 0 /\ rounds < MaxRounds
    /\ pc = "emit" => burst <= made /\ (rounds = MaxRounds => ends)
    /\ late <= 1 /\ (late = 1 => Disconnected)

(* The lane continues where the reader is, up to what the engine sent; its *)
(* last entry at most is a verdict, and then nothing more will be sent.    *)
Consecutive ==
    /\ \A i \in DOMAIN heard : heard[i] = i
    /\ \A i \in DOMAIN lane :
          /\ lane[i].kind = "Delta" => lane[i].n = Len(heard) + i /\ lane[i].n <= made
          /\ lane[i].kind # "Delta" => i = Len(lane) /\ ~sender
          /\ lane[i].kind = "Done" =>
                place = "completed" /\ made = Len(heard) + Len(lane) - 1
    /\ sender => Len(heard) + Len(lane) + burst = made

Written(e) == (\E i \in DOMAIN sent : sent[i] = e) \/ (\E i \in DOMAIN todo : todo[i] = e)

(* Once a verdict is written nothing more is read.                         *)
Final ==
    /\ Written("finish") => place = "completed" /\ Len(heard) = made
    /\ \A v \in Verdicts : Written(v) => ~sender /\ ending

(* A blocking answer has no pump and no body to poll.                      *)
Blocking == ~streaming => todo = << >> /\ taken = 0

IInv == TypeOK /\ Scheduled /\ Consecutive /\ Final /\ Blocking

-----------------------------------------------------------------------------
(* What a try_send leaves in the lane.                                     *)
LEMMA OfferedIs ==
    ASSUME TypeOK, NEW r \in Replies
    PROVE  /\ Offered(r) \in Seq(Replies) /\ Len(Offered(r)) <= LaneRoom
           /\ DOMAIN lane = 1..Len(lane) /\ Len(lane) \in Nat
           /\ DOMAIN Offered(r) = 1..Len(Offered(r))
           /\ ~Fits => Offered(r) = lane
           /\ Fits => /\ sender
                      /\ Len(Offered(r)) = Len(lane) + 1
                      /\ Offered(r)[Len(lane) + 1] = r
                      /\ \A i \in DOMAIN lane : Offered(r)[i] = lane[i]
<1> USE LaneAssumption DEF TypeOK
<1>1. lane \in Seq(Replies) /\ Len(lane) \in Nat /\ DOMAIN lane = 1..Len(lane)
  OBVIOUS
<1>2. CASE Fits
  <2>1. sender /\ Len(lane) < LaneRoom /\ Offered(r) = Append(lane, r)
    BY <1>2 DEF Offered, Fits
  <2> HIDE DEF TypeOK
  <2>2. QED
    BY <1>1, <1>2, <2>1
<1>3. CASE ~Fits
  BY <1>1, <1>3 DEF Offered
<1>4. QED
  BY <1>2, <1>3

LEMMA RepliesAre == /\ Done \in Replies /\ Error \in Replies
                    /\ \A n \in Nat : Delta(n) \in Replies
                    /\ Done.kind = "Done" /\ Error.kind = "Error"
                    /\ \A n \in Nat : Delta(n).kind = "Delta" /\ Delta(n).n = n
  BY DEF Done, Error, Delta, Replies

(* A lane that was left alone, or offered a verdict, is a lane.            *)
LEMMA LaneStays ==
    ASSUME TypeOK, lane' \in {lane, Offered(Done), Offered(Error)}
    PROVE  lane' \in Seq(Replies) /\ Len(lane') <= LaneRoom
<1>1. lane \in Seq(Replies) /\ Len(lane) <= LaneRoom
  BY DEF TypeOK
<1>2. Offered(Done) \in Seq(Replies) /\ Len(Offered(Done)) <= LaneRoom
  <2>1. Done \in Replies
    BY RepliesAre
  <2>2. QED
    BY <2>1, OfferedIs
<1>3. Offered(Error) \in Seq(Replies) /\ Len(Offered(Error)) <= LaneRoom
  <2>1. Error \in Replies
    BY RepliesAre
  <2>2. QED
    BY <2>1, OfferedIs
<1>4. QED
  BY ONLY <1>1, <1>2, <1>3, lane' \in {lane, Offered(Done), Offered(Error)}

(* A verdict sent while the sender is held keeps the lane in order.        *)
LEMMA VerdictInOrder ==
    ASSUME IInv, NEW r \in {Done, Error},
           lane' = Offered(r), ~sender', UNCHANGED <<made, heard>>,
           r = Done => place' = "completed" /\ burst = 0,
           place = "completed" => place' = "completed"
    PROVE  Consecutive'
<1> USE RepliesAre DEF IInv
<1>1. r \in Replies /\ r.kind # "Delta"
  OBVIOUS
<1>2. Len(heard) \in Nat /\ Len(lane) \in Nat /\ made \in Nat /\ burst \in Nat
  BY LaneAssumption DEF TypeOK
<1>3. CASE ~Fits
  BY <1>1, <1>3, OfferedIs DEF Consecutive
<1>4. CASE Fits
  <2>1. /\ sender /\ DOMAIN lane = 1..Len(lane) /\ DOMAIN lane' = 1..(Len(lane) + 1)
        /\ Len(lane') = Len(lane) + 1 /\ lane'[Len(lane) + 1] = r
        /\ \A i \in DOMAIN lane : lane'[i] = lane[i]
    BY <1>1, <1>4, OfferedIs
  <2>2. \A i \in DOMAIN lane : lane[i].kind = "Delta"
    BY <2>1 DEF Consecutive
  <2>3. r = Done => made = Len(heard) + Len(lane)
    BY <1>2, <2>1 DEF Consecutive
  <2>4. r.kind = "Done" => r = Done
    OBVIOUS
  <2>5. \A i \in DOMAIN lane' : i \in DOMAIN lane \/ i = Len(lane) + 1
    BY <1>2, <2>1
  <2>6. \A i \in DOMAIN lane' :
           /\ lane'[i].kind = "Delta" => lane'[i].n = Len(heard) + i /\ lane'[i].n <= made
           /\ lane'[i].kind # "Delta" => i = Len(lane')
           /\ lane'[i].kind = "Done" =>
                 place' = "completed" /\ made = Len(heard) + Len(lane') - 1
    BY <1>1, <1>2, <2>1, <2>2, <2>3, <2>4, <2>5 DEF Consecutive
  <2>7. QED
    BY <2>6 DEF Consecutive
<1>5. QED
  BY <1>3, <1>4

LEMMA InitHolds == Init => IInv
<1> SUFFICES ASSUME Init PROVE IInv
  OBVIOUS
<1> USE LaneAssumption DEF Init
<1>1. sent = << >> /\ lane = << >> /\ heard = << >> /\ DOMAIN sent = {} /\ DOMAIN lane = {}
      /\ DOMAIN heard = {}
  OBVIOUS
<1>2. todo \in {<<"role">>, << >>} /\ (~streaming => todo = << >>)
  OBVIOUS
<1>3. TypeOK
  <2>1. lane \in Seq(Replies) /\ heard \in Seq(Nat) /\ sent \in Seq(EventKinds)
        /\ Len(lane) = 0 /\ Len(sent) = 0
    BY <1>1
  <2>2. "role" \in EventKinds
    BY DEF EventKinds
  <2>3. << >> \in Seq(EventKinds) /\ <<"role">> \in Seq(EventKinds)
    BY <2>2
  <2>4. todo \in Seq(EventKinds)
    BY <1>2, <2>3
  <2>5. 0 \in 0..MaxBurst /\ 0 \in 0..MaxRounds /\ 0 \in 0..0
        /\ 0 <= LaneRoom /\ 0 - 0 <= EventRoom
    OBVIOUS
  <2>6. QED
    BY <2>1, <2>4, <2>5 DEF TypeOK
<1>4. Scheduled /\ Consecutive /\ Blocking
  BY <1>1, <1>2 DEF Scheduled, Consecutive, Blocking, Left
<1>5. Final
  <2>1. \A i \in DOMAIN todo : todo[i] = "role"
    BY <1>2
  <2>2. \A v \in Verdicts : ~Written(v)
    BY <1>1, <2>1 DEF Written, Verdicts
  <2>3. QED
    BY <2>2 DEF Final, Verdicts
<1>6. QED
  BY <1>3, <1>4, <1>5 DEF IInv

LEMMA HoldPreserves == IInv /\ Hold => IInv'
<1> SUFFICES ASSUME IInv, Hold
             PROVE  IInv'
  OBVIOUS
<1> USE LaneAssumption DEF Hold, Leaves, engine, reader, body
<1>1. TypeOK'
  BY DEF IInv, TypeOK, Left, Verdicts, EventKinds, Blocking
<1>2. Scheduled'
  BY DEF IInv, TypeOK, Scheduled, Left, Disconnected
<1>3. Consecutive'
  BY DEF IInv, TypeOK, Scheduled, Consecutive, Left
<1>4. Final'
  BY DEF IInv, TypeOK, Scheduled, Consecutive, Final, Written, Verdicts, Left
<1>5. Blocking'
  BY DEF IInv, TypeOK, Blocking
<1>6. QED
  BY <1>1, <1>2, <1>3, <1>4, <1>5 DEF IInv

LEMMA FailQueuedPreserves == IInv /\ FailQueued => IInv'
<1> SUFFICES ASSUME IInv, FailQueued
             PROVE  IInv'
  OBVIOUS
<1> USE LaneAssumption DEF FailQueued, Leaves, engine, reader, body
<1>1. TypeOK'
  <2>1. lane' \in Seq(Replies) /\ Len(lane') <= LaneRoom
    BY LaneStays DEF IInv
  <2>2. QED
    BY <2>1 DEF IInv, TypeOK, Left, Verdicts, EventKinds
<1>2. Scheduled'
  BY DEF IInv, TypeOK, Scheduled, Left, Disconnected
<1>3. Consecutive'
  <2>1. lane' = Offered(Error) /\ ~sender' /\ UNCHANGED <<made, heard>> /\ place # "completed"
    OBVIOUS
  <2> HIDE DEF FailQueued, Offered
  <2>2. QED
    BY <2>1, RepliesAre, VerdictInOrder
<1>4. Final'
  BY DEF IInv, TypeOK, Scheduled, Consecutive, Final, Written, Verdicts, Left
<1>5. Blocking'
  BY DEF IInv, TypeOK, Blocking
<1>6. QED
  BY <1>1, <1>2, <1>3, <1>4, <1>5 DEF IInv

LEMMA AdmitPreserves == IInv /\ Admit => IInv'
<1> SUFFICES ASSUME IInv, Admit
             PROVE  IInv'
  OBVIOUS
<1> USE LaneAssumption DEF Admit, Leaves, engine, reader, body
<1>1. TypeOK'
  <2>1. lane' \in Seq(Replies) /\ Len(lane') <= LaneRoom
    BY LaneStays DEF IInv
  <2>2. QED
    BY <2>1 DEF IInv, TypeOK, Left, Verdicts, EventKinds
<1>2. Scheduled'
  <2>1. CASE place' = "active"
    BY <2>1 DEF IInv, TypeOK, Scheduled, Left, Disconnected
  <2>2. CASE place' # "active"
    <3>1. place' \in Left /\ ~sender' /\ pc' = "idle"
      BY <2>2 DEF Left
    <3>2. QED
      BY <3>1 DEF IInv, TypeOK, Scheduled, Left, Disconnected
  <2>3. QED
    BY <2>1, <2>2
<1>3. Consecutive'
  <2>1. place = "waiting" /\ UNCHANGED <<made, heard>> /\ burst = 0
    BY DEF IInv, Scheduled
  <2>2. CASE UNCHANGED <<lane, sender>>
    BY <2>1, <2>2 DEF IInv, Consecutive
  <2>3. CASE lane' = Offered(Done) /\ place' = "completed" /\ ~sender'
    BY <2>1, <2>3, VerdictInOrder
  <2>4. CASE lane' = Offered(Error) /\ ~sender'
    BY <2>1, <2>4, RepliesAre, VerdictInOrder
  <2>5. CASE lane' = lane /\ ~sender'
    BY <2>1, <2>5 DEF IInv, Consecutive
  <2>6. QED
    BY <2>2, <2>3, <2>4, <2>5
<1>4. Final'
  BY DEF IInv, TypeOK, Scheduled, Consecutive, Final, Written, Verdicts, Left
<1>5. Blocking'
  BY DEF IInv, TypeOK, Blocking
<1>6. QED
  BY <1>1, <1>2, <1>3, <1>4, <1>5 DEF IInv

LEMMA ScanPreserves == IInv /\ Scan => IInv'
<1> SUFFICES ASSUME IInv, Scan
             PROVE  IInv'
  OBVIOUS
<1> USE LaneAssumption DEF Scan, Leaves, Abandoned, engine, reader, body
<1>1. TypeOK'
  BY DEF IInv, TypeOK, Left, Verdicts, EventKinds, Blocking
<1>2. Scheduled'
  BY DEF IInv, TypeOK, Scheduled, Left, Disconnected
<1>3. Consecutive'
  BY DEF IInv, TypeOK, Scheduled, Consecutive, Left
<1>4. Final'
  BY DEF IInv, TypeOK, Scheduled, Consecutive, Final, Written, Verdicts, Left
<1>5. Blocking'
  BY DEF IInv, TypeOK, Blocking
<1>6. QED
  BY <1>1, <1>2, <1>3, <1>4, <1>5 DEF IInv

LEMMA StepPreserves == IInv /\ Step => IInv'
<1> SUFFICES ASSUME IInv, Step
             PROVE  IInv'
  OBVIOUS
<1> USE LaneAssumption DEF Step, engine, reader, body
<1>1. TypeOK'
  <2>1. \E n \in 0..MaxBurst : burst' = n /\ made' = made + n
    OBVIOUS
  <2>2. rounds' \in 0..MaxRounds /\ made' \in Nat /\ burst' \in 0..MaxBurst
    BY <2>1 DEF IInv, TypeOK, Scheduled
  <2>3. ends' \in BOOLEAN
    OBVIOUS
  <2>5. late = 0 /\ MaxRounds \in Nat /\ MaxRounds >= 1
    BY DEF IInv, Scheduled
  <2>6. late' \in 0..MaxRounds
    BY <2>5
  <2>4. QED
    BY <2>2, <2>3, <2>6 DEF IInv, TypeOK, Left
<1>2. Scheduled'
  <2>1. PICK n \in 0..MaxBurst : burst' = n /\ made' = made + n
    OBVIOUS
  <2>2. burst' <= made'
    BY <2>1 DEF IInv, TypeOK
  <2>6. rounds' = MaxRounds => ends'
    OBVIOUS
  <2>3. late' <= 1 /\ (late' = 1 => Disconnected')
    BY DEF IInv, Scheduled, Disconnected
  <2>4. place' = "active" /\ pc' = "emit"
    BY DEF IInv, TypeOK
  <2>5. QED
    BY <2>2, <2>3, <2>4, <2>6 DEF Scheduled, Left
<1>3. Consecutive'
  <2>1. PICK n \in 0..MaxBurst : burst' = n /\ made' = made + n
    OBVIOUS
  <2>2. place = "active" /\ sender /\ burst = 0 /\ UNCHANGED <<lane, heard, sender, place>>
    BY DEF IInv, TypeOK, Scheduled
  <2>3. made \in Nat /\ Len(heard) \in Nat /\ Len(lane) \in Nat
    BY DEF IInv, TypeOK
  <2>5. ASSUME NEW i \in DOMAIN lane PROVE lane[i].n \in Nat
    <3>1. lane \in Seq(Replies)
      BY DEF IInv, TypeOK
    <3>2. lane[i] \in Replies
      BY <3>1
    <3>3. QED
      BY <3>2 DEF Replies
  <2>4. QED
    BY <2>1, <2>2, <2>3, <2>5 DEF IInv, Consecutive
<1>4. Final'
  BY DEF IInv, TypeOK, Scheduled, Consecutive, Final, Written, Verdicts, Left
<1>5. Blocking'
  BY DEF IInv, TypeOK, Blocking
<1>6. QED
  BY <1>1, <1>2, <1>3, <1>4, <1>5 DEF IInv

LEMMA FailAllPreserves == IInv /\ FailAll => IInv'
<1> SUFFICES ASSUME IInv, FailAll
             PROVE  IInv'
  OBVIOUS
<1> USE LaneAssumption DEF FailAll, Leaves, engine, reader, body
<1>1. TypeOK'
  <2>1. lane' \in Seq(Replies) /\ Len(lane') <= LaneRoom
    BY LaneStays DEF IInv
  <2>2. QED
    BY <2>1 DEF IInv, TypeOK, Left, Verdicts, EventKinds
<1>2. Scheduled'
  BY DEF IInv, TypeOK, Scheduled, Left, Disconnected
<1>3. Consecutive'
  <2>1. place # "completed"
    BY DEF IInv, TypeOK
  <2>2. QED
    BY <2>1, RepliesAre, VerdictInOrder DEF IInv
<1>4. Final'
  BY DEF IInv, TypeOK, Scheduled, Consecutive, Final, Written, Verdicts, Left
<1>5. Blocking'
  BY DEF IInv, TypeOK, Blocking
<1>6. QED
  BY <1>1, <1>2, <1>3, <1>4, <1>5 DEF IInv

LEMMA SendDeltaPreserves == IInv /\ SendDelta => IInv'
<1> SUFFICES ASSUME IInv, SendDelta
             PROVE  IInv'
  OBVIOUS
<1> USE LaneAssumption DEF SendDelta, engine, reader, body
<1> DEFINE r == Delta(made - burst + 1)
<1>a. /\ made \in Nat /\ burst \in Nat /\ Len(heard) \in Nat /\ Len(lane) \in Nat
      /\ sender \in BOOLEAN /\ Fits \in BOOLEAN
  BY DEF IInv, TypeOK, Fits
<1>b. made - burst + 1 \in Nat
  BY <1>a DEF IInv, Scheduled
<1>c. r \in Replies /\ r.kind = "Delta" /\ r.n = made - burst + 1
  BY <1>b, RepliesAre
<1>d. lane' = Offered(r) /\ sender' = Fits
  OBVIOUS
<1> HIDE DEF r
<1>1. TypeOK'
  <2>1. lane' \in Seq(Replies) /\ Len(lane') <= LaneRoom
    BY <1>c, <1>d, OfferedIs DEF IInv
  <2>2. burst' \in 0..MaxBurst
    BY <1>a DEF IInv, TypeOK
  <2>3. QED
    BY <1>a, <1>d, <2>1, <2>2 DEF IInv, TypeOK
<1>2. Scheduled'
  <2>1. burst' <= burst /\ place = "active"
    BY <1>a DEF IInv, TypeOK
  <2>2. QED
    BY <1>a, <2>1 DEF IInv, Scheduled, Left, Disconnected
<1>3. Consecutive'
  <2>1. CASE Fits
    <3>1. /\ sender /\ DOMAIN lane = 1..Len(lane) /\ DOMAIN lane' = 1..(Len(lane) + 1)
          /\ Len(lane') = Len(lane) + 1 /\ lane'[Len(lane) + 1] = r
          /\ \A i \in DOMAIN lane : lane'[i] = lane[i]
      BY <2>1, <1>c, <1>d, OfferedIs DEF IInv
    <3>2. Len(heard) + Len(lane) + burst = made /\ burst' = burst - 1
      BY <2>1, <3>1 DEF IInv, Consecutive
    <3>3. \A i \in DOMAIN lane' : i \in DOMAIN lane \/ i = Len(lane) + 1
      BY <1>a, <3>1
    <3>4. \A i \in DOMAIN lane :
             lane[i].kind = "Delta" /\ lane[i].n = Len(heard) + i /\ lane[i].n <= made
      BY <3>1 DEF IInv, Consecutive
    <3>5. r.n = Len(heard) + (Len(lane) + 1) /\ r.n <= made
      BY <1>a, <1>c, <3>2
    <3>6. \A i \in DOMAIN lane' :
             lane'[i].kind = "Delta" /\ lane'[i].n = Len(heard) + i /\ lane'[i].n <= made
      BY <1>c, <3>1, <3>3, <3>4, <3>5
    <3>7. Len(heard) + Len(lane') + burst' = made
      BY <1>a, <3>1, <3>2
    <3>8. QED
      BY <3>6, <3>7 DEF IInv, Consecutive
  <2>2. CASE ~Fits
    BY <2>2, <1>c, <1>d, OfferedIs DEF IInv, Consecutive
  <2>3. QED
    BY <2>1, <2>2
<1>4. Final'
  <2>1. /\ sender' => sender
        /\ UNCHANGED <<place, sent, todo, ending>> /\ place = "active"
    BY <1>a DEF IInv, TypeOK, Fits
  <2>2. ~Written("finish")
    BY <2>1 DEF IInv, Final
  <2>3. \A e : Written(e)' <=> Written(e)
    BY <2>1 DEF Written
  <2>4. QED
    BY <2>1, <2>2, <2>3 DEF IInv, Final
<1>5. Blocking'
  BY DEF IInv, TypeOK, Blocking
<1>6. QED
  BY <1>1, <1>2, <1>3, <1>4, <1>5 DEF IInv

LEMMA EndEventPreserves == IInv /\ EndEvent => IInv'
<1> SUFFICES ASSUME IInv, EndEvent
             PROVE  IInv'
  OBVIOUS
<1> USE LaneAssumption DEF EndEvent, Leaves, engine, reader, body
<1>1. TypeOK'
  <2>1. lane' \in Seq(Replies) /\ Len(lane') <= LaneRoom
    BY LaneStays DEF IInv
  <2>2. QED
    BY <2>1 DEF IInv, TypeOK, Left
<1>2. Scheduled'
  BY DEF IInv, TypeOK, Scheduled, Left, Disconnected
<1>3. Consecutive'
  <2>1. CASE ends
    BY <2>1, VerdictInOrder
  <2>2. CASE ~ends
    BY <2>2 DEF IInv, Consecutive, TypeOK
  <2>3. QED
    BY <2>1, <2>2
<1>4. Final'
  <2>1. UNCHANGED <<sent, todo, heard, made, ending>> /\ place = "active"
    BY DEF IInv, TypeOK
  <2>2. \A e : Written(e)' = Written(e)
    BY <2>1 DEF Written
  <2>3. (sender' => sender) /\ ~Written("finish")
    BY <2>1 DEF IInv, Final
  <2>4. QED
    BY <2>1, <2>2, <2>3 DEF IInv, Final
<1>5. Blocking'
  BY DEF IInv, TypeOK, Blocking
<1>6. QED
  BY <1>1, <1>2, <1>3, <1>4, <1>5 DEF IInv

(* Taking one delta moves it from the head of the lane to the end of what  *)
(* is heard: h and l are the lengths before, h1 and l1 those after.        *)
LEMMA TakenOne ==
    ASSUME NEW h \in Nat, NEW l \in Nat, NEW h1, NEW l1, NEW i \in Nat,
           h1 = h + 1, l1 = l - 1
    PROVE  /\ h + (i + 1) = h1 + i
           /\ i + 1 = l => i = l1
           /\ h + l = h1 + l1
  OBVIOUS

-----------------------------------------------------------------------------
(* What taking a reply leaves to be read, and what the reply says.         *)
LEMMA HeardIs ==
    ASSUME IInv, Readable, Heard(NextReply), UNCHANGED <<made, place, sender, burst>>
    PROVE  /\ lane' \in Seq(Replies) /\ Len(lane') <= LaneRoom /\ heard' \in Seq(Nat)
           /\ ending' \in BOOLEAN
           /\ Consecutive'
           /\ NextReply \in Replies
           /\ NextReply.kind # "Delta" => ~sender /\ ending' /\ heard' = heard
           /\ NextReply.kind = "Done" => place = "completed" /\ Len(heard) = made
<1> USE LaneAssumption DEF IInv
<1>1. /\ lane \in Seq(Replies) /\ heard \in Seq(Nat) /\ Len(lane) <= LaneRoom /\ made \in Nat
      /\ Len(lane) \in Nat /\ Len(heard) \in Nat /\ burst \in Nat
      /\ DOMAIN lane = 1..Len(lane) /\ DOMAIN heard = 1..Len(heard)
  BY DEF TypeOK
<1>2. CASE lane = << >>
  <2>1. NextReply = Error /\ lane' = lane /\ heard' = heard /\ ending' = TRUE /\ ~sender
    BY <1>2, RepliesAre DEF NextReply, Readable, Heard
  <2>2. QED
    BY <1>1, <2>1, RepliesAre DEF Consecutive
<1>3. CASE lane # << >>
  <2> DEFINE r == lane[1]
  <2>1. /\ Len(lane) > 0 /\ NextReply = r /\ lane' = Tail(lane) /\ r \in Replies
        /\ 1 \in DOMAIN lane
    BY <1>1, <1>3 DEF NextReply, Heard
  <2>2. /\ lane' \in Seq(Replies) /\ Len(lane') = Len(lane) - 1 /\ DOMAIN lane' = 1..(Len(lane) - 1)
        /\ \A i \in DOMAIN lane' : i + 1 \in DOMAIN lane /\ lane'[i] = lane[i + 1]
    BY <1>1, <2>1
  <2> HIDE DEF r
  <2>3. \A i \in DOMAIN lane :
          /\ lane[i].kind = "Delta" => lane[i].n = Len(heard) + i /\ lane[i].n <= made
          /\ lane[i].kind # "Delta" => i = Len(lane) /\ ~sender
          /\ lane[i].kind = "Done" => place = "completed" /\ made = Len(heard) + Len(lane) - 1
    BY DEF Consecutive
  <2>4. CASE r.kind = "Delta"
    <3>1. heard' = Append(heard, r.n) /\ ending' = FALSE /\ r.n \in Nat
      BY <2>1, <2>4 DEF Heard, Replies
    <3>2. r.n = Len(heard) + 1
      BY <2>1, <2>3, <2>4 DEF r
    <3>3. /\ heard' \in Seq(Nat) /\ Len(heard') = Len(heard) + 1
          /\ \A i \in DOMAIN heard' : heard'[i] = i
      BY <1>1, <3>1, <3>2 DEF Consecutive
    <3>4. \A i \in DOMAIN lane' :
            /\ lane'[i].kind = "Delta" => lane'[i].n = Len(heard') + i /\ lane'[i].n <= made
            /\ lane'[i].kind # "Delta" => i = Len(lane') /\ ~sender
            /\ lane'[i].kind = "Done" => place = "completed" /\ made = Len(heard') + Len(lane') - 1
      <4> SUFFICES ASSUME NEW i \in DOMAIN lane'
                   PROVE  /\ lane'[i].kind = "Delta" => lane'[i].n = Len(heard') + i /\ lane'[i].n <= made
                          /\ lane'[i].kind # "Delta" => i = Len(lane') /\ ~sender
                          /\ lane'[i].kind = "Done" =>
                                place = "completed" /\ made = Len(heard') + Len(lane') - 1
        OBVIOUS
      <4>1. i \in Nat /\ i + 1 \in DOMAIN lane /\ lane'[i] = lane[i + 1]
        BY <1>1, <2>2
      <4> DEFINE q == lane[i + 1]
      <4>2. /\ q.kind = "Delta" => q.n = Len(heard) + (i + 1) /\ q.n <= made
            /\ q.kind # "Delta" => i + 1 = Len(lane) /\ ~sender
            /\ q.kind = "Done" => place = "completed" /\ made = Len(heard) + Len(lane) - 1
        BY <2>3, <4>1
      <4>3. lane'[i] = q
        BY <4>1
      <4> HIDE DEF q
      <4>4. /\ Len(heard) + (i + 1) = Len(heard') + i
            /\ i + 1 = Len(lane) => i = Len(lane')
            /\ Len(heard) + Len(lane) = Len(heard') + Len(lane')
        <5>1. Len(lane') = Len(lane) - 1 /\ Len(heard') = Len(heard) + 1
              /\ i \in Nat /\ Len(lane) \in Nat /\ Len(heard) \in Nat
          BY <1>1, <2>2, <3>3, <4>1
        <5>2. QED
          BY <5>1, TakenOne
      <4>5. QED
        BY <4>2, <4>3, <4>4
    <3>5. sender => Len(heard') + Len(lane') + burst = made
      <4>1. Len(heard') + Len(lane') = Len(heard) + Len(lane)
        BY <1>1, <2>2, <3>3
      <4>2. QED
        BY <4>1 DEF Consecutive
    <3>6. Consecutive'
      BY <3>3, <3>4, <3>5 DEF Consecutive
    <3>7. Len(lane') <= LaneRoom
      BY <1>1, <2>2
    <3>8. QED
      BY <2>1, <2>2, <2>4, <3>1, <3>3, <3>6, <3>7
  <2>5. CASE r.kind # "Delta"
    <3>1. heard' = heard /\ ending' = TRUE /\ Len(lane) = 1 /\ ~sender
      BY <1>1, <2>1, <2>3, <2>5 DEF Heard, r
    <3>2. r.kind = "Done" => place = "completed" /\ Len(heard) = made
      BY <1>1, <2>1, <2>3, <3>1 DEF r
    <3>3. DOMAIN lane' = {} /\ Len(lane') = 0
      BY <2>2, <3>1
    <3>4. Consecutive'
      BY <3>1, <3>3 DEF Consecutive
    <3>5. Len(lane') <= LaneRoom
      BY <1>1, <3>3
    <3>6. QED
      BY <1>1, <2>1, <2>2, <2>5, <3>1, <3>2, <3>4, <3>5
  <2>6. QED
    BY <2>4, <2>5
<1>4. QED
  BY <1>2, <1>3

(* What is written for a reply: a finish only for Done, and a verdict for  *)
(* none but the last.                                                      *)
LEMMA ScriptIs ==
    ASSUME NEW r \in Replies, NEW script \in Script(r)
    PROVE  /\ script \in Seq(EventKinds)
           /\ (\E i \in DOMAIN script : script[i] = "finish") => r.kind = "Done"
           /\ \A v \in Verdicts : (\E i \in DOMAIN script : script[i] = v) => r.kind # "Delta"
<1>1. r.kind \in {"Delta", "Done", "Error"}
  BY DEF Replies
<1>2. CASE r.kind = "Delta"
  <2>1. script \in {<< >>, <<"text">>}
    BY <1>2 DEF Script, Optional
  <2>a. "text" \in EventKinds
    BY DEF EventKinds
  <2>b. << >> \in Seq(EventKinds) /\ <<"text">> \in Seq(EventKinds)
    BY <2>a
  <2>c. script \in Seq(EventKinds)
    BY <2>1, <2>b
  <2>2. \A i \in DOMAIN script : script[i] = "text"
    BY <2>1
  <2>3. QED
    BY <1>2, <2>c, <2>2 DEF Verdicts
<1>3. CASE r.kind = "Error"
  <2>1. script = <<"error", "DONE">>
    BY <1>3 DEF Script
  <2>2. script \in Seq(EventKinds)
    BY <2>1 DEF EventKinds, Verdicts
  <2>4. \A i \in DOMAIN script : script[i] # "finish"
    BY <2>1
  <2>3. QED
    BY <1>3, <2>2, <2>4 DEF Verdicts
<1>4. CASE r.kind = "Done"
  <2> DEFINE Whole == { t \o c \o <<"finish">> \o u \o <<"DONE">> :
                          t \in Optional("text"), c \in Optional("calls"),
                          u \in Optional("usage") }
  <2>0. script \in Whole \/ script = Malformed
    <3>1. Script(r) = Whole \cup {Malformed}
      BY ONLY <1>4 DEF Script
    <3> HIDE DEF Whole
    <3>2. QED
      BY ONLY <3>1, script \in Script(r)
  <2>1. CASE script = Malformed
    BY <1>4, <2>1 DEF Malformed, EventKinds, Verdicts
  <2>2. CASE \E t \in Optional("text"), c \in Optional("calls"), u \in Optional("usage") :
                script = t \o c \o <<"finish">> \o u \o <<"DONE">>
    <3>1. \A e \in EventKinds : Optional(e) \subseteq Seq(EventKinds)
      BY DEF Optional
    <3>2. {"text", "calls", "usage", "finish", "DONE"} \subseteq EventKinds
      BY DEF EventKinds, Verdicts
    <3>3. script \in Seq(EventKinds)
      BY <2>2, <3>1, <3>2
    <3>4. QED
      BY <1>4, <3>3
  <2>3. CASE script \in Whole
    <3>1. \E t \in Optional("text"), c \in Optional("calls"), u \in Optional("usage") :
             script = t \o c \o <<"finish">> \o u \o <<"DONE">>
      BY ONLY <2>3 DEF Whole
    <3>2. QED
      BY ONLY <2>2, <3>1
  <2> HIDE DEF Whole
  <2>4. QED
    BY ONLY <2>0, <2>1, <2>3
<1>5. QED
  BY <1>1, <1>2, <1>3, <1>4

LEMMA PumpReceivesPreserves == IInv /\ PumpReceives => IInv'
<1> SUFFICES ASSUME IInv, PumpReceives
             PROVE  IInv'
  OBVIOUS
<1> USE LaneAssumption DEF PumpReceives, engine, reader, body
<1>a. UNCHANGED <<made, place, sender, burst, late, rounds, pc, sent, conn, taken, streaming, ends>>
  OBVIOUS
<1>b. /\ lane' \in Seq(Replies) /\ Len(lane') <= LaneRoom /\ heard' \in Seq(Nat)
      /\ ending' \in BOOLEAN /\ Consecutive' /\ NextReply \in Replies
      /\ NextReply.kind # "Delta" => ~sender /\ ending' /\ heard' = heard
      /\ NextReply.kind = "Done" => place = "completed" /\ Len(heard) = made
  BY <1>a, HeardIs
<1>c. /\ todo' \in Seq(EventKinds)
      /\ (\E i \in DOMAIN todo' : todo'[i] = "finish") => NextReply.kind = "Done"
      /\ \A v \in Verdicts : (\E i \in DOMAIN todo' : todo'[i] = v) => NextReply.kind # "Delta"
  BY <1>b, ScriptIs
<1>d. \A v \in Verdicts : \A i \in DOMAIN sent : sent[i] # v
  BY DEF IInv, Final, Written, Readable
<1> HIDE DEF PumpReceives
<1>1. TypeOK'
  BY <1>a, <1>b, <1>c DEF IInv, TypeOK
<1>2. Scheduled'
  BY <1>a DEF IInv, Scheduled, Disconnected
<1>3. Consecutive'
  BY <1>b
<1>4. Final'
  <2>1. Written("finish")' => NextReply.kind = "Done"
    BY <1>a, <1>c, <1>d DEF Written, Verdicts
  <2>2. \A v \in Verdicts : Written(v)' => NextReply.kind # "Delta"
    BY <1>a, <1>c, <1>d DEF Written
  <2>3. QED
    BY <1>a, <1>b, <2>1, <2>2 DEF Final
<1>5. Blocking'
  BY <1>a DEF PumpReceives, Blocking
<1>6. QED
  BY <1>1, <1>2, <1>3, <1>4, <1>5 DEF IInv

LEMMA PumpWritesPreserves == IInv /\ PumpWrites => IInv'
<1> SUFFICES ASSUME IInv, PumpWrites
             PROVE  IInv'
  OBVIOUS
<1> USE LaneAssumption DEF PumpWrites, engine, reader, body
<1>a. /\ todo \in Seq(EventKinds) /\ sent \in Seq(EventKinds) /\ taken \in 0..Len(sent)
      /\ Len(sent) \in Nat /\ Len(sent) - taken <= EventRoom /\ ending \in BOOLEAN
  BY DEF IInv, TypeOK
<1>b. /\ sent' \in Seq(EventKinds) /\ todo' \in Seq(EventKinds) /\ taken \in 0..Len(sent')
      /\ Len(sent') - taken <= EventRoom
      /\ (ending => ending') /\ ending' \in BOOLEAN
      /\ \A e : Written(e)' => Written(e)
  <2>1. CASE conn = "open"
    <3>1. /\ Len(sent) - taken < EventRoom /\ sent' = Append(sent, Head(todo))
          /\ todo' = Tail(todo) /\ ending' = ending /\ todo # << >>
      BY <2>1
    <3>2. /\ Head(todo) = todo[1] /\ 1 \in DOMAIN todo /\ Head(todo) \in EventKinds
          /\ Tail(todo) \in Seq(EventKinds)
          /\ \A i \in DOMAIN Tail(todo) : i + 1 \in DOMAIN todo /\ Tail(todo)[i] = todo[i + 1]
      BY <1>a, <3>1
    <3>3. /\ sent' \in Seq(EventKinds) /\ Len(sent') = Len(sent) + 1
          /\ DOMAIN sent' = 1..(Len(sent) + 1) /\ DOMAIN sent = 1..Len(sent)
          /\ \A i \in DOMAIN sent : sent'[i] = sent[i]
          /\ sent'[Len(sent) + 1] = todo[1]
      BY <1>a, <3>1, <3>2
    <3>4. \A i \in DOMAIN sent' : i \in DOMAIN sent \/ i = Len(sent) + 1
      BY <1>a, <3>3
    <3>5. \A e : Written(e)' => Written(e)
      <4> SUFFICES ASSUME NEW e, Written(e)'  PROVE Written(e)
        OBVIOUS
      <4> HIDE DEF PumpWrites
      <4>1. \/ \E i \in DOMAIN sent' : sent'[i] = e
            \/ \E i \in DOMAIN todo' : todo'[i] = e
        BY DEF Written
      <4>2. ASSUME NEW i \in DOMAIN sent', sent'[i] = e  PROVE Written(e)
        <5>1. CASE i \in DOMAIN sent  BY ONLY <3>3, <4>2, <5>1 DEF Written
        <5>2. CASE i = Len(sent) + 1  BY ONLY <3>2, <3>3, <4>2, <5>2 DEF Written
        <5> QED  BY ONLY <3>4, <4>2, <5>1, <5>2
      <4>3. ASSUME NEW i \in DOMAIN todo', todo'[i] = e  PROVE Written(e)
        BY ONLY <3>1, <3>2, <4>3 DEF Written
      <4> QED  BY ONLY <4>1, <4>2, <4>3
    <3>6. taken \in 0..Len(sent') /\ Len(sent') - taken <= EventRoom
      <4>1. Len(sent') = Len(sent) + 1 /\ Len(sent) - taken < EventRoom /\ EventRoom \in Nat
        BY <3>1, <3>3
      <4> HIDE DEF PumpWrites
      <4>2. QED
        BY <1>a, <4>1
    <3>7. QED
      BY <1>a, <3>1, <3>2, <3>3, <3>5, <3>6
  <2>2. CASE conn # "open"
    <3>1. sent' = sent /\ todo' = << >> /\ ending' = TRUE
      BY <2>2
    <3>2. \A e : Written(e)' => Written(e)
      BY <3>1 DEF Written
    <3>3. QED
      BY <1>a, <3>1, <3>2
  <2>3. QED
    BY <2>1, <2>2
<1>c. UNCHANGED <<engine, lane, heard, streaming, taken, conn>> /\ streaming
  OBVIOUS
<1> HIDE DEF PumpWrites
<1>1. TypeOK'
  BY <1>b, <1>c DEF IInv, TypeOK
<1>2. Scheduled'
  BY <1>c DEF IInv, Scheduled, Disconnected
<1>3. Consecutive'
  BY <1>c DEF IInv, Consecutive
<1>4. Final'
  BY <1>b, <1>c DEF IInv, Final
<1>5. Blocking'
  BY <1>c DEF Blocking
<1>6. QED
  BY <1>1, <1>2, <1>3, <1>4, <1>5 DEF IInv

LEMMA CollectPreserves == IInv /\ Collect => IInv'
<1> SUFFICES ASSUME IInv, Collect
             PROVE  IInv'
  OBVIOUS
<1> USE LaneAssumption DEF Collect, engine, reader, body
<1>a. /\ UNCHANGED <<engine, todo, streaming, taken>> /\ ~streaming
      /\ todo = << >> /\ taken = 0 /\ ~ending
  BY DEF IInv, Blocking, Readable
<1>b. /\ lane' \in Seq(Replies) /\ Len(lane') <= LaneRoom /\ heard' \in Seq(Nat)
      /\ ending' \in BOOLEAN /\ Consecutive' /\ NextReply \in Replies
      /\ NextReply.kind # "Delta" => ~sender /\ ending' /\ heard' = heard
      /\ NextReply.kind = "Done" => place = "completed" /\ Len(heard) = made
  BY HeardIs
<1>c. \A v \in Verdicts : \A i \in DOMAIN sent : sent[i] # v
  BY <1>a DEF IInv, Final, Written
<1>d. \/ UNCHANGED <<sent, conn>>
      \/ /\ NextReply.kind # "Delta" /\ conn' = "ended"
         /\ \E answer \in Verdicts :
               sent' = <<answer>> /\ (answer = "finish" => NextReply.kind = "Done")
  BY DEF Verdicts
<1> HIDE DEF Collect
<1>1. TypeOK'
  <2>1. sent' \in Seq(EventKinds) /\ taken' \in 0..Len(sent') /\ Len(sent') - taken' <= EventRoom
    <3>1. CASE UNCHANGED sent
      BY <1>a, <3>1 DEF IInv, TypeOK
    <3>2. CASE \E answer \in Verdicts : sent' = <<answer>>
      <4>1. sent' \in Seq(EventKinds) /\ Len(sent') = 1
        BY <3>2 DEF EventKinds
      <4>2. QED
        BY <1>a, <4>1
    <3>3. QED
      BY <1>d, <3>1, <3>2
  <2>2. conn' \in {"open", "closing", "closed", "ended"}
    BY <1>d DEF IInv, TypeOK
  <2>3. QED
    BY <1>a, <1>b, <2>1, <2>2 DEF IInv, TypeOK
<1>2. Scheduled'
  BY <1>a, <1>d DEF IInv, Scheduled, Disconnected
<1>3. Consecutive'
  BY <1>b
<1>4. Final'
  <2>1. CASE UNCHANGED <<sent, conn>>
    <3>1. \A v \in Verdicts : ~Written(v)'
      BY <1>a, <1>c, <2>1 DEF Written
    <3>2. QED
      BY <3>1 DEF Final, Verdicts
  <2>2. CASE NextReply.kind # "Delta"
    <3>1. PICK answer \in Verdicts \cup {"none"} :
             /\ sent' = <<answer>> \/ sent' = sent
             /\ answer = "finish" => NextReply.kind = "Done"
      BY <1>d
    <3>2. Written("finish")' => NextReply.kind = "Done"
      BY <1>a, <1>c, <3>1 DEF Written, Verdicts
    <3>3. QED
      BY <1>a, <1>b, <2>2, <3>2 DEF Final
  <2>3. QED
    BY <1>d, <2>1, <2>2
<1>5. Blocking'
  BY <1>a DEF Blocking
<1>6. QED
  BY <1>1, <1>2, <1>3, <1>4, <1>5 DEF IInv

LEMMA PollPreserves == IInv /\ Poll => IInv'
<1> SUFFICES ASSUME IInv, Poll
             PROVE  IInv'
  OBVIOUS
<1> USE LaneAssumption DEF Poll, engine, reader, body
<1>1. TypeOK'
  BY DEF IInv, TypeOK, Left, Verdicts, EventKinds, Blocking
<1>2. Scheduled'
  BY DEF IInv, TypeOK, Scheduled, Left, Disconnected
<1>3. Consecutive'
  BY DEF IInv, TypeOK, Scheduled, Consecutive, Left
<1>4. Final'
  BY DEF IInv, TypeOK, Scheduled, Consecutive, Final, Written, Verdicts, Left
<1>5. Blocking'
  BY DEF IInv, TypeOK, Blocking
<1>6. QED
  BY <1>1, <1>2, <1>3, <1>4, <1>5 DEF IInv

LEMMA ReadToEndPreserves == IInv /\ ReadToEnd => IInv'
<1> SUFFICES ASSUME IInv, ReadToEnd
             PROVE  IInv'
  OBVIOUS
<1> USE LaneAssumption DEF ReadToEnd, LaneClosed, engine, reader, body
<1>1. TypeOK'
  BY DEF IInv, TypeOK, Left, Verdicts, EventKinds, Blocking
<1>2. Scheduled'
  BY DEF IInv, TypeOK, Scheduled, Left, Disconnected
<1>3. Consecutive'
  BY DEF IInv, TypeOK, Scheduled, Consecutive, Left
<1>4. Final'
  BY DEF IInv, TypeOK, Scheduled, Consecutive, Final, Written, Verdicts, Left
<1>5. Blocking'
  BY DEF IInv, TypeOK, Blocking
<1>6. QED
  BY <1>1, <1>2, <1>3, <1>4, <1>5 DEF IInv

LEMMA HangUpPreserves == IInv /\ HangUp => IInv'
<1> SUFFICES ASSUME IInv, HangUp
             PROVE  IInv'
  OBVIOUS
<1> USE LaneAssumption DEF HangUp, engine, reader, body
<1>1. TypeOK'
  BY DEF IInv, TypeOK, Left, Verdicts, EventKinds, Blocking
<1>2. Scheduled'
  BY DEF IInv, TypeOK, Scheduled, Left, Disconnected
<1>3. Consecutive'
  BY DEF IInv, TypeOK, Scheduled, Consecutive, Left
<1>4. Final'
  BY DEF IInv, TypeOK, Scheduled, Consecutive, Final, Written, Verdicts, Left
<1>5. Blocking'
  BY DEF IInv, TypeOK, Blocking
<1>6. QED
  BY <1>1, <1>2, <1>3, <1>4, <1>5 DEF IInv

LEMMA DropGuardPreserves == IInv /\ DropGuard => IInv'
<1> SUFFICES ASSUME IInv, DropGuard
             PROVE  IInv'
  OBVIOUS
<1> USE LaneAssumption DEF DropGuard, engine, reader, body
<1>1. TypeOK'
  BY DEF IInv, TypeOK, Left, Verdicts, EventKinds, Blocking
<1>2. Scheduled'
  BY DEF IInv, TypeOK, Scheduled, Left, Disconnected
<1>3. Consecutive'
  BY DEF IInv, TypeOK, Scheduled, Consecutive, Left
<1>4. Final'
  BY DEF IInv, TypeOK, Scheduled, Consecutive, Final, Written, Verdicts, Left
<1>5. Blocking'
  BY DEF IInv, TypeOK, Blocking
<1>6. QED
  BY <1>1, <1>2, <1>3, <1>4, <1>5 DEF IInv

-----------------------------------------------------------------------------
LEMMA NextPreserves == IInv /\ [Next]_vars => IInv'
<1> SUFFICES ASSUME IInv, [Next]_vars
             PROVE  IInv'
  OBVIOUS
<1>1. CASE UNCHANGED vars
  BY <1>1 DEF vars, engine, reader, body, IInv, TypeOK, Scheduled, Consecutive, Final, Written,
              Blocking, Disconnected
<1>2. CASE Engine
  BY <1>2, HoldPreserves, FailQueuedPreserves, AdmitPreserves, ScanPreserves, StepPreserves,
     FailAllPreserves, SendDeltaPreserves, EndEventPreserves DEF Engine
<1>3. CASE Reader
  BY <1>3, PumpReceivesPreserves, PumpWritesPreserves, CollectPreserves DEF Reader
<1>4. CASE Client
  BY <1>4, PollPreserves, ReadToEndPreserves, HangUpPreserves, DropGuardPreserves DEF Client
<1>5. QED
  BY <1>1, <1>2, <1>3, <1>4 DEF Next, Stopped

(* Every reachable state satisfies the inductive invariant.                *)
LEMMA Invariance == Spec => []IInv
  BY InitHolds, NextPreserves, PTL DEF Spec

(* Types and channel bounds hold whatever the channels' sizes.             *)
THEOREM TypeCorrect == Spec => []TypeOK
<1>1. IInv => TypeOK
  BY DEF IInv
<1>2. QED
  BY <1>1, Invariance, PTL

(* A client's text is always a prefix of what the engine produced.         *)
THEOREM TextHasNoGap == Spec => []NoGap
<1>1. IInv => NoGap
  BY DEF IInv, Consecutive, NoGap
<1>2. QED
  BY <1>1, Invariance, PTL

(* A finish is written only for a completed request whose text was all     *)
(* read, and no verdict while the engine can still send.                   *)
THEOREM VerdictsAreTrue == Spec => []VerdictIsTrue
<1>1. ASSUME IInv PROVE VerdictIsTrue
  <2>1. /\ sent \in Seq(EventKinds) /\ todo \in Seq(EventKinds)
        /\ Len(sent) \in Nat /\ Len(todo) \in Nat
        /\ DOMAIN sent = 1..Len(sent) /\ DOMAIN todo = 1..Len(todo)
    BY <1>1 DEF IInv, TypeOK
  <2>2. /\ Len(sent \o todo) = Len(sent) + Len(todo)
        /\ \A i \in 1..(Len(sent) + Len(todo)) :
              (sent \o todo)[i] = IF i <= Len(sent) THEN sent[i] ELSE todo[i - Len(sent)]
    BY <2>1
  <2>3. ASSUME NEW e, Contains(sent \o todo, e) PROVE Written(e)
    <3>1. PICK i \in 1..(Len(sent) + Len(todo)) : (sent \o todo)[i] = e
      BY <2>2, <2>3 DEF Contains
    <3>2. i \in DOMAIN sent \/ (i > Len(sent) /\ i - Len(sent) \in DOMAIN todo)
      BY <2>1
    <3>3. QED
      BY <2>1, <2>2, <3>1, <3>2 DEF Written
  <2>4. QED
    BY <1>1, <2>3 DEF IInv, Final, VerdictIsTrue
<1>2. QED
  BY <1>1, Invariance, PTL

(* After a disconnection is published a request takes part in one more     *)
(* round at most, and none begins without its lane.                        *)
THEOREM RequestsLeavePromptly == Spec => []LeavesPromptly
<1>1. IInv => LeavesPromptly
  BY DEF IInv, Scheduled, LeavesPromptly
<1>2. QED
  BY <1>1, Invariance, PTL

-----------------------------------------------------------------------------
(* The order of the events of a stream.                                    *)

(* What may follow what in the body of a response: the role first, text,   *)
(* then the calls, one verdict, the usage and the end mark.                *)
Precedes(d, e) ==
    \/ d = "role" /\ e # "role"
    \/ d = "text" /\ e # "role"
    \/ d = "calls" /\ e \in Verdicts \cup {"usage", "DONE"}
    \/ d \in Verdicts /\ e \in {"usage", "DONE"}
    \/ d = "usage" /\ e = "DONE"
InOrder(w) == \A i, j \in DOMAIN w : i < j => Precedes(w[i], w[j])

(* A client reads the events of a response in the order its protocol has   *)
(* for them: nothing but text is repeated, no text follows a verdict,      *)
(* there is one verdict, and nothing follows the end mark (stream_pump and *)
(* the event scripts of response.rs).                                      *)
StreamInOrder == InOrder(sent \o todo)

Early == {"role", "text"}

(* A sequence in order, of events of a set.                                *)
Ordered(w, E) ==
    w \in Seq(EventKinds) /\ InOrder(w) /\ \A i \in DOMAIN w : w[i] \in E
Before(D, E) == \A d \in D, e \in E : Precedes(d, e)

(* Until the reader ends there is nothing but the role and text, so that   *)
(* whatever the next reply turns into may follow; a blocking response has  *)
(* no event before its one answer.                                         *)
Stream ==
    /\ Ordered(sent \o todo, EventKinds)
    /\ ~ending => Ordered(sent \o todo, Early)
    /\ ~streaming /\ ~ending => sent = << >>

LEMMA JoinedInOrder ==
    ASSUME NEW v, NEW D, Ordered(v, D), NEW w, NEW E, Ordered(w, E), Before(D, E)
    PROVE  Ordered(v \o w, D \cup E)
<1>1. /\ v \in Seq(EventKinds) /\ w \in Seq(EventKinds) /\ Len(v) \in Nat /\ Len(w) \in Nat
      /\ DOMAIN v = 1..Len(v) /\ DOMAIN w = 1..Len(w)
  BY DEF Ordered
<1>2. /\ v \o w \in Seq(EventKinds) /\ DOMAIN (v \o w) = 1..(Len(v) + Len(w))
      /\ \A i \in 1..(Len(v) + Len(w)) :
            (v \o w)[i] = IF i <= Len(v) THEN v[i] ELSE w[i - Len(v)]
  BY <1>1
<1>3. ASSUME NEW i \in 1..(Len(v) + Len(w))
      PROVE  \/ i \in DOMAIN v /\ (v \o w)[i] = v[i]
             \/ i > Len(v) /\ i - Len(v) \in DOMAIN w /\ (v \o w)[i] = w[i - Len(v)]
  BY <1>1, <1>2
<1>4. \A i \in DOMAIN (v \o w) : (v \o w)[i] \in D \cup E
  BY <1>2, <1>3 DEF Ordered
<1>5. ASSUME NEW i \in 1..(Len(v) + Len(w)), NEW j \in 1..(Len(v) + Len(w)), i < j
      PROVE  Precedes((v \o w)[i], (v \o w)[j])
  <2>1. CASE j <= Len(v)
    <3>1. i \in DOMAIN v /\ j \in DOMAIN v /\ (v \o w)[i] = v[i] /\ (v \o w)[j] = v[j]
      BY <1>1, <1>2, <1>5, <2>1
    <3>2. InOrder(v)
      BY DEF Ordered
    <3>3. QED
      BY ONLY <1>5, <3>1, <3>2 DEF InOrder
  <2>2. CASE i <= Len(v) /\ j > Len(v)
    <3>1. i \in DOMAIN v /\ (v \o w)[i] = v[i]
      BY <1>1, <1>2, <2>2
    <3>2. j - Len(v) \in DOMAIN w /\ (v \o w)[j] = w[j - Len(v)]
      BY <1>1, <1>2, <2>2
    <3>3. v[i] \in D /\ w[j - Len(v)] \in E
      BY <3>1, <3>2 DEF Ordered
    <3>4. QED
      BY ONLY <3>1, <3>2, <3>3, Before(D, E) DEF Before
  <2>3. CASE i > Len(v)
    <3>1. i - Len(v) \in DOMAIN w /\ (v \o w)[i] = w[i - Len(v)]
      BY <1>1, <1>2, <2>3
    <3>2. j - Len(v) \in DOMAIN w /\ (v \o w)[j] = w[j - Len(v)] /\ i - Len(v) < j - Len(v)
      BY <1>1, <1>2, <1>5, <2>3
    <3>3. InOrder(w)
      BY DEF Ordered
    <3>4. QED
      BY ONLY <3>1, <3>2, <3>3 DEF InOrder
  <2>4. QED
    BY <1>1, <2>1, <2>2, <2>3
<1>6. InOrder(v \o w)
  BY <1>2, <1>5 DEF InOrder
<1>7. QED
  BY <1>2, <1>4, <1>6 DEF Ordered

LEMMA OneInOrder ==
    ASSUME NEW e \in EventKinds
    PROVE  /\ Ordered(<<e>>, {e}) /\ Ordered(<< >>, {e})
           /\ \A w \in Optional(e) : Ordered(w, {e})
  BY DEF Ordered, InOrder, Optional

(* The events of a reply are in order and repeat no role; those of a delta *)
(* are text.                                                               *)
LEMMA ScriptInOrder ==
    ASSUME NEW r \in Replies, NEW script \in Script(r)
    PROVE  /\ Ordered(script, EventKinds \ {"role"})
           /\ r.kind = "Delta" => Ordered(script, {"text"})
<1>0. /\ {"text", "calls", "usage", "DONE", "finish", "error"} \subseteq EventKinds \ {"role"}
      /\ Verdicts = {"finish", "error"}
  BY DEF EventKinds, Verdicts
<1>1. r.kind \in {"Delta", "Done", "Error"}
  BY DEF Replies
<1>2. CASE r.kind = "Delta"
  <2>1. script \in Optional("text")
    BY <1>2 DEF Script
  <2>2. Ordered(script, {"text"})
    BY <1>0, <2>1, OneInOrder
  <2>3. QED
    BY <1>0, <2>2 DEF Ordered
<1>3. CASE r.kind = "Error"
  <2>1. script = <<"error", "DONE">>
    BY <1>3 DEF Script
  <2>2. Precedes("error", "DONE")
    BY <1>0 DEF Precedes
  <2>3. script \in Seq(EventKinds)
    BY <1>0, <2>1
  <2>4. InOrder(script)
    BY <2>1, <2>2 DEF InOrder
  <2>5. QED
    BY <1>0, <1>3, <2>1, <2>3, <2>4 DEF Ordered
<1>4. CASE r.kind = "Done"
  <2>1. CASE script = Malformed
    <3>1. Ordered(script, {"error"})
      BY <1>0, <2>1, OneInOrder DEF Malformed
    <3>2. QED
      BY <1>0, <1>4, <3>1 DEF Ordered
  <2>2. ASSUME NEW t \in Optional("text"), NEW c \in Optional("calls"),
               NEW u \in Optional("usage"),
               script = t \o c \o <<"finish">> \o u \o <<"DONE">>
        PROVE  Ordered(script, EventKinds \ {"role"})
    <3>1. Ordered(t, {"text"}) /\ Ordered(c, {"calls"}) /\ Ordered(u, {"usage"})
      BY <1>0, OneInOrder
    <3>2. Ordered(<<"finish">>, {"finish"}) /\ Ordered(<<"DONE">>, {"DONE"})
      BY <1>0, OneInOrder
    <3> DEFINE A == {"text"} \cup {"calls"}
               B == A \cup {"finish"}
               C == B \cup {"usage"}
               D == C \cup {"DONE"}
    <3>3. /\ Before({"text"}, {"calls"}) /\ Before(A, {"finish"})
          /\ Before(B, {"usage"}) /\ Before(C, {"DONE"})
      BY <1>0 DEF Before, Precedes
    <3>4. D \subseteq EventKinds \ {"role"}
      BY <1>0
    <3>5. Ordered(t \o c, A)
      BY ONLY <3>1, <3>3, JoinedInOrder
    <3> HIDE DEF A
    <3>6. Ordered((t \o c) \o <<"finish">>, B)
      BY ONLY <3>2, <3>3, <3>5, JoinedInOrder
    <3> HIDE DEF B
    <3>7. Ordered(((t \o c) \o <<"finish">>) \o u, C)
      BY ONLY <3>1, <3>3, <3>6, JoinedInOrder
    <3> HIDE DEF C
    <3>8. Ordered((((t \o c) \o <<"finish">>) \o u) \o <<"DONE">>, D)
      BY ONLY <3>2, <3>3, <3>7, JoinedInOrder
    <3> HIDE DEF D
    <3>9. Ordered(script, D)
      BY ONLY <2>2, <3>8
    <3>10. QED
      BY ONLY <3>4, <3>9 DEF Ordered
  <2> DEFINE Whole == { t \o c \o <<"finish">> \o u \o <<"DONE">> :
                          t \in Optional("text"), c \in Optional("calls"),
                          u \in Optional("usage") }
  <2>3. script \in Whole \/ script = Malformed
    <3>1. Script(r) = Whole \cup {Malformed}
      BY ONLY <1>4 DEF Script
    <3> HIDE DEF Whole
    <3>2. QED
      BY ONLY <3>1, script \in Script(r)
  <2>4. CASE script \in Whole
    <3>1. PICK t \in Optional("text"), c \in Optional("calls"), u \in Optional("usage") :
             script = t \o c \o <<"finish">> \o u \o <<"DONE">>
      BY ONLY <2>4 DEF Whole
    <3>2. QED
      BY ONLY <1>4, <2>2, <3>1
  <2> HIDE DEF Whole
  <2>5. QED
    BY ONLY <1>4, <2>1, <2>3, <2>4
<1>5. QED
  BY ONLY <1>1, <1>2, <1>3, <1>4

(* An event written, or events that are given up, leave the rest in order. *)
LEMMA WrittenInOrder ==
    ASSUME NEW v \in Seq(EventKinds), NEW w \in Seq(EventKinds), NEW E, Ordered(v \o w, E)
    PROVE  /\ Ordered(v, E) /\ v \o << >> = v
           /\ w # << >> => Append(v, Head(w)) \o Tail(w) = v \o w
<1>1. /\ Len(v) \in Nat /\ Len(w) \in Nat /\ DOMAIN v = 1..Len(v)
      /\ DOMAIN (v \o w) = 1..(Len(v) + Len(w))
      /\ \A i \in 1..Len(v) : (v \o w)[i] = v[i]
  OBVIOUS
<1>2. InOrder(v)
  <2>1. InOrder(v \o w)
    BY DEF Ordered
  <2>2. QED
    BY <1>1, <2>1 DEF InOrder
<1>3. \A i \in DOMAIN v : v[i] \in E
  BY <1>1 DEF Ordered
<1>4. Ordered(v, E) /\ v \o << >> = v
  BY <1>2, <1>3 DEF Ordered
<1>5. w # << >> => Append(v, Head(w)) \o Tail(w) = v \o w
  OBVIOUS
<1>6. QED
  BY <1>4, <1>5

LEMMA InitStream == Init => Stream
<1> SUFFICES ASSUME Init PROVE Stream
  OBVIOUS
<1>1. "role" \in EventKinds /\ "role" \in Early
  BY DEF EventKinds, Early
<1>2. sent = << >> /\ (todo = <<"role">> \/ todo = << >>)
  BY DEF Init
<1>3. sent \o todo = <<"role">> \/ sent \o todo = << >>
  BY <1>2
<1>4. Ordered(<<"role">>, {"role"}) /\ Ordered(<< >>, {"role"})
  BY <1>1, OneInOrder
<1>5. Ordered(sent \o todo, {"role"})
  BY ONLY <1>3, <1>4
<1>6. Ordered(sent \o todo, EventKinds) /\ Ordered(sent \o todo, Early)
  BY ONLY <1>1, <1>5 DEF Ordered
<1>7. QED
  BY <1>2, <1>6 DEF Stream

LEMMA PumpReceivesStream == IInv /\ Stream /\ PumpReceives => Stream'
<1> SUFFICES ASSUME IInv, Stream, PumpReceives PROVE Stream'
  OBVIOUS
<1>1. /\ ~ending /\ todo = << >> /\ sent \in Seq(EventKinds)
      /\ sent' = sent /\ streaming' = streaming /\ streaming
  BY DEF IInv, TypeOK, PumpReceives, Readable, body
<1>2. NextReply \in Replies
  BY RepliesAre DEF IInv, TypeOK, NextReply
<1>3. todo' \in Script(NextReply) /\ ending' = (NextReply.kind # "Delta")
  BY DEF PumpReceives, Heard
<1>4. sent \o todo = sent
  BY <1>1
<1>5. Ordered(sent, Early)
  BY <1>1, <1>4 DEF Stream
<1>6. /\ Ordered(todo', EventKinds \ {"role"})
      /\ NextReply.kind = "Delta" => Ordered(todo', {"text"})
  BY <1>2, <1>3, ScriptInOrder
<1>7. Before(Early, EventKinds \ {"role"}) /\ Before(Early, {"text"})
  BY DEF Before, Precedes, Early
<1>8. Ordered(sent \o todo', Early \cup (EventKinds \ {"role"}))
  BY ONLY <1>5, <1>6, <1>7, JoinedInOrder
<1>9. NextReply.kind = "Delta" => Ordered(sent \o todo', Early \cup {"text"})
  BY ONLY <1>5, <1>6, <1>7, JoinedInOrder
<1>10. Early \cup (EventKinds \ {"role"}) = EventKinds /\ Early \cup {"text"} = Early
  BY DEF Early, EventKinds
<1>11. QED
  BY ONLY <1>1, <1>3, <1>8, <1>9, <1>10 DEF Stream

LEMMA PumpWritesStream == IInv /\ Stream /\ PumpWrites => Stream'
<1> SUFFICES ASSUME IInv, Stream, PumpWrites PROVE Stream'
  OBVIOUS
<1>1. /\ sent \in Seq(EventKinds) /\ todo \in Seq(EventKinds) /\ todo # << >>
      /\ streaming' = streaming /\ streaming
  BY DEF IInv, TypeOK, PumpWrites
<1>2. /\ Ordered(sent, EventKinds) /\ sent \o << >> = sent
      /\ Append(sent, Head(todo)) \o Tail(todo) = sent \o todo
  BY <1>1, WrittenInOrder DEF Stream
<1>3. CASE conn = "open"
  <2>1. sent' = Append(sent, Head(todo)) /\ todo' = Tail(todo) /\ ending' = ending
    BY <1>3 DEF PumpWrites
  <2>2. sent' \o todo' = sent \o todo
    BY ONLY <1>2, <2>1
  <2>3. QED
    BY ONLY Stream, <1>1, <2>1, <2>2 DEF Stream
<1>4. CASE conn # "open"
  <2>1. sent' = sent /\ todo' = << >> /\ ending'
    BY <1>4 DEF PumpWrites
  <2>2. sent' \o todo' = sent
    BY ONLY <1>2, <2>1
  <2>3. QED
    BY ONLY <1>1, <1>2, <2>1, <2>2 DEF Stream
<1>5. QED
  BY <1>3, <1>4

LEMMA CollectStream == IInv /\ Stream /\ Collect => Stream'
<1> SUFFICES ASSUME IInv, Stream, Collect PROVE Stream'
  OBVIOUS
<1>1. /\ ~streaming /\ ~ending /\ todo' = todo /\ streaming' = streaming
      /\ todo = << >> /\ ending' = (NextReply.kind # "Delta")
  BY DEF Collect, Readable, Heard
<1>2. CASE NextReply.kind = "Delta"
  <2>1. sent' = sent
    BY <1>2 DEF Collect
  <2>2. sent' \o todo' = sent \o todo
    BY ONLY <1>1, <2>1
  <2>3. QED
    BY ONLY Stream, <1>1, <2>1, <2>2 DEF Stream
<1>3. CASE NextReply.kind # "Delta"
  <2>0. \E answer \in {"finish", "error"} : sent' = <<answer>>
    BY <1>3 DEF Collect, Verdicts
  <2>1. PICK answer \in {"finish", "error"} : sent' = <<answer>>
    BY <2>0
  <2>2. answer \in EventKinds
    BY DEF EventKinds, Verdicts
  <2>3. Ordered(<<answer>>, {answer})
    BY <2>2, OneInOrder
  <2>4. sent' \o todo' = <<answer>>
    BY <1>1, <2>1, <2>2
  <2>5. Ordered(sent' \o todo', EventKinds)
    BY ONLY <2>2, <2>3, <2>4 DEF Ordered
  <2>6. QED
    BY <1>1, <1>3, <2>5 DEF Stream
<1>4. QED
  BY <1>2, <1>3

LEMMA HangUpStream == IInv /\ Stream /\ HangUp => Stream'
<1> SUFFICES ASSUME IInv, Stream, HangUp PROVE Stream'
  OBVIOUS
<1>1. sent' = sent /\ streaming' = streaming
  BY DEF HangUp
<1>2. todo' = todo
  BY DEF HangUp, IInv, Blocking
<1>3. ending' = ending \/ ending'
  BY DEF HangUp
<1>4. sent' \o todo' = sent \o todo
  BY ONLY <1>1, <1>2
<1>5. QED
  BY ONLY Stream, <1>1, <1>3, <1>4 DEF Stream

LEMMA StreamStays ==
    Stream /\ UNCHANGED <<sent, todo, ending, streaming>> => Stream'
<1> SUFFICES ASSUME Stream, UNCHANGED <<sent, todo, ending, streaming>> PROVE Stream'
  OBVIOUS
<1>1. sent' \o todo' = sent \o todo
  OBVIOUS
<1>2. QED
  BY <1>1 DEF Stream

LEMMA NextStream == IInv /\ Stream /\ [Next]_vars => Stream'
<1> SUFFICES ASSUME IInv, Stream, [Next]_vars PROVE Stream'
  OBVIOUS
<1> DEFINE Kept == UNCHANGED <<sent, todo, ending, streaming>>
<1>1. Engine => Kept
  BY DEF Engine, Hold, FailQueued, Admit, Scan, Step, FailAll, SendDelta, EndEvent,
         reader, body
<1>2. Poll \/ ReadToEnd \/ DropGuard \/ Stopped \/ UNCHANGED vars => Kept
  BY DEF Poll, ReadToEnd, DropGuard, Stopped, vars, reader, body
<1>3. Kept => Stream'
  BY StreamStays
<1> HIDE DEF Kept
<1>4. QED
  BY <1>1, <1>2, <1>3, PumpReceivesStream, PumpWritesStream, CollectStream, HangUpStream
     DEF Next, Reader, Client

(* The body of a response has its events in order (StreamInOrder).         *)
THEOREM StreamsStayInOrder == Spec => []StreamInOrder
<1>1. Stream => StreamInOrder
  BY DEF Stream, Ordered, StreamInOrder
<1>2. QED
  BY <1>1, Invariance, InitStream, NextStream, PTL DEF Spec
=============================================================================
