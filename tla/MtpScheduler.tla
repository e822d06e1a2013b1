---------------------------- MODULE MtpScheduler ----------------------------
(***************************************************************************)
(* The compact MTP scheduler of the resident Qwen3.8 target: admission of  *)
(* chats into slots, reuse of the prefixes finished or cancelled chats     *)
(* left behind, reclaiming of KV pages, and the speculative rounds         *)
(* (crates/tuisko-engine/src/qwen38/resident_mtp_batch_generation.rs,      *)
(* ResidentMtpBatchGenerator).                                             *)
(*                                                                         *)
(* The scheduler is called by one thread, so every call is one action. A   *)
(* piece of device state is modelled by the tokens that produced it: two   *)
(* states are the same if they come from the same tokens in the same       *)
(* order. Which tokens the model generates is left open.                   *)
(***************************************************************************)
EXTENDS Integers, Sequences, SequencesExt, FiniteSetsExt

CONSTANTS
    MAX_BATCH,            \* number of slots
    PhysicalPages,        \* KV pages shared by the slots
    ATTENTION_PAGE_SIZE,  \* positions in one page
    ContextCapacity,      \* longest context
    DRAFT_WINDOW,         \* drafts proposed in one round, at most
    Text, Stop,           \* generated tokens; the stop token
    Requests,             \* chats: prompt, message boundary, max_new_tokens
    ScoreLengths,         \* positions a scoring request needs
    Garbage,              \* device state that no token sequence describes
    None

Slots == 0 .. MAX_BATCH - 1
Tokens == Text \cup {Stop, Garbage}
             \cup UNION { { r.prompt[k] : k \in DOMAIN r.prompt } : r \in Requests }

(* A chat that runs, and the prefix that a chat leaves behind.             *)
Chats == [prompt : Seq(Tokens), boundary : Nat, budget : Nat]
Sessions == [prompt : Seq(Tokens), boundary : Nat, budget : Nat,
             generated : Seq(Tokens), position : 1 .. ContextCapacity]
RetainedPrefixes == [tokens : Seq(Tokens), boundary : Nat]

(* A prompt ends in the header of the message to generate; the tokens      *)
(* before it are its message boundary (message_boundary_tokens).           *)
ASSUME SchedulerAssumption ==
    /\ {MAX_BATCH, PhysicalPages, ATTENTION_PAGE_SIZE, ContextCapacity,
        DRAFT_WINDOW} \subseteq Nat \ {0}
    /\ Requests \subseteq Chats
    /\ \A r \in Requests : r.boundary \in 1 .. Len(r.prompt) - 1
    /\ ScoreLengths \subseteq Nat
    /\ None \notin Sessions \cup RetainedPrefixes \cup Seq(Tokens)

(* Every message of a prompt before its boundary is closed by a stop token *)
(* (<|im_end|>), and a round stops at one: no prompt with an open answer   *)
(* to it is all that comes before the boundary of another prompt.          *)
ASSUME ClosedAnswers ==
    \A q, r \in Requests :
        IsPrefix(q.prompt, SubSeq(r.prompt, 1, r.boundary)) =>
            \E k \in Len(q.prompt) + 1 .. r.boundary : r.prompt[k] \notin Text

VARIABLES
    session,    \* session[s]: the request running in slot s, or None
    active,     \* active_slots, oldest admission first
    retained,   \* retained[s]: the inactive prefix kept in slot s, or None
    order,      \* slots with a retained prefix, least recently used first
    pool,       \* pool[s]: lifecycle and reserved positions of KV row s
    device,     \* device[s]: KV rows, GDN state, boundary hidden, MTP rows
    snapshot,   \* snapshot[s]: host copy at the message boundary, or None
    answer      \* what the last call returned; the positions pages lacked for

vars == <<session, active, retained, order, pool, device, snapshot, answer>>
state == <<session, active, retained, order, pool, device, snapshot>>

Running == { s \in Slots : session[s] # None }
Held == { s \in Slots : retained[s] # None }
Vacant == [state |-> "Vacant", tokens |-> 0]
Unknown == [kv |-> <<Garbage>>, gdn |-> <<Garbage>>, hidden |-> <<Garbage>>,
            mtp |-> <<Garbage>>]

Init ==
    /\ session = [s \in Slots |-> None] /\ active = << >>
    /\ retained = [s \in Slots |-> None] /\ order = << >>
    /\ pool = [s \in Slots |-> Vacant]
    /\ device = [s \in Slots |-> Unknown]
    /\ snapshot = [s \in Slots |-> None]
    /\ answer = [kind |-> "none", need |-> 0]

Answer(kind, need) == answer' = [kind |-> kind, need |-> need]
Without(seq, S) ==
    LET kept[i \in 0 .. Len(seq)] ==
            IF i = 0 THEN << >>
            ELSE IF seq[i] \in S THEN kept[i - 1]
            ELSE Append(kept[i - 1], seq[i])
    IN  kept[Len(seq)]

-----------------------------------------------------------------------------
(* KV pages: a row owns the pages its reserved positions need              *)
(* (PagedKvSlots), one for each used entry of its page table; rows is the  *)
(* pool, or the pool as a call has left it so far.                         *)
Pages(n) == (n + ATTENTION_PAGE_SIZE - 1) \div ATTENTION_PAGE_SIZE
Entries(rows, S) ==
    { e \in S \X (1 .. Pages(ContextCapacity)) : e[2] <= Pages(rows[e[1]].tokens) }
PagesOf(rows, S) == Cardinality(Entries(rows, S))
FreePages(rows) == PhysicalPages - PagesOf(rows, Slots)

(* Positions a request can write: the last generated token is not.         *)
BugRequired_OneShort(r) == Len(r.prompt) + r.budget - 2
Required(r) == Len(r.prompt) + (IF r.budget = 0 THEN 0 ELSE r.budget - 1)

(* select_slot: the longest retained prefix of the prompt, complete or cut *)
(* back to its message boundary, the most recent one among equals; else a  *)
(* slot without request and prefix; else the least recently used prefix.   *)
Reuses(prompt) ==
    { [slot |-> s, reused |-> Len(retained[s].tokens), reset |-> FALSE,
       fallback |-> FALSE] :
         s \in { s \in Held : IsPrefix(retained[s].tokens, prompt) } }
    \cup
    { [slot |-> s, reused |-> retained[s].boundary, reset |-> FALSE,
       fallback |-> TRUE] :
         s \in { s \in Held :
            /\ ~IsPrefix(retained[s].tokens, prompt)
            /\ IsPrefix(SubSeq(retained[s].tokens, 1, retained[s].boundary), prompt) } }

Later(s, t) == \E i, j \in DOMAIN order : order[i] = t /\ order[j] = s /\ i < j
Best(choices) ==
    { c \in choices : \A d \in choices \ {c} :
        c.reused > d.reused \/ (c.reused = d.reused /\ Later(c.slot, d.slot)) }

Reset(s) == [slot |-> s, reused |-> 0, reset |-> TRUE, fallback |-> FALSE]
Selected(prompt) ==
    LET free == Slots \ (Running \cup Held)
    IN  CASE Reuses(prompt) # {} -> Best(Reuses(prompt))
          [] Reuses(prompt) = {} /\ free # {} -> { Reset(Min(free)) }
          [] Reuses(prompt) = {} /\ free = {} /\ order # << >> -> { Reset(Head(order)) }
          [] OTHER -> {}

(* restore_retained_message_boundary: the slot goes back to its snapshot.  *)
Restored(c) ==
    IF c.fallback
    THEN [device[c.slot] EXCEPT !.gdn = snapshot[c.slot], !.hidden = snapshot[c.slot]]
    ELSE device[c.slot]
RowsRestored(c) == IF c.fallback THEN [pool EXCEPT ![c.slot].tokens = c.reused] ELSE pool
PrefixRestored(c) ==
    IF c.fallback
    THEN [retained EXCEPT ![c.slot].tokens = SubSeq(@, 1, c.reused)]
    ELSE retained

(* prepare_kv_slot: what the slot still lacks once it is reset, what other *)
(* prefixes can give, and the prefixes given up for it, oldest first.      *)
Missing(rows, c, need) ==
    IF c.reset THEN Pages(need) - FreePages(rows) - Pages(rows[c.slot].tokens)
    ELSE Pages(need) - Pages(rows[c.slot].tokens) - FreePages(rows)
BugReclaimable_NotOnReset(rows, c) == IF c.reset THEN 0 ELSE PagesOf(rows, Held \ {c.slot})
Reclaimable(rows, c) == PagesOf(rows, Held \ {c.slot})

Victims(rows, c, need) ==
    LET others == Without(order, {c.slot})
        First(k) == { others[i] : i \in 1 .. k }
        enough == { k \in 0 .. Len(others) :
                      PagesOf(rows, First(k)) >= Missing(rows, c, need) }
    IN  IF enough = {} THEN {} ELSE First(Min(enough))

Given(rows, gone) == [s \in Slots |-> IF s \in gone THEN Vacant ELSE rows[s]]
Cleared(f, gone) == [s \in Slots |-> IF s \in gone THEN None ELSE f[s]]

-----------------------------------------------------------------------------
(* admit_with_progress                                                     *)

(* Refusals before anything has changed. The first progress report finds   *)
(* the client gone; a prompt with nothing to generate completes at once.   *)
AdmitEarly(r) ==
    /\ \/ Required(r) > ContextCapacity /\ Answer("context", 0)
       \/ Required(r) <= ContextCapacity /\ r.budget = 0 /\ Answer("ok", 0)
       \/ /\ Required(r) <= ContextCapacity /\ r.budget > 0
          /\ \/ Selected(r.prompt) = {} /\ Answer("slots", 0)
             \/ Selected(r.prompt) # {} /\ Answer("disconnected", 0)
             \/ /\ \E c \in Selected(r.prompt) : c.reused > r.boundary
                /\ Answer("boundary", 0)
    /\ UNCHANGED state

(* The choice a request goes on with.                                      *)
Choice(r) ==
    { c \in Selected(r.prompt) :
        Required(r) <= ContextCapacity /\ r.budget > 0 /\ c.reused <= r.boundary }

(* The code's own consistency checks on the way to the prefill.            *)
Inconsistent(c, r) ==
    \/ c.fallback /\ snapshot[c.slot] = None
    \/ c.fallback /\ retained[c.slot].boundary >= Len(retained[c.slot].tokens)
    \/ ~c.reset /\ Pages(Required(r)) < Pages(RowsRestored(c)[c.slot].tokens)
    \/ ~c.reset /\ c.reused = r.boundary /\ snapshot[c.slot] = None

Short(c, r) ==
    Missing(RowsRestored(c), c, Required(r)) > Reclaimable(RowsRestored(c), c)

(* Too few pages, all inactive prefixes counted: the fallback stays done.  *)
AdmitRefused(r) ==
    \E c \in Choice(r) :
        IF Inconsistent(c, r) THEN Answer("internal", 0) /\ UNCHANGED state
        ELSE /\ Short(c, r)
             /\ pool' = RowsRestored(c) /\ retained' = PrefixRestored(c)
             /\ device' = [device EXCEPT ![c.slot] = Restored(c)]
             /\ Answer("pages", Required(r))
             /\ UNCHANGED <<session, active, order, snapshot>>

Admissible(r) == { c \in Choice(r) : ~Inconsistent(c, r) /\ ~Short(c, r) }

(* prepare_kv_slot, activate and reserve: the slot's prefix and the gone   *)
(* ones are given up, and its row is as the call leaves it.                *)
Claim(c, gone, row) ==
    /\ retained' = Cleared(retained, gone \cup {c.slot})
    /\ order' = Without(order, gone \cup {c.slot})
    /\ pool' = [Given(RowsRestored(c), gone) EXCEPT ![c.slot] = row]

(* The prompt is prefilled from what the slot keeps; the state at the      *)
(* message boundary is captured on the way unless the slot starts there.   *)
BugPrefilled_NoReset(c, r, kept) ==
    LET fresh == SubSeq(r.prompt, c.reused + 1, Len(r.prompt))
        first == Max({c.reused, 1})
    IN  [kv |-> SubSeq(kept.kv, 1, c.reused) \o fresh,
         gdn |-> kept.gdn \o fresh,
         hidden |-> kept.gdn \o fresh,
         mtp |-> SubSeq(kept.mtp, 1, first - 1)
                    \o SubSeq(r.prompt, first + 1, Len(r.prompt))]
Prefilled(c, r, kept) ==
    LET fresh == SubSeq(r.prompt, c.reused + 1, Len(r.prompt))
        gdn == IF c.reset THEN << >> ELSE kept.gdn
        first == Max({c.reused, 1})
    IN  [kv |-> SubSeq(kept.kv, 1, c.reused) \o fresh,
         gdn |-> gdn \o fresh,
         hidden |-> gdn \o fresh,
         mtp |-> SubSeq(kept.mtp, 1, first - 1)
                    \o SubSeq(r.prompt, first + 1, Len(r.prompt))]

Captured(c, r, filled) ==
    IF c.reused < r.boundary THEN SubSeq(filled.gdn, 1, r.boundary)
    ELSE snapshot[c.slot]

Admit(r) ==
    \E c \in Admissible(r) :
        LET gone == Victims(RowsRestored(c), c, Required(r))
            filled == Prefilled(c, r, Restored(c))
        IN  /\ Claim(c, gone, [state |-> "Active", tokens |-> Required(r)])
            /\ session' = [session EXCEPT ![c.slot] =
                  [prompt |-> r.prompt, boundary |-> r.boundary, budget |-> r.budget,
                   generated |-> << >>, position |-> Len(r.prompt)]]
            /\ active' = Append(active, c.slot)
            /\ device' = [device EXCEPT ![c.slot] = filled]
            /\ snapshot' = [Cleared(snapshot, gone) EXCEPT ![c.slot] =
                               Captured(c, r, filled)]
            /\ Answer("ok", 0)

(* The client leaves during the prefill, or a prefill call fails           *)
(* (abort_admission): the slot is vacant and its prefix is lost.           *)
BugAdmitAborted_PrefixKept(r) ==
    \E c \in Admissible(r) :
        LET gone == Victims(RowsRestored(c), c, Required(r)) IN
        /\ retained' = Cleared(retained, gone) /\ order' = Without(order, gone)
        /\ pool' = [Given(RowsRestored(c), gone) EXCEPT ![c.slot] = Vacant]
        /\ device' = [device EXCEPT ![c.slot] = Unknown]
        /\ snapshot' = Cleared(snapshot, gone)
        /\ Answer("aborted", 0)
        /\ UNCHANGED <<session, active>>
AdmitAborted(r) ==
    \E c \in Admissible(r) :
        LET gone == Victims(RowsRestored(c), c, Required(r)) IN
        /\ Claim(c, gone, Vacant)
        /\ device' = [device EXCEPT ![c.slot] = Unknown]
        /\ snapshot' = Cleared(snapshot, gone \cup {c.slot})
        /\ Answer("aborted", 0)
        /\ UNCHANGED <<session, active>>

(* Another device call fails after the row was activated (loading its      *)
(* routes, reading a row, capturing the boundary). The call returns as it  *)
(* is: the row stays active with neither a request nor a prefix.           *)
AdmitFails(r) ==
    \E c \in Admissible(r) :
        LET gone == Victims(RowsRestored(c), c, Required(r)) IN
        /\ Claim(c, gone, [state |-> "Active", tokens |-> Required(r)])
        /\ device' = [device EXCEPT ![c.slot] = Unknown]
        /\ snapshot' = [Cleared(snapshot, gone) EXCEPT ![c.slot] = <<Garbage>>]
        /\ Answer("failed", 0)
        /\ UNCHANGED <<session, active>>

-----------------------------------------------------------------------------
(* step and cancel                                                         *)

Remaining(s) == session[s].budget - Len(session[s].generated)
Fresh(s) == session[s].generated = << >>
Speculative == { s \in Running : ~Fresh(s) /\ Remaining(s) > 1 }

(* Drafts of the round: the group proposes as many as its shortest budget  *)
(* leaves room for, beside the row that verifies them.                     *)
BugExtent_LongestBudget ==
    Max({ Min({DRAFT_WINDOW, Remaining(s) - 1}) : s \in Speculative })
Extent == Min({ Min({DRAFT_WINDOW, Remaining(s) - 1}) : s \in Speculative })

(* What one request can commit: its first token (start_anchors), its last  *)
(* one (run_tail), or accepted drafts and a correction or a bonus token,   *)
(* ending at a stop token (run_speculative).                               *)
Outputs(s) ==
    LET most == IF s \in Speculative THEN Extent + 1 ELSE 1 IN
    UNION { { out \in [1 .. n -> Text \cup {Stop}] :
                \A k \in 1 .. n - 1 : out[k] # Stop } : n \in 1 .. most }

(* commit_and_realign: the rows of the last token and of the accepted      *)
(* drafts become state; rejected drafts lie behind the position, where the *)
(* next round overwrites them. The first token only aligns the MTP row.    *)
BugCommitted_OneMoreRow(s, out) ==
    LET d == device[s]
        rows == <<Last(session[s].generated)>> \o out
    IN  IF Fresh(s) THEN [d EXCEPT !.mtp = Append(@, out[1])]
        ELSE [kv |-> SubSeq(d.kv, 1, session[s].position) \o rows,
              gdn |-> d.gdn \o rows, hidden |-> d.gdn \o rows, mtp |-> d.mtp \o out]
Committed(s, out) ==
    LET d == device[s]
        rows == <<Last(session[s].generated)>> \o Front(out)
    IN  IF Fresh(s) THEN [d EXCEPT !.mtp = Append(@, out[1])]
        ELSE [kv |-> SubSeq(d.kv, 1, session[s].position) \o rows,
              gdn |-> d.gdn \o rows, hidden |-> d.gdn \o rows, mtp |-> d.mtp \o out]

Advanced(s, out) ==
    [session[s] EXCEPT !.generated = @ \o out,
                       !.position = IF Fresh(s) THEN @ ELSE @ + Len(out)]
Terminal(s, out) == Last(out) = Stop \/ Len(out) = Remaining(s)

(* processed_tokens: what the device has seen of a request.                *)
Processed(x) == SubSeq(x.prompt \o x.generated, 1, x.position)

(* store_retained keeps a prefix only with a boundary inside it that has a *)
(* snapshot.                                                               *)
Storable(s, boundary, tokens) ==
    boundary \in 1 .. Len(tokens) /\ snapshot[s] # None

Stored(tokens, s) == [state |-> "Retained", tokens |-> Len(tokens)]

Step ==
    /\ active # << >>
    /\ \E out \in [Running -> UNION { Outputs(s) : s \in Running }] :
          LET done == { s \in Running : Terminal(s, out[s]) }
              final == [s \in Running |-> Processed(Advanced(s, out[s]))]
          IN
          /\ \A s \in Running : out[s] \in Outputs(s)
          /\ IF \E s \in done : ~Storable(s, session[s].boundary, final[s])
             THEN Answer("internal", 0) /\ UNCHANGED state
             ELSE /\ device' = [s \in Slots |->
                        IF s \in Running THEN Committed(s, out[s]) ELSE device[s]]
                  /\ session' = [s \in Slots |->
                        IF s \in Running \ done THEN Advanced(s, out[s]) ELSE None]
                  /\ active' = Without(active, done)
                  /\ order' = order \o Without(active, Slots \ done)
                  /\ retained' = [s \in Slots |-> IF s \in done
                        THEN [tokens |-> final[s], boundary |-> session[s].boundary]
                        ELSE retained[s]]
                  /\ pool' = [s \in Slots |->
                        IF s \in done THEN Stored(final[s], s) ELSE pool[s]]
                  /\ Answer("ok", 0)
                  /\ UNCHANGED snapshot

(* A cancelled request goes back to its message boundary.                  *)
Cancel(s) ==
    /\ session[s] # None
    /\ LET x == session[s]
           kept == SubSeq(x.prompt, 1, x.boundary)
       IN IF ~Storable(s, x.boundary, kept) THEN Answer("internal", 0) /\ UNCHANGED state
          ELSE /\ device' = [device EXCEPT ![s].gdn = snapshot[s], ![s].hidden = snapshot[s]]
               /\ session' = [session EXCEPT ![s] = None]
               /\ active' = Without(active, {s})
               /\ retained' = [retained EXCEPT ![s] =
                                  [tokens |-> kept, boundary |-> x.boundary]]
               /\ order' = Append(order, s)
               /\ pool' = [pool EXCEPT ![s] = Stored(kept, s)]
               /\ Answer("ok", 0)
               /\ UNCHANGED snapshot

-----------------------------------------------------------------------------
(* score_prompt, score_prompts and score_continuations run in slot 0 of an *)
(* idle scheduler and leave it vacant, whether they succeed or not.        *)
ScoreRefused(n) ==
    /\ \/ active # << >> /\ Answer("busy", 0)
       \/ active = << >> /\ n > ContextCapacity /\ Answer("context", 0)
       \/ /\ active = << >> /\ n <= ContextCapacity
          /\ Missing(pool, Reset(0), n) > Reclaimable(pool, Reset(0))
          /\ Answer("pages", n)
    /\ UNCHANGED state

Score(n) ==
    LET gone == Victims(pool, Reset(0), n) IN
    /\ active = << >> /\ n <= ContextCapacity
    /\ Missing(pool, Reset(0), n) <= Reclaimable(pool, Reset(0))
    /\ Claim(Reset(0), gone, Vacant)
    /\ device' = [device EXCEPT ![0] = Unknown]
    /\ snapshot' = Cleared(snapshot, gone \cup {0})
    /\ Answer("ok", 0)
    /\ UNCHANGED <<session, active>>

Next ==
    \/ \E r \in Requests :
          AdmitEarly(r) \/ AdmitRefused(r) \/ Admit(r) \/ AdmitAborted(r) \/ AdmitFails(r)
    \/ Step
    \/ \E s \in Slots : Cancel(s)
    \/ \E n \in ScoreLengths : ScoreRefused(n) \/ Score(n)

Spec == Init /\ [][Next]_vars

-----------------------------------------------------------------------------
(* The types of the variables. Sequences of tokens are not bounded here.   *)
TypeOK ==
    /\ session \in [Slots -> Sessions \cup {None}]
    /\ \A s \in Running :
          /\ [prompt |-> session[s].prompt, boundary |-> session[s].boundary,
              budget |-> session[s].budget] \in Requests
          /\ Len(session[s].generated) < session[s].budget
    /\ active \in Seq(Slots) /\ order \in Seq(Slots)
    /\ retained \in [Slots -> RetainedPrefixes \cup {None}]
    /\ \A s \in Held : retained[s].boundary \in 1 .. Len(retained[s].tokens)
    /\ pool \in [Slots -> [state : {"Vacant", "Active", "Retained"},
                           tokens : 0 .. ContextCapacity]]
    /\ device \in [Slots -> [kv : Seq(Tokens), gdn : Seq(Tokens),
                             hidden : Seq(Tokens), mtp : Seq(Tokens)]]
    /\ snapshot \in [Slots -> Seq(Tokens) \cup {None}]
    /\ answer \in [kind : {"none", "ok", "context", "slots", "pages", "boundary", "busy",
                           "aborted", "disconnected", "failed", "internal"},
                   need : Nat]

(* The state of a slot is the state of these tokens: its KV rows, its GDN  *)
(* state and its boundary hidden row come from them and from nothing else, *)
(* and every MTP row but the last was aligned with the token after it.     *)
HoldsState(s, tokens) ==
    /\ SubSeq(device[s].kv, 1, Len(tokens)) = tokens
    /\ device[s].gdn = tokens
    /\ device[s].hidden = tokens
    /\ SubSeq(device[s].mtp, 1, Len(tokens) - 1) = Tail(tokens)

(* A running request generates from its own tokens, whichever prefix its   *)
(* slot reused and whatever the rounds rejected: the rounds of one request *)
(* or the admission of another never leave a foreign or rejected token in  *)
(* its state. Its last MTP row is aligned with its anchor, and its slot's  *)
(* snapshot is the one of its own message boundary, which a cancellation   *)
(* keeps.                                                                  *)
SessionIsExact ==
    \A s \in Running :
        LET x == session[s] IN
        /\ HoldsState(s, Processed(x))
        /\ snapshot[s] = SubSeq(x.prompt, 1, x.boundary)
        /\ x.generated # << >> =>
             /\ x.position = Len(x.prompt) + Len(x.generated) - 1
             /\ device[s].mtp = Tail(x.prompt \o x.generated)

(* An inactive prefix is reusable: what is kept is exactly the state of    *)
(* the tokens it claims, with the positions reserved for them and the      *)
(* snapshot that a fallback to its message boundary restores.              *)
RetainedIsExact ==
    \A s \in Held :
        /\ HoldsState(s, retained[s].tokens)
        /\ pool[s] = [state |-> "Retained", tokens |-> Len(retained[s].tokens)]
        /\ snapshot[s] = SubSeq(retained[s].tokens, 1, retained[s].boundary)

(* The scheduler's books and the pool agree, no page is promised twice,    *)
(* and only a failed admission leaves a row active without a request.      *)
BooksAgree ==
    /\ Running \cap Held = {}
    /\ ToSet(active) = Running /\ Len(active) = Cardinality(Running)
    /\ ToSet(order) = Held /\ Len(order) = Cardinality(Held)
    /\ \A s \in Slots :
          /\ s \in Running => pool[s].state = "Active"
          /\ pool[s].state = "Retained" <=> s \in Held
          /\ pool[s].state = "Vacant" => pool[s].tokens = 0
    /\ FreePages(pool) >= 0

(* Every row a round writes, the drafts it may reject included, lies in    *)
(* the positions reserved at admission, whichever requests run together.   *)
WritesReserved ==
    \A s \in Running :
        session[s].position
          + (IF Fresh(s) THEN 0 ELSE IF s \in Speculative THEN Extent + 1 ELSE 1)
        <= pool[s].tokens

(* A refusal for lack of pages is final: even with every inactive prefix   *)
(* given up, what running requests and failed admissions hold leaves too   *)
(* little.                                                                 *)
RefusalIsHonest ==
    answer.kind = "pages" =>
        Pages(answer.need) + PagesOf(pool, { s \in Slots : pool[s].state = "Active" })
          > PhysicalPages

(* The check of the reused prefix against the message boundary             *)
(* ("resident MTP reused prefix exceeds message boundary") is a            *)
(* consistency check: a prefix that a served chat has left is reusable.    *)
ReuseWithinBoundary == answer.kind # "boundary"
=============================================================================
