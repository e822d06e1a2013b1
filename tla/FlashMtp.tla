------------------------------ MODULE FlashMtp ------------------------------
(***************************************************************************)
(* The served Qwen3.8 Flash-Next generator: one request at a time, target  *)
(* and draft block in one slot (crates/tuisko-engine/src/                  *)
(* qwen38_flash_next: mtp_serving.rs, mtp_generation.rs, mtp_program.rs,   *)
(* resident_model.rs, slot_lifecycle.rs).                                  *)
(*                                                                         *)
(* A speculative round drafts up to three tokens, verifies them in one     *)
(* span of the target and, if one is rejected, restores a snapshot of the  *)
(* recurrent state and replays the accepted prefix. K/V rows are append    *)
(* only and need "only a length rollback".                                 *)
(*                                                                         *)
(* What a device row holds is modelled by the tokens it comes from: the    *)
(* row of a position by the sequence of tokens up to it. Which tokens the  *)
(* model generates and the draft proposes is left open.                    *)
(***************************************************************************)
EXTENDS Integers, Sequences, SequencesExt, FiniteSetsExt

CONSTANTS
    FundedPages,       \* pages of the shared pool
    SLOT_PAGE_TOKENS,  \* positions in a page
    COMPRESS_RATIO,    \* positions whose index keys form one block key
    Tile,              \* tokens of a native prefill tile
    DRAFT_WINDOW,      \* drafts of a round, at most
    Text, Stop,        \* tokens the model generates; the stop token
    Requests,          \* prompt and max_new_tokens
    MaxEpoch,          \* bound on the sequence epoch: two per request
    Garbage, None

ASSUME FlashAssumption ==
    /\ {FundedPages, SLOT_PAGE_TOKENS, COMPRESS_RATIO, Tile, DRAFT_WINDOW, MaxEpoch}
         \subseteq Nat \ {0}
    /\ SLOT_PAGE_TOKENS % COMPRESS_RATIO = 0 /\ Tile % COMPRESS_RATIO = 0
    /\ Tile > 1 /\ DRAFT_WINDOW < COMPRESS_RATIO
    /\ None \notin Requests
    /\ \A r \in Requests : /\ r.prompt # << >> /\ r.prompt \in Seq(Range(r.prompt))
                          /\ r.budget \in Nat \ {0}

VARIABLES
    pc,         \* where the engine thread is in a step of the request
    request,    \* the active request, or None
    generated,  \* its selected tokens, committed outputs not yet handed out too
    served,     \* how many of them were handed out
    round,      \* the speculative round: position, inputs, accepted drafts
    pool,       \* the slot's page ownership and the free list
    saved,      \* the restore point of the round
    device      \* device memory, see Reset and Unwritten

vars == <<pc, request, generated, served, round, pool, saved, device>>

Token == Text \cup {Stop}
Pages == 1 .. FundedPages
Cells == Pages \X (0 .. SLOT_PAGE_TOKENS - 1)
Members == 0 .. COMPRESS_RATIO - 1
Capacity == FundedPages * SLOT_PAGE_TOKENS

(* The request's control state. The last generated token is the anchor: no *)
(* target row has processed it yet, and Position is the row it will get.   *)
Finished ==
    generated # << >> /\ (Last(generated) = Stop \/ Len(generated) = request.budget)
Remaining == request.budget - Len(generated)
Position == Len(request.prompt) + Max({Len(generated) - 1, 0})
Drained == served = Len(generated)
Required(r) == Len(r.prompt) + r.budget - 1
Reserved(r) == Min({Required(r) + DRAFT_WINDOW, Capacity})

-----------------------------------------------------------------------------
(* The slot pool. Free pages are popped from the end of the list.          *)
PagesFor(tokens) == (tokens + SLOT_PAGE_TOKENS - 1) \div SLOT_PAGE_TOKENS
Mapped(p) == Len(p.pages) * SLOT_PAGE_TOKENS

CanReserve(p, tokens) ==
    tokens >= p.tokens /\ PagesFor(tokens) <= Len(p.pages) + Len(p.free)

Reserve(p, tokens) ==
    LET keep == Len(p.free) - Max({PagesFor(tokens) - Len(p.pages), 0})
    IN [p EXCEPT !.pages = @ \o Reverse(SubSeq(p.free, keep + 1, Len(p.free))),
                 !.free = SubSeq(@, 1, keep),
                 !.epoch = IF p.active THEN @ ELSE @ + 1,
                 !.active = TRUE]

(* Released pages go back last one first, so that they come out in order.  *)
Dropped(p, tokens) == SubSeq(p.pages, PagesFor(tokens) + 1, Len(p.pages))

BugReturned_PageLost(p, tokens) == p.free
BugReturned_ToTheBack(p, tokens) == Dropped(p, tokens) \o p.free
Returned(p, tokens) == p.free \o Reverse(Dropped(p, tokens))

TruncateMapping(p, tokens) ==
    [p EXCEPT !.pages = SubSeq(@, 1, Min({PagesFor(tokens), Len(@)})),
              !.free = Returned(p, tokens),
              !.tokens = tokens]

Recycle(p) ==
    [TruncateMapping(p, 0) EXCEPT !.active = FALSE,
                                  !.epoch = IF p.active THEN @ + 1 ELSE @]

Commit(p, tokens) == [p EXCEPT !.tokens = tokens]

(* admit_round: an active, exactly append-only write into mapped pages.    *)
AdmitRound(first, rows) ==
    pool.active /\ first = pool.tokens /\ first + rows <= Mapped(pool)

-----------------------------------------------------------------------------
(* The device. The block table is the pool's mapping as last flushed.      *)
Cell(d, position) == <<d.table[position \div SLOT_PAGE_TOKENS + 1],
                       position % SLOT_PAGE_TOKENS>>

(* One plane after rows for the positions from first on are written.       *)
Write(plane, d, first, rows) ==
    [c \in Cells |->
        IF \E i \in DOMAIN rows : Cell(d, first + i - 1) = c
        THEN rows[CHOOSE i \in DOMAIN rows : Cell(d, first + i - 1) = c]
        ELSE plane[c]]

Unwritten == [c \in Cells |-> <<Garbage>>]

(* The slot-owned carries a reset clears: recurrent state and engram       *)
(* carry, and the ring of raw index keys of the open block.                *)
Reset(d) == [d EXCEPT !.recurrent = << >>, !.ring = [m \in Members |-> << >>]]

Contents(d, tokens) == [i \in DOMAIN tokens |-> d.recurrent \o SubSeq(tokens, 1, i)]

(* A span of up to MAX_BATCH rows of the target. All its raw index keys    *)
(* are put into the ring before a block that closes is pooled from it.     *)
TargetSpan(d, first, tokens) ==
    LET rows == Contents(d, tokens)
        ring == [m \in Members |->
                   IF \E i \in DOMAIN rows : (first + i - 1) % COMPRESS_RATIO = m
                   THEN rows[CHOOSE i \in DOMAIN rows :
                               (first + i - 1) % COMPRESS_RATIO = m]
                   ELSE d.ring[m]]
        closing == { i \in DOMAIN rows : (first + i) % COMPRESS_RATIO = 0 }
    IN [d EXCEPT !.kv = Write(@, d, first, rows),
                 !.ring = ring,
                 !.keys = IF closing = {} THEN @
                          ELSE Write(@, d, first + Max(closing) - COMPRESS_RATIO,
                                     <<[m \in 1 .. COMPRESS_RATIO |-> ring[m - 1]]>>),
                 !.recurrent = Last(rows),
                 !.published = rows]

(* A native prefill tile pools its blocks from its own rows, not the ring. *)
PrefillTile(d, first, tokens) ==
    LET rows == Contents(d, tokens)
    IN [d EXCEPT !.kv = Write(@, d, first, rows),
                 !.keys = [c \in Cells |->
                     IF \E b \in 0 .. Len(tokens) \div COMPRESS_RATIO - 1 :
                           Cell(d, first + b * COMPRESS_RATIO) = c
                     THEN LET b == CHOOSE b \in 0 .. Len(tokens) \div COMPRESS_RATIO - 1 :
                                      Cell(d, first + b * COMPRESS_RATIO) = c
                          IN SubSeq(rows, b * COMPRESS_RATIO + 1, (b + 1) * COMPRESS_RATIO)
                     ELSE @[c]],
                 !.recurrent = Last(rows),
                 !.published = rows]

(* Rows of the draft's mirror: the stream row before a token, the token.   *)
DraftRows(d, first, streams, tokens) ==
    [d EXCEPT !.mirror = Write(@, d, first,
        [i \in DOMAIN tokens |-> [stream |-> streams[i], token |-> tokens[i]]])]

CarryTargetRow(d, row) == [d EXCEPT !.carry = d.published[row]]

(* prime_pair: native tiles, then single rows; each advances the target,   *)
(* then the mirror one stream row behind, then the carry.                  *)
Chunks(prompt) ==
    LET tiles == Len(prompt) \div Tile
        tail == Len(prompt) % Tile
    IN [i \in 1 .. tiles |-> [first |-> (i - 1) * Tile,
                              tokens |-> SubSeq(prompt, (i - 1) * Tile + 1, i * Tile)]]
       \o [i \in 1 .. tail |-> [first |-> tiles * Tile + i - 1,
                                tokens |-> <<prompt[tiles * Tile + i]>>]]

PrimeChunk(d, chunk) ==
    LET rows == Len(chunk.tokens)
        target == IF rows = Tile THEN PrefillTile(d, chunk.first, chunk.tokens)
                                 ELSE TargetSpan(d, chunk.first, chunk.tokens)
        streams == <<d.carry>> \o SubSeq(target.published, 1, rows - 1)
    IN CarryTargetRow(DraftRows(target, chunk.first, streams, chunk.tokens), rows)

Prime(d, chunks) ==
    LET primed[n \in 0 .. Len(chunks)] ==
            IF n = 0 THEN d ELSE PrimeChunk(primed[n - 1], chunks[n])
    IN  primed[Len(chunks)]

-----------------------------------------------------------------------------
Idle ==
    /\ pc = "idle" /\ request = None /\ generated = << >> /\ served = 0
    /\ round = None /\ saved = None

Init ==
    /\ Idle
    /\ pool = [free |-> Reverse([i \in 1 .. FundedPages |-> i]), pages |-> << >>,
               tokens |-> 0, active |-> FALSE, epoch |-> 0]
    /\ device = [table |-> << >>, kv |-> Unwritten, keys |-> Unwritten,
                 mirror |-> [c \in Cells |-> [stream |-> <<Garbage>>, token |-> None]],
                 ring |-> [m \in Members |-> << >>], recurrent |-> << >>,
                 carry |-> << >>, published |-> << >>]

(* release_slot after a request: pages and carries, then the block table.  *)
Released ==
    /\ pc' = "idle" /\ request' = None /\ generated' = << >> /\ served' = 0
    /\ round' = None /\ saved' = None
    /\ pool' = Recycle(pool)

(* start recycles the slot, clears the carry of the draft and reserves the *)
(* request's positions and the draft window before it primes.              *)
Opened(r) == Reserve(Recycle(pool), Reserved(r))
Blank(r) == [Reset(device) EXCEPT !.carry = << >>, !.table = Opened(r).pages]

Admissible(r) ==
    /\ pc = "idle" /\ pool.epoch < MaxEpoch
    /\ Required(r) <= Capacity /\ CanReserve(Recycle(pool), Reserved(r))

Admit(r) ==
    /\ Admissible(r)
    /\ pool' = Commit(Opened(r), Len(r.prompt))
    /\ device' = Prime(Blank(r), Chunks(r.prompt))
    /\ request' = r /\ pc' = "primed"
    /\ UNCHANGED <<generated, served, round, saved>>

(* The prompt fails between two chunks. admit releases the slot and fails  *)
(* the request; the release may fail too, after the pool recycled its      *)
(* pages and before the carries are cleared and the table is flushed.      *)
AdmitFails(r) ==
    /\ Admissible(r)
    /\ \E n \in 0 .. Len(Chunks(r.prompt)) - 1 :
          LET d == Prime(Blank(r), SubSeq(Chunks(r.prompt), 1, n))
          IN device' \in {[Reset(d) EXCEPT !.table = << >>], d}
    /\ pool' = Recycle(Opened(r))
    /\ UNCHANGED <<pc, request, generated, served, round, saved>>

(* A step that hands out one output; the last one releases the slot.       *)
HandOut(tokens, count, d) ==
    IF count = Len(tokens) /\ (Last(tokens) = Stop \/ Len(tokens) = request.budget)
    THEN Released /\ device' = [Reset(d) EXCEPT !.table = << >>]
    ELSE /\ generated' = tokens /\ served' = count /\ device' = d
         /\ pc' = "ready" /\ round' = None /\ saved' = None
         /\ UNCHANGED <<request, pool>>

(* A check of the engine fails: the step errs and the worker ends.         *)
Fails ==
    /\ pc' = "failed"
    /\ UNCHANGED <<request, generated, served, round, pool, saved, device>>

StartAnchor ==
    /\ pc = "primed"
    /\ \E t \in Token : HandOut(<<t>>, 1, device)

TakeQueued ==
    /\ pc = "ready" /\ ~Drained
    /\ HandOut(generated, served + 1, device)

(* The budget leaves one output: a span of one row and no draft.           *)
FinalTargetStep ==
    /\ pc = "ready" /\ Drained /\ ~Finished /\ Remaining <= 1
    /\ IF AdmitRound(Position, 1)
       THEN \E t \in Token :
              HandOut(Append(generated, t), served + 1,
                      TargetSpan(device, Position, <<Last(generated)>>))
       ELSE Fails

(* A round takes a restore point, then drafts from the anchor; each        *)
(* further draft follows the draft's own stream.                           *)
Draft ==
    /\ pc = "ready" /\ Drained /\ ~Finished /\ Remaining > 1
    /\ LET extent == Min({DRAFT_WINDOW, Remaining - 1})
       IN IF Position + extent > Mapped(pool) THEN Fails ELSE
          \E drafts \in [1 .. extent -> Token] :
             LET inputs == <<Last(generated)>> \o drafts
                 streams == <<device.carry>> \o [i \in 1 .. extent |-> <<Garbage>>]
             IN /\ saved' = [epoch |-> pool.epoch, tokens |-> pool.tokens,
                             recurrent |-> device.recurrent]
                /\ round' = [position |-> Position, inputs |-> inputs, accepted |-> 0]
                /\ device' = DraftRows(device, Position, streams,
                                       SubSeq(inputs, 1, extent))
                /\ pc' = "verify"
                /\ UNCHANGED <<request, generated, served, pool>>

(* The target runs over the anchor and the drafts, or, after a restore,    *)
(* over the accepted prefix again.                                         *)
Verify ==
    /\ pc \in {"verify", "replay"}
    /\ LET inputs == IF pc = "verify" THEN round.inputs
                     ELSE SubSeq(round.inputs, 1, round.accepted + 1)
       IN IF ~AdmitRound(round.position, Len(inputs)) THEN Fails ELSE
          /\ device' = TargetSpan(device, round.position, inputs)
          /\ pool' = Commit(pool, round.position + Len(inputs))
          /\ pc' = IF pc = "verify" THEN "decide" ELSE "realign"
          /\ UNCHANGED <<request, generated, served, round, saved>>

(* Drafts are accepted up to the first that differs from the target's      *)
(* choice, which replaces it, or that stops; if all are, one more follows. *)
Decide ==
    /\ pc = "decide"
    /\ \E k \in 0 .. Len(round.inputs) - 1 :
          LET accepted == SubSeq(round.inputs, 2, k + 1)
              stops == k > 0 /\ Last(accepted) = Stop
              all == k + 1 = Len(round.inputs)
          IN /\ \A i \in 1 .. k - 1 : accepted[i] # Stop
             /\ \/ stops /\ generated' = generated \o accepted
                \/ /\ ~stops
                   /\ \E t \in IF all THEN Token ELSE Token \ {round.inputs[k + 2]} :
                         generated' = generated \o Append(accepted, t)
             /\ round' = [round EXCEPT !.accepted = k]
             /\ pc' = IF all THEN "realign" ELSE "restore"
    /\ UNCHANGED <<request, served, pool, saved, device>>

(* restore_slot, then the full mapping again for the next round.           *)
Restored(p) ==
    LET back == TruncateMapping(p, saved.tokens)
    IN Reserve(Reserve(back, saved.tokens), Reserved(request))

BugRewound_LengthOnly(d) == d.recurrent
Rewound(d) == saved.recurrent

Restore ==
    /\ pc = "restore"
    /\ IF pool.epoch # saved.epoch \/ pool.tokens < saved.tokens THEN Fails ELSE
       /\ pool' = Restored(pool)
       /\ device' = [device EXCEPT !.recurrent = Rewound(device),
                                   !.table = Restored(pool).pages]
       /\ pc' = "replay"
       /\ UNCHANGED <<request, generated, served, round, saved>>

(* The accepted drafts enter the mirror with the target's own stream rows; *)
(* the last row carries into the next round. The first output goes out in  *)
(* the same call.                                                          *)
Realigned ==
    LET k == round.accepted
    IN CarryTargetRow(DraftRows(device, round.position + 1, device.published,
                                SubSeq(round.inputs, 2, k + 1)), k + 1)

Realign ==
    /\ pc = "realign"
    /\ IF round.position + round.accepted + 1 > Mapped(pool) THEN Fails
       ELSE HandOut(generated, served + 1, Realigned)

Cancel ==
    /\ pc \in {"primed", "ready"}
    /\ Released /\ device' = [Reset(device) EXCEPT !.table = << >>]

Next ==
    \/ \E r \in Requests : Admit(r) \/ AdmitFails(r)
    \/ StartAnchor \/ TakeQueued \/ FinalTargetStep \/ Draft \/ Verify
    \/ Decide \/ Restore \/ Realign \/ Cancel

Spec == Init /\ [][Next]_vars

-----------------------------------------------------------------------------
Contexts == Seq(Token \cup {Garbage} \cup UNION { Range(r.prompt) : r \in Requests })

(* Every variable has its type, and the free list and the slot's mapping   *)
(* hold every funded page exactly once (slot_lifecycle.rs).                *)
TypeOK ==
    /\ pc \in {"idle", "primed", "ready", "verify", "decide", "restore", "replay",
               "realign", "failed"}
    /\ request \in Requests \cup {None}
    /\ (request = None) <=> (pc = "idle")
    /\ generated \in Seq(Token) /\ served \in 0 .. Len(generated)
    /\ pool.tokens \in 0 .. Mapped(pool) /\ pool.active \in BOOLEAN
    /\ pool.epoch \in 0 .. MaxEpoch + 1
    /\ Len(pool.free) + Len(pool.pages) = FundedPages
    /\ ToSet(pool.free) \cup ToSet(pool.pages) = Pages
    /\ device.recurrent \in Contexts /\ device.carry \in Contexts

Steady == pc \in {"primed", "ready"} /\ ~Finished
Processed == SubSeq(request.prompt \o generated, 1, Position)
Prefix(n) == SubSeq(request.prompt \o generated, 1, n)

(* Between two rounds the target is where plain decoding of the committed  *)
(* tokens would be, whatever was drafted, rejected, restored or left by    *)
(* earlier requests: recurrent state, carry, length and every K/V row      *)
(* through the block table; and no check of the engine ever fails          *)
(* (run_speculative_round, restore_slot, admit_round).                     *)
TargetIsExact ==
    /\ pc # "failed"
    /\ Steady =>
         /\ pool.active /\ pool.tokens = Position
         /\ device.recurrent = Processed /\ device.carry = Processed
         /\ \A p \in 0 .. Position - 1 : device.kv[Cell(device, p)] = Prefix(p + 1)

(* Between two rounds every mirror row of the draft below the append       *)
(* position holds the committed token there and the target's stream row    *)
(* before it (prime_pair, run_speculative_round). The row of a round's     *)
(* anchor is drafted before a restore releases its page and is not written *)
(* again after.                                                            *)
DraftIsAligned ==
    Steady => \A p \in 0 .. Position - 1 :
                 device.mirror[Cell(device, p)]
                   = [stream |-> Prefix(p), token |-> Prefix(p + 1)[p + 1]]

(* "Every block the count plane names must already hold all COMPRESS_RATIO *)
(* raw keys" (qsa_indexer.rs): between two rounds each closed block's key  *)
(* was pooled from the rows of its own four positions.                     *)
BlockKeysAreTrue ==
    Steady => \A b \in 0 .. Position \div COMPRESS_RATIO - 1 :
                 device.keys[Cell(device, b * COMPRESS_RATIO)]
                   = [m \in 1 .. COMPRESS_RATIO |-> Prefix(b * COMPRESS_RATIO + m)]
=============================================================================
