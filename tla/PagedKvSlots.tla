---------------------------- MODULE PagedKvSlots ----------------------------
(***************************************************************************)
(* The host owner of the paged KV cache: one shared inventory of physical  *)
(* pages and a stable page-table row for each of MAX_BATCH slots           *)
(* (crates/tuisko-engine/src/paged_kv_slots.rs, PagedKvSlotPool).          *)
(*                                                                         *)
(* The pool is a sequential object: each action is one call, with the      *)
(* call's complete effect, its refusals and its two internal-error exits.  *)
(***************************************************************************)
EXTENDS Integers, FiniteSets

CONSTANTS
    MAX_BATCH,            \* number of stable rows
    PhysicalPages,        \* physical_pages
    TableStride,          \* table_stride: entries of one row
    MaxContextTokens,     \* max_context_tokens
    ATTENTION_PAGE_SIZE,  \* cached positions in one page
    FREE_PAGE_OWNER,      \* owner tag of a page nobody owns
    UNUSED_PAGE           \* table entry that names no page

Slots == 0..(MAX_BATCH - 1)
Pages == 0..(PhysicalPages - 1)
Entries == 0..(TableStride - 1)
SlotStates == {"Vacant", "Active", "Retained"}

(* new_with_limits refuses every other pool; the two sentinels lie outside *)
(* the values they are stored beside (u8::MAX and u32::MAX in the code).   *)
ASSUME PoolAssumption ==
    /\ MAX_BATCH \in Nat \ {0}
    /\ ATTENTION_PAGE_SIZE \in Nat \ {0}
    /\ TableStride \in Nat \ {0}
    /\ PhysicalPages \in 0..TableStride
    /\ MaxContextTokens \in 1..(TableStride * ATTENTION_PAGE_SIZE)
    /\ FREE_PAGE_OWNER \in Nat /\ FREE_PAGE_OWNER >= MAX_BATCH
    /\ UNUSED_PAGE \in Nat /\ UNUSED_PAGE >= TableStride

VARIABLES
    page_tables,      \* page_tables[s][e]: physical page of entry e of row s
    page_owners,      \* page_owners[p]: slot that owns page p
    states,           \* lifecycle of each row
    token_counts,     \* positions whose KV state the row owns
    page_counts,      \* leading entries of the row in use
    free_pages,       \* the pool's count of unowned pages
    next_free_hint,   \* where the search for a free page starts
    answer            \* result of the last call (observed by the caller)

pool == <<page_tables, page_owners, states, token_counts, page_counts,
          free_pages, next_free_hint>>
vars == <<page_tables, page_owners, states, token_counts, page_counts,
          free_pages, next_free_hint, answer>>

(* Refusals leave the pool alone; "accounting" and "ownership" are the     *)
(* errors the code raises when its own tables disagree.                    *)
Refusals == {"lifecycle", "range", "pages"}
InternalErrors == {"accounting", "ownership"}

BugDivCeil_Floor(n) == n \div ATTENTION_PAGE_SIZE
DivCeil(n) == (n + ATTENTION_PAGE_SIZE - 1) \div ATTENTION_PAGE_SIZE
Unowned == { p \in Pages : page_owners[p] = FREE_PAGE_OWNER }
Owns(s, e) == page_tables[s][e] \in Pages /\ page_owners[page_tables[s][e]] = s

-----------------------------------------------------------------------------
Init ==
    /\ page_tables = [s \in Slots |-> [e \in Entries |-> UNUSED_PAGE]]
    /\ page_owners = [p \in Pages |-> FREE_PAGE_OWNER]
    /\ states = [s \in Slots |-> "Vacant"]
    /\ token_counts = [s \in Slots |-> 0]
    /\ page_counts = [s \in Slots |-> 0]
    /\ free_pages = PhysicalPages
    /\ next_free_hint = 0
    /\ answer = "none"

(* The call returns without touching the pool.                             *)
Answer(result) == answer' = result /\ UNCHANGED pool

activate(s) ==
    /\ states[s] \in {"Vacant", "Retained"}
    /\ states' = [states EXCEPT ![s] = "Active"]
    /\ answer' = "ok"
    /\ UNCHANGED <<page_tables, page_owners, token_counts, page_counts,
                   free_pages, next_free_hint>>

retain(s) ==
    /\ states[s] = "Active"
    /\ states' = [states EXCEPT ![s] = "Retained"]
    /\ answer' = "ok"
    /\ UNCHANGED <<page_tables, page_owners, token_counts, page_counts,
                   free_pages, next_free_hint>>

LifecycleRefused(s) ==
    \/ states[s] = "Active" /\ Answer("lifecycle")    \* activate
    \/ states[s] # "Active" /\ Answer("lifecycle")    \* retain
-----------------------------------------------------------------------------
(* reserve_tokens                                                          *)

(* The unowned pages the upward scan from next_free_hint can still meet.   *)
BugReachable_IgnoresOwner == { p \in Pages : p >= next_free_hint }
Reachable == { p \in Unowned : p >= next_free_hint }

(* pick is what the scan assigns: the lowest reachable pages, in order.    *)
FirstFit(pick) ==
    /\ \A d, e \in DOMAIN pick : d < e => pick[d] < pick[e]
    /\ \A p \in Reachable, e \in DOMAIN pick :
          p < pick[e] => \E d \in DOMAIN pick : pick[d] = p

BugReserveInRange_AnyLength(s, n) == token_counts[s] <= n
ReserveInRange(s, n) == token_counts[s] <= n /\ n <= MaxContextTokens
Additional(s, n) == DivCeil(n) - page_counts[s]

(* Every requested page was found.                                         *)
BugAssign_FromEntryZero(s, n, pick) ==
    /\ page_owners' = [p \in Pages |->
          IF \E e \in DOMAIN pick : pick[e] = p THEN s ELSE page_owners[p]]
    /\ page_tables' = [page_tables EXCEPT ![s] = [e \in Entries |->
          IF e + page_counts[s] \in DOMAIN pick THEN pick[e + page_counts[s]]
          ELSE @[e]]]
    /\ next_free_hint' = IF DOMAIN pick = {} THEN next_free_hint
                         ELSE pick[DivCeil(n) - 1] + 1
    /\ free_pages' = free_pages - Additional(s, n)
    /\ page_counts' = [page_counts EXCEPT ![s] = DivCeil(n)]
    /\ token_counts' = [token_counts EXCEPT ![s] = n]
    /\ answer' = "ok"
    /\ UNCHANGED states

Assign(s, n, pick) ==
    /\ page_owners' = [p \in Pages |->
          IF \E e \in DOMAIN pick : pick[e] = p THEN s ELSE page_owners[p]]
    /\ page_tables' = [page_tables EXCEPT ![s] =
          [e \in Entries |-> IF e \in DOMAIN pick THEN pick[e] ELSE @[e]]]
    /\ next_free_hint' = IF DOMAIN pick = {} THEN next_free_hint
                         ELSE pick[DivCeil(n) - 1] + 1
    /\ free_pages' = free_pages - Additional(s, n)
    /\ page_counts' = [page_counts EXCEPT ![s] = DivCeil(n)]
    /\ token_counts' = [token_counts EXCEPT ![s] = n]
    /\ answer' = "ok"
    /\ UNCHANGED states

(* The scan ran off the inventory: release_partial_pages frees what it had *)
(* assigned and blanks those entries, and the call reports the accounting. *)
ReleasePartialPages(s) ==
    /\ page_tables' = [page_tables EXCEPT ![s] = [e \in Entries |->
          IF e \in page_counts[s]..(page_counts[s] + Cardinality(Reachable) - 1)
          THEN UNUSED_PAGE ELSE @[e]]]
    /\ answer' = "accounting"
    /\ UNCHANGED <<page_owners, states, token_counts, page_counts, free_pages,
                   next_free_hint>>

reserve_tokens(s, n) ==
    /\ states[s] = "Active"
    /\ ReserveInRange(s, n)
    /\ Additional(s, n) <= free_pages
    /\ IF Additional(s, n) > Cardinality(Reachable)
       THEN ReleasePartialPages(s)
       ELSE \E pick \in [page_counts[s]..(DivCeil(n) - 1) -> Reachable] :
               FirstFit(pick) /\ Assign(s, n, pick)

ReserveRefused(s, n) ==
    \/ states[s] # "Active" /\ Answer("lifecycle")
    \/ states[s] = "Active" /\ ~ReserveInRange(s, n) /\ Answer("range")
    \/ /\ states[s] = "Active" /\ ReserveInRange(s, n)
       /\ Additional(s, n) > free_pages
       /\ Answer("pages")
-----------------------------------------------------------------------------
(* truncate_tokens and recycle                                             *)

(* The entry at which the release loop gives up: one whose page is not     *)
(* this slot's, or was released by an earlier entry of the same loop.      *)
Inconsistent(s, n) ==
    { e \in DivCeil(n)..(page_counts[s] - 1) :
        \/ ~Owns(s, e)
        \/ \E d \in DivCeil(n)..(e - 1) : page_tables[s][d] = page_tables[s][e] }

(* Entries the loop releases before it ends or gives up.                   *)
BugReleased_SkipsFirst(s, n) ==
    { e \in (DivCeil(n) + 1)..(page_counts[s] - 1) :
        \A bad \in Inconsistent(s, n) : e < bad }
Released(s, n) ==
    { e \in DivCeil(n)..(page_counts[s] - 1) :
        \A bad \in Inconsistent(s, n) : e < bad }

(* Lowest page that may be unowned once the pages in gone are.             *)
BugHintAfter_Kept(gone) == next_free_hint
HintAfter(gone) ==
    CHOOSE h \in gone \cup {next_free_hint} :
        \A p \in gone \cup {next_free_hint} : h <= p

ReleaseTail(s, n, after) ==
    LET gone == { page_tables[s][e] : e \in Released(s, n) }
        sound == Inconsistent(s, n) = {}
    IN /\ page_owners' = [p \in Pages |->
             IF p \in gone THEN FREE_PAGE_OWNER ELSE page_owners[p]]
       /\ page_tables' = [page_tables EXCEPT ![s] = [e \in Entries |->
             IF e \in Released(s, n) THEN UNUSED_PAGE ELSE @[e]]]
       /\ next_free_hint' = HintAfter(gone)
       /\ free_pages' = IF sound THEN free_pages + (page_counts[s] - DivCeil(n))
                        ELSE free_pages
       /\ page_counts' = IF sound THEN [page_counts EXCEPT ![s] = DivCeil(n)]
                         ELSE page_counts
       /\ token_counts' = IF sound THEN [token_counts EXCEPT ![s] = n]
                          ELSE token_counts
       /\ states' = IF sound THEN [states EXCEPT ![s] = after] ELSE states
       /\ answer' = IF sound THEN "ok" ELSE "ownership"

truncate_tokens(s, n) ==
    /\ states[s] # "Vacant"
    /\ n <= token_counts[s]
    /\ ReleaseTail(s, n, states[s])

TruncateRefused(s, n) ==
    \/ states[s] = "Vacant" /\ Answer("lifecycle")
    \/ states[s] # "Vacant" /\ n > token_counts[s] /\ Answer("range")

(* recycle of a vacant row returns Ok(0) and changes nothing.              *)
recycle(s) ==
    \/ states[s] = "Vacant" /\ Answer("ok")
    \/ states[s] # "Vacant" /\ ReleaseTail(s, 0, "Vacant")
-----------------------------------------------------------------------------
(* route: the physical place of one owned position, or the refusal.        *)
Assigned(s, position) ==
    page_tables[s][position \div ATTENTION_PAGE_SIZE] \in Pages
Route(s, position) == <<page_tables[s][position \div ATTENTION_PAGE_SIZE],
                        position % ATTENTION_PAGE_SIZE>>

Next ==
    \E s \in Slots :
        \/ activate(s)
        \/ retain(s)
        \/ LifecycleRefused(s)
        \/ recycle(s)
        \/ \E n \in 0..(MaxContextTokens + 1) :
              \/ reserve_tokens(s, n)
              \/ ReserveRefused(s, n)
              \/ truncate_tokens(s, n)
              \/ TruncateRefused(s, n)

Spec == Init /\ [][Next]_vars
-----------------------------------------------------------------------------
(* The type invariant.                                                     *)
TypeOK ==
    /\ page_tables \in [Slots -> [Entries -> Pages \cup {UNUSED_PAGE}]]
    /\ page_owners \in [Pages -> Slots \cup {FREE_PAGE_OWNER}]
    /\ states \in [Slots -> SlotStates]
    /\ token_counts \in [Slots -> 0..MaxContextTokens]
    /\ page_counts \in [Slots -> 0..TableStride]
    /\ free_pages \in 0..PhysicalPages
    /\ next_free_hint \in 0..PhysicalPages
    /\ answer \in {"none", "ok"} \cup Refusals \cup InternalErrors

(* The leading entries of a row are distinct pages the row owns; the rest  *)
(* of the row names no page.                                               *)
RowsOwnTheirPages ==
    \A s \in Slots :
        /\ \A e \in Entries :
              IF e < page_counts[s] THEN Owns(s, e)
              ELSE page_tables[s][e] = UNUSED_PAGE
        /\ \A d, e \in 0..(page_counts[s] - 1) :
              page_tables[s][d] = page_tables[s][e] => d = e

(* An owned page is in its owner's row: no page leaks.                     *)
NoPageLeaks ==
    \A p \in Pages : page_owners[p] # FREE_PAGE_OWNER =>
        \E e \in 0..(page_counts[page_owners[p]] - 1) :
            page_tables[page_owners[p]][e] = p

(* The counts agree with the tables, and nothing below the hint is unowned.*)
CountsAgree ==
    /\ free_pages = Cardinality(Unowned)
    /\ \A p \in Pages : p < next_free_hint => page_owners[p] # FREE_PAGE_OWNER
    /\ \A s \in Slots :
          /\ page_counts[s] = DivCeil(token_counts[s])
          /\ states[s] = "Vacant" => token_counts[s] = 0

(* The inductive invariant of the pool: tables, owner tags, counters and   *)
(* the search hint describe one and the same partition of the inventory.   *)
OwnershipInv ==
    RowsOwnTheirPages /\ NoPageLeaks /\ CountsAgree

(* Two cached positions, of one row or of two, never share a physical      *)
(* place, and every position a row has reserved has one: `route` can never *)
(* answer "is not assigned" for it (paged_kv_slots.rs:344).                *)
RouteInjective ==
    \A s, t \in Slots :
        \A a \in 0..(token_counts[s] - 1), b \in 0..(token_counts[t] - 1) :
            /\ Assigned(s, a)
            /\ Route(s, a) = Route(t, b) => s = t /\ a = b

(* The two internal errors are unreachable: the free count never promises  *)
(* a page the hinted scan cannot find, and a release never meets a page    *)
(* another row owns (paged_kv_slots.rs:253 and :299).                      *)
NoInternalError == answer \notin InternalErrors

(* No call moves a cached page: an entry a row keeps across a call names   *)
(* the same page after it, whichever row the call was about.               *)
PrefixStable ==
    [][\A s \in Slots, e \in Entries :
          e < page_counts[s] /\ e < page_counts'[s]
              => page_tables'[s][e] = page_tables[s][e]]_vars

(* The pool implements the ownership contract of PagedKvPages.             *)
Abstract == INSTANCE PagedKvPages WITH
    PageSize <- ATTENTION_PAGE_SIZE,
    MaxTokens <- MaxContextTokens,
    owned <- [s \in Slots |->
                 [i \in 1..page_counts[s] |-> page_tables[s][i - 1]]],
    status <- states,
    tokens <- token_counts
ImplementsPages == Abstract!Spec
=============================================================================
