---------------------------- MODULE PagedKvPages ----------------------------
(***************************************************************************)
(* What the paged KV inventory promises to its callers, without tables,    *)
(* owner tags, search hints or counters: every slot owns a sequence of     *)
(* pages, no page is owned twice, an extension appends free pages behind   *)
(* the pages the slot already has, a truncation drops trailing pages, and  *)
(* a reservation is refused only for one of the documented reasons.        *)
(*                                                                         *)
(* PagedKvSlots (crates/tuisko-engine/src/paged_kv_slots.rs) implements    *)
(* this module.                                                            *)
(***************************************************************************)
EXTENDS Naturals, Sequences

CONSTANTS Slots,      \* the stable rows
          Pages,      \* the physical pages they share
          PageSize,   \* cached positions in one page
          MaxTokens   \* longest context of one row

VARIABLES owned,      \* owned[s]: the pages of slot s, in logical order
          status,     \* status[s]: lifecycle of slot s
          tokens,     \* tokens[s]: processed positions of slot s
          answer      \* what the last call returned

vars == <<owned, status, tokens, answer>>

PagesFor(n) == (n + PageSize - 1) \div PageSize
PagesOf(s) == { owned[s][i] : i \in 1..Len(owned[s]) }
Free == Pages \ UNION { PagesOf(s) : s \in Slots }

Init ==
    /\ owned = [s \in Slots |-> << >>]
    /\ status = [s \in Slots |-> "Vacant"]
    /\ tokens = [s \in Slots |-> 0]
    /\ answer = "none"

Activate(s) ==
    /\ status[s] # "Active"
    /\ status' = [status EXCEPT ![s] = "Active"]
    /\ answer' = "ok"
    /\ UNCHANGED <<owned, tokens>>

Retain(s) ==
    /\ status[s] = "Active"
    /\ status' = [status EXCEPT ![s] = "Retained"]
    /\ answer' = "ok"
    /\ UNCHANGED <<owned, tokens>>

(* The ways to give slot s the pages it lacks for n positions: distinct    *)
(* free pages in some order.                                               *)
Grants(s, n) ==
    { more \in [1..(PagesFor(n) - Len(owned[s])) -> Free] :
        \A i, j \in DOMAIN more : i # j => more[i] # more[j] }

(* Appends a grant; the pages already owned stay put.                      *)
Extend(s, n) ==
    /\ status[s] = "Active"
    /\ n \in tokens[s]..MaxTokens
    /\ \E more \in Grants(s, n) : owned' = [owned EXCEPT ![s] = @ \o more]
    /\ tokens' = [tokens EXCEPT ![s] = n]
    /\ answer' = "ok"
    /\ UNCHANGED status

(* Keeps the first n positions and gives every page behind them back.      *)
Shorten(s, n) ==
    /\ status[s] # "Vacant"
    /\ n \in 0..tokens[s]
    /\ owned' = [owned EXCEPT ![s] = SubSeq(@, 1, PagesFor(n))]
    /\ tokens' = [tokens EXCEPT ![s] = n]
    /\ answer' = "ok"
    /\ UNCHANGED status

Release(s) ==
    /\ owned' = [owned EXCEPT ![s] = << >>]
    /\ tokens' = [tokens EXCEPT ![s] = 0]
    /\ status' = [status EXCEPT ![s] = "Vacant"]
    /\ answer' = "ok"

(* A refused call changes nothing, and a reservation of an active slot is  *)
(* refused for lack of pages only when pages really are lacking.           *)
Refuse(s, n) ==
    /\ \/ /\ answer' = "lifecycle"
       \/ /\ answer' = "range"
          /\ n # tokens[s]
       \/ /\ answer' = "pages"
          /\ status[s] = "Active"
          /\ Grants(s, n) = {}
    /\ UNCHANGED <<owned, status, tokens>>

Next ==
    \E s \in Slots :
        \/ Activate(s) \/ Retain(s) \/ Release(s)
        \/ \E n \in 0..(MaxTokens + 1) :
              Extend(s, n) \/ Shorten(s, n) \/ Refuse(s, n)

Spec == Init /\ [][Next]_vars
=============================================================================
