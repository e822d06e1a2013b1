--------------------------- MODULE MCPagedKvSlots ---------------------------
(***************************************************************************)
(* PagedKvSlots on a small pool: three rows of three entries share three   *)
(* pages of two positions. The longest context (5 of the table's 6         *)
(* positions) ends in a half-used page and one row can take every page;    *)
(* any two rows can exhaust the pool.                                      *)
(***************************************************************************)
EXTENDS PagedKvSlots
=============================================================================
