--------------------------- MODULE MCMtpScheduler ---------------------------
(***************************************************************************)
(* Instances of MtpScheduler for TLC. u and v are user messages with their *)
(* stop tokens, h the header of an answer, a its text, z the stop token.   *)
(***************************************************************************)
EXTENDS MtpScheduler

Chat(prompt, boundary, budget) ==
    [prompt |-> prompt, boundary |-> boundary, budget |-> budget]

(* An opening, the chat that goes on from one answer to it, another        *)
(* opening, one with nothing to generate and one beyond the longest        *)
(* context.                                                                *)
Conversations ==
    { Chat(<<"u", "h">>, 1, 4), Chat(<<"u", "h", "a", "z", "v", "h">>, 5, 2),
      Chat(<<"v", "h">>, 1, 3), Chat(<<"v", "h">>, 1, 0), Chat(<<"v", "h">>, 1, 7) }

(* One chat, sent again as it was.                                         *)
OneAnswer == { Chat(<<"u", "h">>, 1, 1) }
=============================================================================
