------------------------------- MODULE Answers -------------------------------
(***************************************************************************)
(* Answers of both kinds of upstream, side by side: streams of an OpenAI    *)
(* chat provider, and of an OpenAI Responses provider whose events are      *)
(* translated to Anthropic's and on to a Responses client.                  *)
(***************************************************************************)
EXTENDS ChatStream, ResponsesTranslation

AnswersSpec == ChatSpec /\ TranslationSpec

-----------------------------------------------------------------------------
(* Correctness *)

\* Blocks, calls and reasoning of both kinds of upstream (see the modules).
AnswersAreSound == StreamIsSound /\ TranslationIsSound
=============================================================================
