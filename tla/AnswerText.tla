------------------------------ MODULE AnswerText ------------------------------
(***************************************************************************)
(* The text of an answer on its way to the client, side by side in its two  *)
(* guises: words with think tags in them, and the markup of tool calls that *)
(* a model leaks into the fields of a stream.  Either is cut anywhere.      *)
(***************************************************************************)
EXTENDS TextParsers, NativeToolStream

TextSpec == ParserSpec /\ NativeSpec

-----------------------------------------------------------------------------
(* Correctness *)

\* Wherever a text or the markup of a call is cut (see the modules).
CutsDoNotMatter == CutsDoNotMoveThoughts /\ MarkupIsUnderstood
=============================================================================
