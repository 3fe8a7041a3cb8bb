------------------------ MODULE MCProviderAdmission ------------------------
(* Small instances of ProviderAdmission: who calls, how, and who is cancelled. *)
EXTENDS ProviderAdmission

CONSTANTS a, b, c

AllChat == [s \in Sessions |-> "chat"]
ChatAndPlain == [s \in Sessions |-> IF s = a THEN "chat" ELSE "plain"]
OneOfEach ==
  [s \in Sessions |-> IF s = a THEN "codex" ELSE IF s = b THEN "chat" ELSE "plain"]
=============================================================================
