----------------------------- MODULE MCLifetimes -----------------------------
(* Small instances of the two managers that own what others use: provider     *)
(* runtimes and CLI sessions.  Turn a starts a tree in which b and then c      *)
(* answer it, d a tree of its own.  A behaviour is about one of the managers.  *)
EXTENDS ProviderGenerations, ManagedSessions

CONSTANTS q1, a1, a2, c1, c2, a, b, c, d

VARIABLE subject

all == <<vars, sessionsVars, subject>>

Answers == [t \in Turns |-> IF t \in {b, c} THEN a ELSE NoTurn]

InOrder == [t \in Turns |-> IF t = b THEN {a} ELSE IF t = c THEN {a, b} ELSE {}]

MCInit == subject \in {"runtimes", "sessions"} /\ Init /\ SessionsInit

MCNext ==
  \/ subject = "runtimes" /\ Next /\ UNCHANGED <<sessionsVars, subject>>
  \/ subject = "sessions" /\ SessionsNext /\ UNCHANGED <<vars, subject>>

MCSpec == MCInit /\ [][MCNext]_all /\ Fairness
=============================================================================
