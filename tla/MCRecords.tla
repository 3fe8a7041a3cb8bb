------------------------------ MODULE MCRecords ------------------------------
(* Small instances of what carries conversations out of the process: the      *)
(* session file, the transcript a chat is shown, the messages of the platform, *)
(* and the window that limits how many are sent.  Two edits are handed to the  *)
(* outbox, the caller of the third waits for the result.  A behaviour is about *)
(* one of the four.                                                            *)
EXTENDS SessionPersistence, Transcript, MessagingDelivery, RateWindow

CONSTANTS a, b, c, note

VARIABLE subject

all == <<vars, transcriptVars, deliveryVars, windowVars, subject>>

OneMessage == [r \in Requests |-> note]

Routes == [r \in Requests |-> IF r = c THEN "await" ELSE "task"]

\* Two Tasks of which one id starts with the other.
MCAlike == {<<"t1", "t10">>, <<"t10", "t1">>}

\* Room for all, for the newest, for a part of it, for the status alone, and for less.
MCLimits ==
  {[limit |-> 12, status |-> 7], [limit |-> 6, status |-> 3], [limit |-> 9, status |-> 0],
   [limit |-> 3, status |-> 7]}

MCInit ==
  /\ subject \in {"file", "transcript", "messages", "window"}
  /\ Init /\ TranscriptInit /\ DeliveryInit /\ WindowInit

MCNext ==
  \/ subject = "file" /\ Next
     /\ UNCHANGED <<transcriptVars, deliveryVars, windowVars, subject>>
  \/ subject = "transcript" /\ TranscriptNext
     /\ UNCHANGED <<vars, deliveryVars, windowVars, subject>>
  \/ subject = "messages" /\ DeliveryNext
     /\ UNCHANGED <<vars, transcriptVars, windowVars, subject>>
  \/ subject = "window" /\ WindowNext
     /\ UNCHANGED <<vars, transcriptVars, deliveryVars, subject>>

MCSpec == MCInit /\ [][MCNext]_all /\ Fairness /\ DeliveryFairness
=============================================================================
