------------------------- MODULE ServerSupervision --------------------------
(***************************************************************************)
(* The life of the server process: the supervisor thread that runs one     *)
(* server after another, the desktop shell and the Admin API that ask it   *)
(* to restart or stop, and the owners of one server instance, started and  *)
(* closed in order by the application runtime.                             *)
(*                                                                         *)
(* Owners are closed one by one and a failed step keeps everything after   *)
(* it open; a later close takes the work up where it stopped.              *)
(***************************************************************************)
EXTENDS Naturals, FiniteSets, Sequences

CONSTANTS Accounts,     \* connected accounts the server owns
          MaxRequests,  \* bound on restart requests
          MaxFailures   \* bound on close steps that fail

ASSUME SupervisionAssumption ==
  Accounts \cap {"ingress", "workflow", "cli", "delivery", "transcriber", "providers"} = {}

VARIABLES
  supervisor, \* [scheduled, running, stopping, generation]: under the supervisor's lock
  worker,     \* where the thread in run() is, and the generation it read
  exiting,    \* should_exit of the registered server; "none" when there is none
  owners,     \* owners of the newest server instance that are open
  ingress,    \* whether messaging may still bring work in
  trouble,    \* close steps that failed so far
  requests    \* restart requests so far

serverVars == <<supervisor, worker, exiting, owners, ingress, trouble, requests>>

-----------------------------------------------------------------------------
(* Owners, in the order they are closed.  The ingress is quiesced first.    *)

ProvidersEarly == <<"ingress", "workflow", "cli", "delivery", "providers", "transcriber", "accounts">>
Stages == <<"ingress", "workflow", "cli", "delivery", "transcriber", "providers", "accounts">>
Messaging == {"workflow", "cli", "delivery"}
Everything == {"transcriber", "providers"} \cup Accounts

\* Owners whose work may still need x.
Users(x) == CASE x = "cli" -> {"workflow"}
              [] x = "delivery" -> {"workflow", "cli"}
              [] x = "transcriber" -> Messaging
              [] x = "providers" -> Messaging \cup {"transcriber"}
              [] x \in Accounts -> Messaging \cup {"transcriber", "providers"}
              [] OTHER -> {}

Closed == owners = {} /\ ~ingress

ServerInit ==
  /\ supervisor = [scheduled |-> FALSE, running |-> FALSE, stopping |-> FALSE, generation |-> 0]
  /\ worker = [at |-> "none", read |-> 0]
  /\ exiting = "none"
  /\ owners = {}
  /\ ingress = FALSE
  /\ trouble = 0
  /\ requests = 0

At_(s) == worker.at = s
Next_(s) == worker' = [worker EXCEPT !.at = s]

-----------------------------------------------------------------------------
(* The desktop controller and the Admin API *)

\* DesktopController._start_server: no new thread while the old one is alive.
\* The terminal command calls run() itself, the same way.
StartThread ==
  /\ At_("none")
  /\ ~supervisor.stopping /\ ~supervisor.scheduled /\ ~supervisor.running
  /\ requests < MaxRequests
  /\ requests' = requests + 1
  /\ supervisor' = [supervisor EXCEPT !.scheduled = TRUE]
  /\ Next_("starting")
  /\ UNCHANGED <<exiting, owners, ingress, trouble>>

\* request_restart(), from the tray, from an Apply or from the Admin page: the
\* answer is True when a fresh run is scheduled or a run is on.
RequestRestart ==
  /\ requests < MaxRequests
  /\ requests' = requests + 1
  /\ IF ~supervisor.stopping /\ (supervisor.scheduled \/ supervisor.running)
     THEN /\ supervisor' = [supervisor EXCEPT !.generation = @ + 1]
          /\ exiting' = IF ~supervisor.scheduled /\ exiting # "none" THEN "yes" ELSE exiting
     ELSE UNCHANGED <<supervisor, exiting>>
  /\ UNCHANGED <<worker, owners, ingress, trouble>>

RequestStop ==
  /\ ~supervisor.stopping
  /\ supervisor' = [supervisor EXCEPT !.stopping = TRUE, !.scheduled = FALSE]
  /\ exiting' = IF exiting # "none" THEN "yes" ELSE exiting
  /\ UNCHANGED <<worker, owners, ingress, trouble, requests>>

-----------------------------------------------------------------------------
(* ServerSupervisor.run() and _run_once() *)

BeginRun ==
  /\ At_("starting")
  /\ supervisor' = [supervisor EXCEPT !.scheduled = FALSE, !.running = ~supervisor.stopping]
  /\ Next_(IF supervisor.stopping THEN "none" ELSE "loop")
  /\ UNCHANGED <<exiting, owners, ingress, trouble, requests>>

ReadGeneration ==
  /\ At_("loop")
  /\ worker' = IF supervisor.stopping THEN [worker EXCEPT !.at = "ending"]
               ELSE [at |-> "load", read |-> supervisor.generation]
  /\ UNCHANGED <<supervisor, exiting, owners, ingress, trouble, requests>>

\* load_server_settings() may refuse what is saved, which ends the run.
LoadSettings ==
  /\ At_("load")
  /\ \E ok \in BOOLEAN :
       /\ Next_(IF ok THEN "built" ELSE "ending")
       /\ owners' = IF ok THEN Everything ELSE owners
       /\ ingress' = (ingress /\ ~ok)
  /\ UNCHANGED <<supervisor, exiting, trouble, requests>>

\* The server is registered; requests made meanwhile are seen here.
OnlyForRestarts == supervisor.generation # worker.read
ExitsAtOnce == supervisor.stopping \/ supervisor.generation # worker.read

Register ==
  /\ At_("built")
  /\ exiting' = IF ExitsAtOnce THEN "yes" ELSE "no"
  /\ Next_("startup")
  /\ UNCHANGED <<supervisor, owners, ingress, trouble, requests>>

\* ApplicationRuntime.start(): messaging is optional; it may also fail half way.
StartMessaging ==
  /\ At_("startup")
  /\ \/ /\ Next_("serving")
        /\ UNCHANGED <<owners, ingress>>
     \/ /\ owners' = owners \cup Messaging
        /\ ingress' = TRUE
        /\ Next_("serving")
     \/ \E made \in {{"delivery"}, {"delivery", "cli"}, Messaging} :
          /\ owners' = owners \cup made
          /\ ingress' = TRUE
          /\ Next_("partial")
  /\ UNCHANGED <<supervisor, exiting, trouble, requests>>

\* The listening socket fails, the user interrupts, or should_exit was set.
LeaveMainLoop ==
  /\ At_("serving")
  /\ Next_("shutdown")
  /\ UNCHANGED <<supervisor, exiting, owners, ingress, trouble, requests>>

-----------------------------------------------------------------------------
(* Closing: _cleanup_messaging, _cleanup_transcriber, _close_owned_resources *)

Present(stage) == CASE stage = "ingress" -> ingress
                    [] stage = "accounts" -> owners \cap Accounts # {}
                    [] OTHER -> stage \in owners

\* The first stage that has something left to close; a failed messaging
\* startup only cleans up messaging.
Scope == IF At_("partial") THEN 1..4 ELSE DOMAIN Stages
Ahead == {i \in Scope : Present(Stages[i])}
First == CHOOSE i \in Ahead : \A j \in Ahead : i <= j

\* Closing the workflow also drains the managed CLI sessions.
Released(stage) == CASE stage = "workflow" -> {"workflow", "cli"}
                     [] stage = "accounts" -> Accounts
                     [] OTHER -> {stage}

Closing == At_("partial") \/ At_("failed") \/ At_("shutdown")

CloseStep ==
  /\ Closing
  /\ Ahead # {}
  /\ LET stage == Stages[First] IN
     /\ ingress' = (ingress /\ stage # "ingress")
     /\ owners' = owners \ Released(stage)
  /\ UNCHANGED <<supervisor, worker, exiting, trouble, requests>>

\* A step fails: the close reports that it is incomplete.  After a messaging
\* startup the application startup fails too and closes once more.  Of several
\* accounts those that did close stay closed.
CloseFails ==
  /\ Closing
  /\ Ahead # {}
  /\ trouble < MaxFailures
  /\ trouble' = trouble + 1
  /\ IF Stages[First] = "accounts"
     THEN \E done \in SUBSET (owners \cap Accounts) :
            done # owners \cap Accounts /\ owners' = owners \ done
     ELSE UNCHANGED owners
  /\ Next_(IF At_("partial") THEN "failed" ELSE "exited")
  /\ UNCHANGED <<supervisor, exiting, ingress, requests>>

CloseEnds ==
  /\ Closing
  /\ Ahead = {}
  /\ Next_(IF At_("partial") THEN "serving" ELSE "exited")
  /\ UNCHANGED <<supervisor, exiting, owners, ingress, trouble, requests>>

\* server.run() returned: another run follows only for a newer generation and a
\* runtime that is closed.
AfterServer ==
  /\ At_("exited")
  /\ exiting' = "none"
  /\ Next_(IF supervisor.generation # worker.read /\ ~supervisor.stopping /\ Closed
           THEN "loop" ELSE "ending")
  /\ UNCHANGED <<supervisor, owners, ingress, trouble, requests>>

EndRun ==
  /\ At_("ending")
  /\ supervisor' = [supervisor EXCEPT !.running = FALSE]
  /\ exiting' = "none"
  /\ Next_("none")
  /\ UNCHANGED <<owners, ingress, trouble, requests>>

-----------------------------------------------------------------------------
WorkerStep == \/ BeginRun \/ ReadGeneration \/ LoadSettings \/ Register \/ StartMessaging
              \/ CloseStep \/ CloseFails \/ CloseEnds \/ AfterServer \/ EndRun

ServerNext == \/ StartThread \/ RequestRestart \/ RequestStop
              \/ WorkerStep \/ LeaveMainLoop

\* The main loop is only left for sure once should_exit is set.
ServerFairness ==
  /\ WF_serverVars(WorkerStep)
  /\ WF_serverVars(LeaveMainLoop /\ exiting = "yes")

ServerSpec == ServerInit /\ [][ServerNext]_serverVars /\ ServerFairness

-----------------------------------------------------------------------------
(* Properties *)

\* Whatever step of a close failed and however often it was taken up again, no
\* owner is closed before those that still use it, nor while messages come in.
UsersCloseFirst ==
  Closing \/ At_("exited") \/ At_("ending") =>
    \A x \in (Messaging \cup Everything) \ owners :
      /\ Users(x) \cap owners = {}
      /\ x \in {"delivery"} \cup Everything => ~ingress

\* A server nobody told to exit runs with settings loaded after the last
\* restart request that was promised.
NoRestartIsOverlooked == exiting = "no" => worker.read = supervisor.generation

\* Restarts and failing closes: see above.
ServerIsSupervised == UsersCloseFirst /\ NoRestartIsOverlooked

\* A stop ends the run whatever the owners do.
StopEndsTheRun == supervisor.stopping ~> At_("none")
=============================================================================
