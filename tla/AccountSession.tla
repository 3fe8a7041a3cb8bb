--------------------------- MODULE AccountSession ---------------------------
(***************************************************************************)
(* The ChatGPT account several Claudey processes share: one credential     *)
(* file under an inter-process lock, and in every process the manager that *)
(* caches the credentials, refreshes them for requests, signs in, signs    *)
(* out and is polled by the Admin UI.                                      *)
(*                                                                         *)
(* Credentials are generations 1, 2, ...: the server issues one per login  *)
(* and per refresh, and a refresh token buys a successor once.  A thread   *)
(* started by asyncio.to_thread outlives the task that awaited it.         *)
(***************************************************************************)
EXTENDS Naturals, FiniteSets, Sequences

CONSTANTS Processes,     \* Claudey processes sharing one home directory
          Calls,         \* provider calls that need the account
          Home,          \* the process a call runs in
          MaxIssued,     \* bound on the generations the server issues
          MaxOperations, \* bound on the operations asked of a process
          MaxPolls       \* bound on the status polls of a process

ASSUME AccountConstants == /\ Home \in [Calls -> Processes]
                           /\ MaxIssued \in Nat
                           /\ {MaxOperations, MaxPolls} \subseteq [Processes -> Nat]

None == 0
Nobody == <<"nobody", 0>>
Generation == 1..MaxIssued

VARIABLES
  file,       \* generation in the credential file, None when there is no file
  fileLock,   \* task holding the inter-process lock: <<job, call or process>>
  threads,    \* file writes whose task is gone: generations, None for a deletion
  issued,     \* generations the server has issued
  accepted,   \* generations whose refresh token the server still accepts
  due,        \* generations whose access token is within the early-refresh window
  stranded,   \* generations whose successor, or whose write, lost the task awaiting it
  account,    \* per process: credentials, revision, state lock, closed, ...
  call,       \* per call: where it is and the generation it works with
  login,      \* per process: the interactive login
  operator,   \* per process: the operation holding the operation lock
  catalog     \* per process: the application's view of the account

accountVars == <<file, fileLock, threads, issued, accepted, due, stranded,
                 account, call, login, operator, catalog>>

Server == <<issued, accepted, due, stranded>>
Disk == <<file, fileLock, threads>>

-----------------------------------------------------------------------------
(* Helpers *)

MayLock(p) == account[p].lock = Nobody

Connected(a) == a.credentials # None

\* Credentials set or dropped under the state lock, with a new revision: the
\* history says, for every revision so far, whether it was connected.
Settled(a, g) == [a EXCEPT !.credentials = g, !.history = Append(@, g # None)]

Revision(p) == Len(account[p].history)

CallTask(c) == <<"call", c>>

LoginTask(p) == <<"login", p>>
OperatorTask(p) == <<"operator", p>>

\* The server trades generation g for a new one.
Grant(g) == /\ issued < MaxIssued
            /\ issued' = issued + 1
            /\ accepted' = (accepted \ {g}) \cup {issued + 1}

\* The task holding the file lock lets go of it.
FileUnlocked(t) == fileLock' = IF fileLock = t THEN Nobody ELSE fileLock

AccountInit ==
  \E g \in {None, 1} :
    /\ file = g
    /\ issued = g
    /\ accepted = {g} \ {None}
    /\ account = [p \in Processes |->
                   [credentials |-> g, history |-> <<g # None>>, lock |-> Nobody,
                    closed |-> FALSE, error |-> FALSE, signedOut |-> FALSE,
                    unseen |-> FALSE]]
    /\ fileLock = Nobody
    /\ threads = {}
    /\ due = {}
    /\ stranded = {}
    /\ call = [c \in Calls |-> [at |-> "new", using |-> None, got |-> None, recovers |-> "no"]]
    /\ login = [p \in Processes |-> [at |-> "none", got |-> None]]
    /\ operator = [p \in Processes |-> [at |-> "idle", asked |-> 0]]
    /\ catalog = [p \in Processes |-> [listed |-> g # None, seen |-> 1,
                                       queue |-> <<>>, polls |-> 0]]

-----------------------------------------------------------------------------
(* A provider call: access(), one recover_unauthorized(), _refresh_locked() *)

At(c, s) == call[c].at = s
Going(c, s) == call' = [call EXCEPT ![c].at = s]

\* The state lock is dropped and the call leaves the manager.
Leave(c, s, g) == call' = [call EXCEPT ![c] = [@ EXCEPT !.at = s, !.using = g]]

Access(c) ==
  LET p == Home[c]  g == account[p].credentials IN
  /\ At(c, "new")
  /\ MayLock(p)
  /\ \/ /\ account[p].closed \/ g = None
        /\ Going(c, "refused")
        /\ UNCHANGED account
     \/ /\ ~account[p].closed /\ g \in Generation \ due
        /\ Leave(c, "sent", g)
        /\ UNCHANGED account
     \/ /\ ~account[p].closed /\ g \in due
        /\ call' = [call EXCEPT ![c] = [@ EXCEPT !.at = "lock", !.using = g]]
        /\ account' = [account EXCEPT ![p].lock = CallTask(c)]
  /\ UNCHANGED <<Disk, Server, login, operator, catalog>>

\* The request went out: served, or answered 401 once its access token is bad.
Served(c) ==
  /\ At(c, "sent")
  /\ Going(c, "served")
  /\ UNCHANGED <<Disk, Server, account, login, operator, catalog>>

Rejected(c) ==
  /\ At(c, "sent")
  /\ call[c].using \in due \/ call[c].using \notin accepted
  /\ Going(c, IF call[c].recovers = "done" THEN "refused" ELSE "rejected")
  /\ UNCHANGED <<Disk, Server, account, login, operator, catalog>>

\* recover_unauthorized(): the file is read again before the one forced refresh.
\* What it finds has no revision of its own, also when nothing was connected.
Found(a, g) == IF Connected(a) THEN [a EXCEPT !.credentials = g]
               ELSE [a EXCEPT !.credentials = g, !.unseen = TRUE]

Recover(c) ==
  LET p == Home[c]
      current == IF file # None THEN file ELSE account[p].credentials
  IN
  /\ At(c, "rejected")
  /\ MayLock(p)
  /\ \/ /\ current = None
        /\ Going(c, "refused")
        /\ UNCHANGED account
     \/ /\ current # None /\ current # call[c].using
        /\ call' = [call EXCEPT ![c] = [@ EXCEPT !.at = "new", !.recovers = "done"]]
        /\ account' = [account EXCEPT ![p] = Found(@, current)]
     \/ /\ current # None /\ current = call[c].using
        /\ call' = [call EXCEPT ![c] = [@ EXCEPT !.at = "lock", !.recovers = "now"]]
        /\ account' = [account EXCEPT ![p] = [Found(@, current) EXCEPT !.lock = CallTask(c)]]
  /\ UNCHANGED <<Disk, Server, login, operator, catalog>>

LockFile(c) ==
  /\ At(c, "lock")
  /\ fileLock = Nobody
  /\ fileLock' = CallTask(c)
  /\ Going(c, "reload")
  /\ UNCHANGED <<file, threads, Server, account, login, operator, catalog>>

\* 30 seconds pass while another task keeps the file lock.
LockTimesOut(c) ==
  /\ At(c, "lock")
  /\ fileLock # Nobody
  /\ Going(c, "refused")
  /\ account' = [account EXCEPT ![Home[c]].lock = Nobody]
  /\ UNCHANGED <<Disk, Server, login, operator, catalog>>

\* Another process refreshed first: its credentials are used instead.
TrustsMemory(c) == FALSE
RenewedElsewhere(c) == file # None /\ file # call[c].using /\ file \notin due

Reload(c) ==
  /\ At(c, "reload")
  /\ IF RenewedElsewhere(c)
     THEN /\ account' = [account EXCEPT ![Home[c]].credentials = file]
          /\ call' = [call EXCEPT ![c] = [@ EXCEPT !.at = "unlock", !.using = file]]
     ELSE /\ Going(c, "post")
          /\ UNCHANGED account
  /\ UNCHANGED <<Disk, Server, login, operator, catalog>>

\* The token endpoint grants a successor, refuses (400, 401 or 403), or fails in
\* a way worth another try, possibly after it took the old token.
Granted(c) ==
  /\ At(c, "post")
  /\ call[c].using \in accepted
  /\ Grant(call[c].using)
  /\ call' = [call EXCEPT ![c] = [@ EXCEPT !.at = "write", !.got = issued + 1]]
  /\ UNCHANGED <<Disk, due, stranded, account, login, operator, catalog>>

Denied(c) ==
  /\ At(c, "post")
  /\ call[c].using \notin accepted
  /\ Going(c, "delete")
  /\ UNCHANGED <<Disk, Server, account, login, operator, catalog>>

AnswerLost(c) ==
  /\ At(c, "post")
  /\ \/ UNCHANGED Server
     \/ /\ call[c].using \in accepted
        /\ Grant(call[c].using)
        /\ stranded' = stranded \cup {call[c].using}
        /\ UNCHANGED due
  /\ Going(c, IF call[c].recovers = "now" THEN "failing" ELSE "unlock")
  /\ UNCHANGED <<Disk, account, login, operator, catalog>>

\* The thread writes or deletes the file; then the task goes on.
WriteFile(c) ==
  /\ At(c, "write") \/ At(c, "delete")
  /\ file' = IF At(c, "write") THEN call[c].got ELSE None
  /\ Going(c, IF At(c, "write") THEN "written" ELSE "deleted")
  /\ UNCHANGED <<fileLock, threads, Server, account, login, operator, catalog>>

Settle(c) ==
  LET p == Home[c] IN
  /\ At(c, "written") \/ At(c, "deleted")
  /\ IF At(c, "written")
     THEN /\ account' = [account EXCEPT ![p] = Settled(@, call[c].got)]
          /\ call' = [call EXCEPT ![c] = [@ EXCEPT !.at = "unlock", !.using = call[c].got]]
     ELSE /\ account' = [account EXCEPT ![p] = [Settled(@, None) EXCEPT !.error = TRUE]]
          /\ Going(c, "failing")
  /\ UNCHANGED <<Disk, Server, login, operator, catalog>>

\* After the one forced refresh the stream is tried again, from access().
Unlock(c) ==
  /\ At(c, "unlock") \/ At(c, "failing")
  /\ FileUnlocked(CallTask(c))
  /\ account' = [account EXCEPT ![Home[c]].lock = Nobody]
  /\ IF At(c, "unlock") /\ call[c].recovers = "now"
     THEN call' = [call EXCEPT ![c] = [@ EXCEPT !.at = "new", !.recovers = "done"]]
     ELSE Going(c, IF At(c, "unlock") THEN "sent" ELSE "refused")
  /\ UNCHANGED <<file, threads, Server, login, operator, catalog>>

\* The client goes away.  A write or a deletion in its thread is not stopped,
\* but the locks are let go of; a token request may have been carried out.
Aborted(c) ==
  LET at == call[c].at IN
  /\ at \in {"lock", "reload", "post", "write", "delete", "written", "deleted", "unlock", "failing"}
  /\ FileUnlocked(CallTask(c))
  /\ account' = [account EXCEPT ![Home[c]].lock = Nobody]
  /\ Going(c, "aborted")
  /\ threads' = threads \cup (IF at = "write" THEN {call[c].got}
                              ELSE IF at = "delete" THEN {None} ELSE {})
  /\ \/ /\ at = "post" /\ call[c].using \in accepted
        /\ Grant(call[c].using)
        /\ stranded' = stranded \cup {call[c].using}
        /\ UNCHANGED due
     \/ /\ stranded' = IF at = "write" THEN stranded \cup {call[c].using, call[c].got} ELSE stranded
        /\ UNCHANGED <<issued, accepted, due>>
  /\ UNCHANGED <<file, login, operator, catalog>>

\* A thread nobody waits for gets to the file.
Land(g) ==
  /\ g \in threads
  /\ threads' = threads \ {g}
  /\ file' = g
  /\ UNCHANGED <<fileLock, Server, account, call, login, operator, catalog>>

\* Time passes: a generation comes within five minutes of its expiry.
Age(g) ==
  /\ g \in 1..issued \ due
  /\ due' = due \cup {g}
  /\ UNCHANGED <<Disk, issued, accepted, stranded, account, call, login, operator, catalog>>

-----------------------------------------------------------------------------
(* The interactive login's own task *)

LoginAt(p, s) == login[p].at = s
LoginGoing(p, s) == login' = [login EXCEPT ![p].at = s]

\* The user approves and the code is exchanged, or one of the two fails.
Exchange(p) ==
  /\ LoginAt(p, "waiting")
  /\ issued < MaxIssued
  /\ issued' = issued + 1
  /\ accepted' = accepted \cup {issued + 1}
  /\ login' = [login EXCEPT ![p] = [at |-> "lock", got |-> issued + 1]]
  /\ UNCHANGED <<Disk, due, stranded, account, call, operator, catalog>>

LoginFails(p) ==
  /\ LoginAt(p, "waiting") \/ (LoginAt(p, "lock") /\ fileLock # Nobody)
  /\ MayLock(p)
  /\ LoginGoing(p, "none")
  /\ account' = [account EXCEPT ![p].error = TRUE]
  /\ UNCHANGED <<Disk, Server, call, operator, catalog>>

LoginLocks(p) ==
  /\ LoginAt(p, "lock")
  /\ fileLock = Nobody
  /\ fileLock' = LoginTask(p)
  /\ LoginGoing(p, "write")
  /\ UNCHANGED <<file, threads, Server, account, call, operator, catalog>>

LoginWrites(p) ==
  /\ LoginAt(p, "write")
  /\ file' = login[p].got
  /\ fileLock' = Nobody
  /\ LoginGoing(p, "written")
  /\ UNCHANGED <<threads, Server, account, call, operator, catalog>>

LoginCompletes(p) ==
  /\ LoginAt(p, "written")
  /\ MayLock(p)
  /\ account' = [account EXCEPT ![p] = [Settled(@, login[p].got) EXCEPT !.error = FALSE]]
  /\ LoginGoing(p, "none")
  /\ UNCHANGED <<Disk, Server, call, operator, catalog>>

\* _detach_login_locked and _close_detached_login: the task is cancelled and
\* awaited; a write it had started goes on in its thread.
DetachLogin(p) ==
  /\ login' = [login EXCEPT ![p].at = "none"]
  /\ threads' = threads \cup (IF LoginAt(p, "write") THEN {login[p].got} ELSE {})
  /\ stranded' = stranded \cup (IF LoginAt(p, "write") THEN {login[p].got} ELSE {})
  /\ FileUnlocked(LoginTask(p))
  /\ UNCHANGED <<file, issued, due>>

-----------------------------------------------------------------------------
(* Operations, one at a time under the operation lock *)

OperatorAt(p, s) == operator[p].at = s
Ask(p, s) == /\ OperatorAt(p, "idle")
             /\ operator[p].asked < MaxOperations[p]
             /\ MayLock(p)
             /\ operator' = [operator EXCEPT ![p] = [at |-> s, asked |-> @.asked + 1]]

StartLogin(p) ==
  /\ ~account[p].closed
  /\ LoginAt(p, "none")
  /\ Ask(p, "idle")
  /\ LoginGoing(p, "waiting")
  /\ account' = [account EXCEPT ![p].error = FALSE, ![p].signedOut = FALSE]
  /\ UNCHANGED <<Disk, Server, call, catalog>>

CancelLogin(p) ==
  /\ ~LoginAt(p, "none")
  /\ Ask(p, "idle")
  /\ DetachLogin(p)
  /\ account' = [account EXCEPT ![p].error = FALSE]
  /\ UNCHANGED <<accepted, call, catalog>>

CloseAccount(p) ==
  /\ ~account[p].closed
  /\ Ask(p, "idle")
  /\ account' = [account EXCEPT ![p].closed = TRUE]
  /\ DetachLogin(p)
  /\ UNCHANGED <<accepted, call, catalog>>

Disconnect(p) ==
  /\ ~account[p].closed
  /\ Ask(p, "revoke")
  /\ DetachLogin(p)
  /\ UNCHANGED <<accepted, account, call, catalog>>

\* Best-effort revocation of what this process holds, under the state lock.
Revoke(p) ==
  /\ OperatorAt(p, "revoke")
  /\ MayLock(p)
  /\ operator' = [operator EXCEPT ![p].at = "lock"]
  /\ account' = [account EXCEPT ![p].lock = OperatorTask(p)]
  /\ \/ accepted' = accepted \ {account[p].credentials}
     \/ UNCHANGED accepted
  /\ UNCHANGED <<Disk, issued, due, stranded, call, login, catalog>>

RevokeLocks(p) ==
  /\ OperatorAt(p, "lock")
  /\ IF fileLock = Nobody
     THEN /\ fileLock' = OperatorTask(p)
          /\ operator' = [operator EXCEPT ![p].at = "delete"]
          /\ UNCHANGED account
     ELSE /\ operator' = [operator EXCEPT ![p].at = "idle"]
          /\ account' = [account EXCEPT ![p].lock = Nobody]
          /\ UNCHANGED fileLock
  /\ UNCHANGED <<file, threads, Server, call, login, catalog>>

DeleteFile(p) ==
  /\ OperatorAt(p, "delete")
  /\ file' = None
  /\ fileLock' = Nobody
  /\ account' = [account EXCEPT ![p] =
       [Settled(@, None) EXCEPT !.lock = Nobody, !.error = FALSE, !.signedOut = TRUE]]
  /\ operator' = [operator EXCEPT ![p].at = "idle"]
  /\ catalog' = [catalog EXCEPT ![p].queue =
       Append(@, [revision |-> Revision(p) + 1, connected |-> FALSE, begun |-> FALSE])]
  /\ UNCHANGED <<threads, Server, call, login>>

-----------------------------------------------------------------------------
(* Availability: connected_account_status() and connected_provider_changed() *)

\* A poll reads the account and, for an unseen revision, queues on the lock.
StatusNow(p) == [revision |-> Revision(p), connected |-> Connected(account[p]), begun |-> FALSE]

Poll(p) ==
  LET queue == catalog[p].queue IN
  /\ catalog[p].polls < MaxPolls[p]
  /\ \/ /\ Revision(p) = catalog[p].seen
        /\ catalog' = [catalog EXCEPT ![p].polls = @ + 1]
     \/ /\ Revision(p) # catalog[p].seen
        /\ catalog' = [catalog EXCEPT ![p] =
             [@ EXCEPT !.polls = catalog[p].polls + 1, !.queue = Append(queue, StatusNow(p))]]
  /\ UNCHANGED <<Disk, Server, account, call, login, operator>>

\* What a synchronization leaves: the availability of the revision it is about.
AsOfNow(p, next) == Connected(account[p])
AsOfRevision(p, next) == next.connected

\* Adding the provider waits for its model list; removing it does not.
Synchronize(p) ==
  LET queue == catalog[p].queue
      next  == Head(queue)
  IN
  /\ queue # <<>>
  /\ \/ /\ next.connected /\ ~next.begun
        /\ catalog' = [catalog EXCEPT ![p] =
             [@ EXCEPT !.listed = TRUE, !.queue = [queue EXCEPT ![1].begun = TRUE]]]
     \/ /\ ~next.connected \/ next.begun
        /\ catalog' = [catalog EXCEPT ![p] =
             [@ EXCEPT !.listed = AsOfRevision(p, next), !.seen = next.revision, !.queue = Tail(queue)]]
  /\ UNCHANGED <<Disk, Server, account, call, login, operator>>

-----------------------------------------------------------------------------
CallStep(c) == \/ Access(c) \/ Served(c) \/ Rejected(c) \/ Recover(c) \/ LockFile(c)
               \/ LockTimesOut(c) \/ Reload(c) \/ Granted(c) \/ Denied(c) \/ AnswerLost(c)
               \/ WriteFile(c) \/ Settle(c) \/ Unlock(c)

LoginStep(p) == \/ Exchange(p) \/ LoginFails(p) \/ LoginLocks(p) \/ LoginWrites(p)
                \/ LoginCompletes(p)

OperatorStep(p) == Revoke(p) \/ RevokeLocks(p) \/ DeleteFile(p)

AccountNext ==
  \/ \E c \in Calls : CallStep(c) \/ Aborted(c)
  \/ \E p \in Processes : LoginStep(p) \/ OperatorStep(p) \/ Synchronize(p) \/ Poll(p)
  \/ \E p \in Processes : StartLogin(p) \/ CancelLogin(p) \/ CloseAccount(p) \/ Disconnect(p)
  \/ \E g \in threads : Land(g)
  \/ \E g \in Generation : Age(g)

AccountFairness == /\ \A c \in Calls : WF_accountVars(CallStep(c))
                   /\ \A p \in Processes : /\ WF_accountVars(LoginStep(p))
                                           /\ WF_accountVars(OperatorStep(p))
                                           /\ WF_accountVars(Synchronize(p))

AccountSpec == AccountInit /\ [][AccountNext]_accountVars /\ AccountFairness

-----------------------------------------------------------------------------
(* Properties *)

\* A refused refresh deletes the shared file only when the session it holds is
\* over: never credentials another process renewed meanwhile.  The exceptions
\* are a newer file that is itself about to expire, whose refresh token is not
\* tried, and writes of calls that went away.
RenewedSessionSurvives ==
  \A c \in Calls :
    At(c, "delete") /\ file \in accepted =>
      (file \in due /\ file # call[c].using) \/ stranded # {}

\* With no synchronization under way, the models are listed exactly when the
\* account was connected at the last revision the application looked at.  The
\* exception is an account a call of a signed-out process took from the file of
\* another process: recover_unauthorized() gives it no revision of its own.
ListedAsLastSeen ==
  \A p \in Processes :
    (catalog[p].queue = <<>> /\ catalog[p].seen # None /\ ~account[p].unseen) =>
      catalog[p].listed = account[p].history[catalog[p].seen]

\* Neither the file nor what the application lists of an account is lost to another task.
AccountIsSound == RenewedSessionSurvives /\ ListedAsLastSeen

\* disconnect(): "Best-effort revoke, then always remove claudey-owned
\* credentials".  With one process, once it returned nothing is left.
DisconnectAlwaysRemoves ==
  \A p \in Processes : account[p].signedOut => file = None /\ ~Connected(account[p])

\* Every call is answered or refused, whatever the other tasks hold.
EveryAccountCallEnds ==
  \A c \in Calls : <>(call[c].at \in {"served", "refused", "aborted"})
=============================================================================
