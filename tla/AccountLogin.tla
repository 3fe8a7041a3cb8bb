----------------------------- MODULE AccountLogin -----------------------------
(***************************************************************************)
(* One interactive sign-in of a ChatGPT account: the loopback listener on  *)
(* one of two allow-listed ports or the device code, the tabs a user may   *)
(* still have open from earlier attempts, and the task that waits for the  *)
(* grant while the account's owner may cancel, sign out or close.          *)
(*                                                                         *)
(* An attempt is a number: the state and the PKCE verifier in the URL of a *)
(* tab, or the device code.  A tab calls the port of its attempt, whoever  *)
(* listens there by then.  AccountSession has what a sign-in does to the   *)
(* credential file.                                                        *)
(***************************************************************************)
EXTENDS Naturals, Sequences

CONSTANTS Ports,       \* the allow-listed loopback ports, in the order they are tried
          MaxAttempts  \* bound on the attempts

ASSUME LoginConstants == Ports \in Seq(Nat) /\ MaxAttempts \in Nat

Attempts == 1..MaxAttempts
PortSet == {Ports[i] : i \in DOMAIN Ports}
NoAttempt == 0
Elsewhere == MaxAttempts + 1 \* another program's listener

VARIABLES
  attempt,    \* the last attempt, where it is, how, and what was tried for it
  listener,   \* per port: the attempt whose listener has it
  tab,        \* per attempt: the port its tab calls, 0 when there is none (any more)
  grant,      \* per attempt: what its waiter holds: an approval or why there is none
  signedIn,   \* the attempt whose credentials the process has
  accountOpen \* the manager is not closed

loginVars == <<attempt, listener, tab, grant, signedIn, accountOpen>>

Modes == {"browser", "device"}
Undecided == "pending"

LoginInit ==
  /\ attempt = [number |-> 0, at |-> "none", mode |-> "browser", tries |-> 0]
  /\ listener = [p \in PortSet |-> NoAttempt]
  /\ tab = [a \in Attempts |-> 0]
  /\ grant = [a \in Attempts |-> [from |-> NoAttempt, state |-> Undecided]]
  /\ signedIn = NoAttempt
  /\ accountOpen = TRUE

-----------------------------------------------------------------------------
(* Helpers *)

In(s) == attempt.at = s
Current == attempt.number
Reaches(s) == attempt' = [attempt EXCEPT !.at = s]
Decided(a) == grant[a].state # Undecided

\* BrowserAuthorization.close(): the future of a waiter is cancelled, the listener stops.
KeepsListening(a) == listener
ClosedListener(a) == [p \in PortSet |-> IF listener[p] = a THEN NoAttempt ELSE listener[p]]
Close(a) ==
  /\ listener' = ClosedListener(a)
  /\ grant' = IF Decided(a) THEN grant ELSE [grant EXCEPT ![a].state = "cancelled"]

-----------------------------------------------------------------------------
(* start_login(), under the operation lock *)

Start(mode) ==
  /\ accountOpen /\ In("none")
  /\ Current < MaxAttempts
  /\ attempt' = [number |-> Current + 1, at |-> "starting", mode |-> mode, tries |-> 1]
  /\ UNCHANGED <<listener, tab, grant, signedIn, accountOpen>>

\* The next port of the list, when nobody listens there.
Bind ==
  LET p == Ports[attempt.tries] IN
  /\ In("starting") /\ attempt.mode = "browser"
  /\ attempt.tries \in DOMAIN Ports
  /\ IF listener[p] = NoAttempt
     THEN /\ listener' = [listener EXCEPT ![p] = Current]
          /\ tab' = [tab EXCEPT ![Current] = p]
          /\ Reaches("bound")
     ELSE /\ attempt' = [attempt EXCEPT !.tries = @ + 1]
          /\ UNCHANGED <<listener, tab>>
  /\ UNCHANGED <<grant, signedIn, accountOpen>>

\* The endpoint gives a device code; its page takes the place of the tab.
GetDeviceCode ==
  /\ In("starting") /\ attempt.mode = "device"
  /\ Reaches("bound")
  /\ UNCHANGED <<listener, tab, grant, signedIn, accountOpen>>

\* No port is free, the endpoint fails, or the request that started it is cancelled.
StartFails ==
  /\ \/ In("starting") /\ attempt.mode = "browser" /\ attempt.tries \notin DOMAIN Ports
     \/ In("starting") /\ attempt.mode = "device"
     \/ In("bound")
  /\ Reaches("none")
  /\ Close(Current)
  /\ tab' = [tab EXCEPT ![Current] = 0]
  /\ UNCHANGED <<signedIn, accountOpen>>

\* The URL or code is published and its task is created.
Publish ==
  /\ In("bound")
  /\ Reaches("waiting")
  /\ UNCHANGED <<listener, tab, grant, signedIn, accountOpen>>

-----------------------------------------------------------------------------
(* The user and the callback *)

\* The state of the tab must be that of the listener.
AnyState(a, t) == TRUE
StateMatches(a, t) == a = t

\* A tab is answered: with a code, or with the refusal of the user.  Each is
\* used once; the listener of the tab's port may be another attempt's by then.
Callback(t, answer) ==
  /\ tab[t] # 0
  /\ t < Current \/ attempt.at \in {"waiting", "granted", "none"}
  /\ tab' = [tab EXCEPT ![t] = 0]
  /\ LET a == listener[tab[t]] IN
     IF a \in Attempts /\ ~Decided(a) /\ StateMatches(a, t)
     THEN grant' = [grant EXCEPT ![a] = [from |-> t, state |-> answer]]
     ELSE UNCHANGED grant
  /\ UNCHANGED <<attempt, listener, signedIn, accountOpen>>

\* A poll with the device code finds it approved, or finds another error than
\* the 403 or 404 of a code that is not approved yet.
PollFinds(answer) ==
  /\ In("waiting") /\ attempt.mode = "device" /\ ~Decided(Current)
  /\ grant' = [grant EXCEPT ![Current] = [from |-> Current, state |-> answer]]
  /\ UNCHANGED <<attempt, listener, tab, signedIn, accountOpen>>

\* Fifteen minutes are over: wait_for cancels the future, polling stops.
Expire ==
  /\ In("waiting") /\ ~Decided(Current)
  /\ grant' = [grant EXCEPT ![Current].state = "cancelled"]
  /\ UNCHANGED <<attempt, listener, tab, signedIn, accountOpen>>

-----------------------------------------------------------------------------
(* _complete_browser_login() and _complete_login() *)

TakeGrant ==
  /\ In("waiting") /\ grant[Current].state = "code"
  /\ Reaches("granted")
  /\ UNCHANGED <<listener, tab, grant, signedIn, accountOpen>>

\* The code is exchanged with this attempt's verifier and saved, or is not; the
\* state lock is taken, the attempt cleared, and the listener closed.
Complete ==
  /\ In("granted")
  /\ signedIn' \in {signedIn} \cup (IF grant[Current].from = Current THEN {Current} ELSE {})
  /\ Reaches("none")
  /\ Close(Current)
  /\ UNCHANGED <<tab, accountOpen>>

Fail ==
  /\ In("waiting") /\ grant[Current].state \in {"refused", "cancelled"}
  /\ Reaches("none")
  /\ Close(Current)
  /\ UNCHANGED <<tab, signedIn, accountOpen>>

\* cancel_login(), disconnect() and close(): the task is cancelled and awaited.
Detach ==
  /\ Reaches(IF attempt.at \in {"waiting", "granted"} THEN "none" ELSE attempt.at)
  /\ IF attempt.at \in {"waiting", "granted"}
     THEN Close(Current)
     ELSE UNCHANGED <<listener, grant>>

Cancel == /\ attempt.at \in {"waiting", "granted"}
          /\ Detach
          /\ UNCHANGED <<tab, signedIn, accountOpen>>

SignOut == /\ accountOpen /\ attempt.at \in {"none", "waiting", "granted"}
           /\ Detach
           /\ signedIn' = NoAttempt
           /\ UNCHANGED <<tab, accountOpen>>

CloseManager == /\ accountOpen /\ attempt.at \in {"none", "waiting", "granted"}
                /\ Detach
                /\ accountOpen' = FALSE
                /\ UNCHANGED <<tab, signedIn>>

\* Another program starts or stops listening on a port.
OtherProgram(p) ==
  /\ listener[p] \in {NoAttempt, Elsewhere}
  /\ listener' = [listener EXCEPT ![p] = IF @ = NoAttempt THEN Elsewhere ELSE NoAttempt]
  /\ UNCHANGED <<attempt, tab, grant, signedIn, accountOpen>>

-----------------------------------------------------------------------------
SignInStep == Bind \/ GetDeviceCode \/ StartFails \/ Publish \/ Expire \/ TakeGrant \/ Complete \/ Fail

LoginNext ==
  \/ SignInStep \/ Cancel \/ SignOut \/ CloseManager
  \/ \E mode \in Modes : Start(mode)
  \/ \E t \in Attempts, answer \in {"code", "refused"} : Callback(t, answer)
  \/ \E answer \in {"code", "refused"} : PollFinds(answer)
  \/ \E p \in PortSet : OtherProgram(p)

LoginFairness == WF_loginVars(SignInStep)

LoginSpec == LoginInit /\ [][LoginNext]_loginVars /\ LoginFairness

-----------------------------------------------------------------------------
(* Properties *)

\* A port is listened on for the attempt that is under way and for no other:
\* what ends, fails to start or is cancelled leaves no listener behind.
NoListenerIsLeft ==
  \A p \in PortSet : listener[p] \in Attempts =>
    listener[p] = Current /\ attempt.at \in {"bound", "waiting", "granted"}

\* While its URL is shown, the tab of an attempt finds the attempt's listener.
TabsAreHeard ==
  In("waiting") /\ tab[Current] # 0 => listener[tab[Current]] = Current

\* An attempt is decided by its own tab or code, never by a tab left from an
\* earlier one, and credentials come from an attempt that nobody cancelled.
OwnGrant ==
  /\ \A a \in Attempts : grant[a].from \in {NoAttempt, a}
  /\ signedIn # NoAttempt => grant[signedIn] = [from |-> signedIn, state |-> "code"]

LoginIsSound == NoListenerIsLeft /\ TabsAreHeard /\ OwnGrant

\* A sign-in that was started ends: with an answer, or when its time is over.
EveryLoginEnds == \A a \in Attempts : (Current = a /\ ~In("none")) ~> In("none")
===============================================================================
