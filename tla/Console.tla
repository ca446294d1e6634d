--------------------------------- MODULE Console ---------------------------------
(***************************************************************************)
(* One browser tab of src/src/web/command-center against the server: the    *)
(* hook useWebSocket and the store it fills, the simulation of useRealtime, *)
(* the buttons that edit the store, the choice of tenant, and the sign-in   *)
(* that mounts and unmounts all of it. React, the browser's WebSocket and   *)
(* the network are external. The delays of reconnection are left out.       *)
(***************************************************************************)
EXTENDS Center

CONSTANT MaxEdited  \* bound on the items edited in the tab at once

VARIABLES
    page,       \* "login" or "console", where Layout and its hooks are mounted
    auth,       \* ej_auth of sessionStorage
    step,       \* of Login: "credentials" or "mfa"
    pending,    \* the timers and requests of Login: "lateMfa" is one of an unmounted Login
    overlap,    \* two sign-ins were pending at once (history)
    stale,      \* those pending at the last sign-out (history)
    tenant,     \* selectedTenant
    timer,      \* a reconnection is scheduled
    wsConnected,
    shown,      \* the store
    edited      \* the items edited in the tab since a message set them (history)

sessionVars == <<page, auth, step, pending, overlap, stale>>
storeVars == <<shown, edited>>
hookVars == <<tenant, timer, wsConnected>>
consoleVars == <<centerVars, sessionVars, hookVars, storeVars>>

Unused == {s \in Sockets : tabEnd[s] = "none"}
NextSocket == CHOOSE s \in Unused : \A u \in Unused : s <= u

\* connect(): a socket for the tenant selected. The constructor throws only for a URL that does
\* not parse, and the URL is the build's VITE_BACKEND_URL with a slug in its query: it throws
\* always or never. The build is taken to be one whose URL parses.
ConnectAs(t, ends) ==
    /\ Unused # {}
    /\ tabEnd' = [ends EXCEPT ![NextSocket] = "connecting"]
    /\ tenantOf' = [tenantOf EXCEPT ![NextSocket] = SlugOf[t]]
\* The cleanup of the effect: its socket is closed without a handler, and what was on the
\* way to it is dropped.
Closed == [s \in Sockets |-> IF s \in Live THEN "closed" ELSE tabEnd[s]]
\* Mutant: the timer is left to fire.
TimerKept == timer
TimerAfterCleanup == FALSE

ConsoleInit ==
    /\ CenterInit
    /\ auth = FALSE /\ page = "login" /\ step = "credentials"
    /\ pending = {} /\ overlap = FALSE /\ stale = {}
    /\ tenant \in DOMAIN SlugOf /\ timer = FALSE /\ wsConnected = FALSE
    /\ shown = InitialShared /\ edited = {}

-----------------------------------------------------------------------------
(* The hook.                                                               *)
Opened(s) ==
    /\ tabEnd[s] = "connecting" /\ serverEnd[s] # "none"
    /\ tabEnd' = [tabEnd EXCEPT ![s] = "open"]
    /\ wsConnected' = TRUE
    /\ UNCHANGED <<stateVars, clients, alive, tenantOf, serverEnd, wire, missed,
                   sessionVars, tenant, timer, storeVars>>

\* handleMessage(): a snapshot replaces every item, an update its own.
Message(s) ==
    /\ tabEnd[s] = "open" /\ wire[s] # <<>>
    /\ shown' = [i \in Items |-> IF i \in DOMAIN Head(wire[s]) THEN Head(wire[s])[i] ELSE shown[i]]
    /\ edited' = edited \ DOMAIN Head(wire[s])
    /\ wire' = [wire EXCEPT ![s] = Tail(@)]
    /\ UNCHANGED <<stateVars, clients, alive, tenantOf, serverEnd, tabEnd, missed, sessionVars, hookVars>>

\* onclose, also of a socket that never opened.
ClosedByNetwork(s) ==
    /\ s \in Live
    /\ tabEnd' = [tabEnd EXCEPT ![s] = "closed"]
    /\ wire' = [wire EXCEPT ![s] = <<>>]
    /\ wsConnected' = FALSE /\ timer' = TRUE
    /\ UNCHANGED <<stateVars, clients, alive, tenantOf, serverEnd, missed, sessionVars, tenant, storeVars>>

Reconnect ==
    /\ timer
    /\ ConnectAs(tenant, tabEnd)
    /\ timer' = FALSE
    /\ UNCHANGED <<stateVars, clients, alive, serverEnd, wire, missed, sessionVars, tenant, wsConnected, storeVars>>

\* Another tenant: the effect is cleaned up and run again. wsConnected stays as it is.
SelectTenant(t) ==
    /\ page = "console" /\ t # tenant
    /\ tenant' = t
    /\ ConnectAs(t, Closed)
    /\ wire' = [s \in Sockets |-> <<>>]
    /\ timer' = TimerAfterCleanup
    /\ UNCHANGED <<stateVars, clients, alive, serverEnd, missed, sessionVars, wsConnected, storeVars>>

-----------------------------------------------------------------------------
(* What the tab changes in its store by itself, and tells no one: useRealtime *)
(* while it is not connected, and the buttons of the views.                  *)
Edit(item, value) ==
    /\ page = "console"
    /\ shown' = [shown EXCEPT ![item] = value]
    /\ edited' = edited \cup {item} /\ Cardinality(edited') <= MaxEdited
    /\ UNCHANGED <<centerVars, sessionVars, hookVars>>

Simulate == ~wsConnected /\ Edit("agents", 0)
PressKillSwitch == Edit("killSwitchActive", ~shown["killSwitchActive"])
DecideInTab(a, decision) == Edit(a, decision)

-----------------------------------------------------------------------------
(* Sign-in and sign-out.                                                   *)
SignIns == {"mfa", "lateMfa", "google"}
Loading == pending \cap {"credentials", "mfa"} # {}

SubmitForm ==
    /\ page = "login" /\ ~Loading
    /\ pending' = pending \cup {step}
    /\ overlap' = (overlap \/ (step = "mfa" /\ pending \cap SignIns # {}))
    /\ UNCHANGED <<page, auth, step, stale, centerVars, hookVars, storeVars>>

BeginGoogle ==
    /\ page = "login" /\ "google" \notin pending
    /\ pending' = pending \cup {"google"}
    /\ overlap' = (overlap \/ pending \cap SignIns # {})
    /\ UNCHANGED <<page, auth, step, stale, centerVars, hookVars, storeVars>>

CredentialsTimer ==
    /\ "credentials" \in pending
    /\ pending' = pending \ {"credentials"}
    /\ step' \in {"credentials", "mfa"}
    /\ UNCHANGED <<page, auth, overlap, stale, centerVars, hookVars, storeVars>>

\* "Back", and the logo: "/" without a sign-in mounts a new Login, whose predecessor's
\* timers still run.
Remaining(p) == (p \cap {"google", "lateMfa"}) \cup (IF "mfa" \in p THEN {"lateMfa"} ELSE {})
LeaveForm ==
    /\ page = "login"
    /\ step' = "credentials"
    /\ pending' \in {pending, Remaining(pending)}
    /\ UNCHANGED <<page, auth, overlap, stale, centerVars, hookVars, storeVars>>

SignInFails(p) ==
    /\ p \in pending \cap SignIns
    /\ pending' = pending \ {p}
    /\ UNCHANGED <<page, auth, step, overlap, stale, centerVars, hookVars, storeVars>>

\* ej_auth is set and "/" shown, from wherever the tab is by now.
SignInSucceeds(p) ==
    /\ p \in pending \cap SignIns
    /\ auth' = TRUE /\ page' = "console"
    /\ pending' = IF page = "login" THEN Remaining(pending \ {p}) ELSE pending \ {p}
    /\ IF page = "login" THEN ConnectAs(tenant, tabEnd) ELSE UNCHANGED <<tabEnd, tenantOf>>
    /\ UNCHANGED <<step, overlap, stale, stateVars, clients, alive, serverEnd, wire, missed, hookVars, storeVars>>

SignOut ==
    /\ page = "console"
    /\ auth' = FALSE /\ page' = "login" /\ step' = "credentials"
    /\ stale' = pending
    /\ tabEnd' = Closed /\ wire' = [s \in Sockets |-> <<>>] /\ timer' = TimerAfterCleanup
    /\ UNCHANGED <<pending, overlap, stateVars, clients, alive, tenantOf, serverEnd, missed,
                   tenant, wsConnected, storeVars>>

-----------------------------------------------------------------------------
HookNext ==
    \/ Reconnect
    \/ \E s \in Sockets : Opened(s) \/ Message(s) \/ ClosedByNetwork(s)
    \/ \E t \in DOMAIN SlugOf : SelectTenant(t)
EditNext ==
    \/ Simulate \/ PressKillSwitch
    \/ \E a \in ActionIds, decision \in {"APPROVED", "REJECTED"} : DecideInTab(a, decision)
SessionNext ==
    \/ SubmitForm \/ BeginGoogle \/ CredentialsTimer \/ LeaveForm \/ SignOut
    \/ \E p \in SignIns : SignInFails(p) \/ SignInSucceeds(p)
ServerNext == CenterNext /\ UNCHANGED <<sessionVars, hookVars, storeVars>>

ConsoleNext == ServerNext \/ HookNext \/ EditNext \/ SessionNext

\* The heartbeat is a timer of the server.
ConsoleFairness == WF_consoleVars(Heartbeat /\ UNCHANGED <<sessionVars, hookVars, storeVars>>)
ConsoleSpec == ConsoleInit /\ [][ConsoleNext]_consoleVars /\ ConsoleFairness

-----------------------------------------------------------------------------
(* Properties.                                                             *)
ConsoleTypeOK ==
    /\ engine \in {"loading", "loaded", "mock-only"} /\ changes \in 0..MaxChanges
    /\ page \in {"login", "console"} /\ step \in {"credentials", "mfa"}
    /\ pending \subseteq SignIns \cup {"credentials"}
    /\ DOMAIN shown = Items /\ \A s \in Sockets : wire[s] # <<>> => s \in Live

\* The tab has at most one socket, and either that or a reconnection that is due while the
\* console is shown, and none otherwise, however often it reconnects, changes its tenant,
\* signs out and in.
OneConnection ==
    Cardinality(Live) + (IF timer THEN 1 ELSE 0) = IF page = "console" THEN 1 ELSE 0

\* What the tab shows of an item once what is on the way has arrived.
Arrives(s, i) ==
    LET about == {n \in DOMAIN wire[s] : i \in DOMAIN wire[s][n]}
    IN  IF about = {} THEN shown[i] ELSE wire[s][CHOOSE n \in about : \A m \in about : m <= n][i]
Covered(s, i) == \E n \in DOMAIN wire[s] : i \in DOMAIN wire[s][n]

\* A tab that is connected shows the server's state when everything has arrived, except
\* what was changed for another tenant and what was edited in the tab.
ShownIsShared ==
    \A s \in Live : serverEnd[s] = "open" =>
        \A i \in Items : \/ Arrives(s, i) = shared[i]
                         \/ i \in missed[s]
                         \/ i \in edited /\ ~Covered(s, i)

\* The console is shown to who is signed in, and a sign-in that comes after a sign-out was
\* begun after it, unless two were under way at once.
SignOutHolds == (page = "console" <=> auth) /\ (stale # {} => overlap)

\* What always holds of the command center.
CenterInv ==
    /\ ConsoleTypeOK /\ ClientsAreOpen /\ FlagIsBacked
    /\ OneConnection /\ ShownIsShared /\ SignOutHolds

\* Two heartbeats remove a client whose tab has closed, when no close frame arrives.
GoneIsRemoved ==
    \A s \in Sockets : (s \in clients /\ tabEnd[s] = "closed") ~> s \notin clients

\* KillSwitchButton.tsx:74 "All autonomous agent actions are currently HALTED": shown by a
\* connected console only when the server's kill switch is active, or was when the last
\* message on the way was sent.
ShownHaltIsReal ==
    \A s \in Live :
        (wsConnected /\ serverEnd[s] = "open" /\ missed[s] = {} /\ Arrives(s, "killSwitchActive"))
            => shared["killSwitchActive"]
=============================================================================
