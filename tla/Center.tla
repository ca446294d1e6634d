--------------------------------- MODULE Center ---------------------------------
(***************************************************************************)
(* The server of the command center, src/src/backend/src/server.ts: the     *)
(* WebSocket clients it knows, the state it shares with them, what it       *)
(* broadcasts to whom, its heartbeat, and the kill switch of engine.ts as    *)
(* the server drives it. The sockets modelled are those of one browser tab  *)
(* (Console.tla); the commands of other clients are external, and so is the *)
(* network, which keeps the order of a connection and may lose it.          *)
(***************************************************************************)
EXTENDS Integers, Sequences, FiniteSets

CONSTANTS
    MaxSockets,     \* bound on the connections the tab makes
    SlugOf,         \* of each tenant that can be selected, the tenant_id its socket sends
    CenterTenants,  \* the tenants of the clients that send commands
    HomeTenant,     \* "tenant-acme", the tenant of broadcastAll()
    ActionIds,      \* actions
    LiveItems,      \* what timers update: agents, roiSummary
    MaxChanges      \* bound on the changes of the shared state

ASSUME CenterAssumption ==
    /\ MaxSockets \in Nat /\ MaxChanges \in Nat /\ HomeTenant \in CenterTenants /\ "agents" \in LiveItems
    /\ "killSwitchActive" \notin ActionIds \cup LiveItems

Sockets == 1..MaxSockets

VARIABLES
    shared,     \* approval states, killSwitchActive, dowConfig and live figures
    changes,    \* how often it changed
    engine,     \* "loading", "loaded" or "mock-only"
    switch,     \* engine.killSwitch of each tenant: "CLOSED" or "OPEN"
    unbacked,   \* killSwitchActive was last set without the engine (history)
    clients,    \* clients: the sockets registered
    alive,      \* their flag `alive`
    tenantOf,   \* their tenantId
    serverEnd,  \* of each socket: "none", "open" or "closed", as the server sees it
    tabEnd,     \* of each socket: "none", "connecting", "open" or "closed", as the tab does
    wire,       \* what was sent and has not arrived, each message as the items it sets
    missed      \* the items last changed for another tenant, per socket (history)

stateVars == <<shared, changes, engine, switch, unbacked>>
socketVars == <<clients, alive, tenantOf, serverEnd, tabEnd, wire, missed>>
centerVars == <<stateVars, socketVars>>

\* What is sent to a tab that has closed is lost.
Live == {s \in Sockets : tabEnd[s] \in {"connecting", "open"}}

Items == ActionIds \cup LiveItems \cup {"killSwitchActive", "dowConfig"}
InitialShared == [i \in Items |->
    IF i \in ActionIds THEN "REQUIRE_HUMAN_APPROVAL" ELSE IF i = "killSwitchActive" THEN FALSE ELSE 0]

CenterInit ==
    /\ shared = InitialShared /\ changes = 0
    /\ engine = "loading" /\ switch = [t \in CenterTenants |-> "CLOSED"] /\ unbacked = FALSE
    /\ clients = {} /\ alive = [s \in Sockets |-> FALSE]
    /\ tenantOf = [s \in Sockets |-> "none"]
    /\ serverEnd = [s \in Sockets |-> "none"] /\ tabEnd = serverEnd
    /\ wire = [s \in Sockets |-> <<>>] /\ missed = [s \in Sockets |-> {}]

EngineLoads ==
    /\ engine = "loading" /\ engine' \in {"loaded", "mock-only"}
    /\ UNCHANGED <<shared, changes, switch, unbacked, socketVars>>

-----------------------------------------------------------------------------
(* Connections.                                                            *)
\* The client is registered and the snapshot sent in the handler of the connection.
Accept(s) ==
    /\ tabEnd[s] = "connecting" /\ serverEnd[s] = "none"
    /\ clients' = clients \cup {s}
    /\ alive' = [alive EXCEPT ![s] = TRUE]
    /\ serverEnd' = [serverEnd EXCEPT ![s] = "open"]
    /\ wire' = [wire EXCEPT ![s] = <<shared>>]
    /\ missed' = [missed EXCEPT ![s] = {}]
    /\ UNCHANGED <<tenantOf, tabEnd, stateVars>>

\* "close" and "error": when the tab has closed, or the connection is lost.
ServerLoses(s) ==
    /\ serverEnd[s] = "open"
    /\ serverEnd' = [serverEnd EXCEPT ![s] = "closed"]
    /\ clients' = clients \ {s}
    /\ UNCHANGED <<alive, tenantOf, tabEnd, wire, missed, stateVars>>

\* Every 30 s. Mutant: `alive` is not reset before the next ping.
KeptAlive(s) == TRUE
AfterPing(s) == FALSE
Heartbeat ==
    /\ clients # {}
    /\ clients' = {s \in clients : alive[s]}
    /\ serverEnd' = [s \in Sockets |-> IF s \in clients \ clients' THEN "closed" ELSE serverEnd[s]]
    /\ alive' = [s \in Sockets |-> IF s \in clients' THEN AfterPing(s) ELSE alive[s]]
    /\ UNCHANGED <<tenantOf, tabEnd, wire, missed, stateVars>>

\* A browser answers the pings of an open socket by itself.
Pong(s) ==
    /\ s \in clients /\ tabEnd[s] = "open" /\ ~alive[s]
    /\ alive' = [alive EXCEPT ![s] = TRUE]
    /\ UNCHANGED <<clients, tenantOf, serverEnd, tabEnd, wire, missed, stateVars>>

-----------------------------------------------------------------------------
(* Commands and timers. broadcast() sends to the open clients of one tenant,  *)
(* while the state that changes is that of all.                              *)
Receivers(tenant) == {s \in clients : tenantOf[s] = tenant /\ serverEnd[s] = "open"}

Broadcast(tenant, item, value) ==
    /\ changes < MaxChanges /\ changes' = changes + 1
    /\ shared' = [shared EXCEPT ![item] = value]
    /\ wire' = [s \in Sockets |-> IF s \in Receivers(tenant) \cap Live THEN Append(wire[s], [i \in {item} |-> value]) ELSE wire[s]]
    /\ missed' = [s \in Sockets |-> IF s \notin clients \/ tenantOf[s] = tenant THEN missed[s] \ {item}
                               ELSE missed[s] \cup {item}]
    /\ UNCHANGED <<engine, clients, alive, tenantOf, serverEnd, tabEnd>>

\* APPROVE_ACTION and REJECT_ACTION, and PATCH .../approve and .../reject for the home
\* tenant, whatever the state of the action.
DecideAction(tenant, a, decision) ==
    Broadcast(tenant, a, decision) /\ UNCHANGED <<switch, unbacked>>

\* Activation opens the engine's switch of the tenant, and then fails for want of a ledger.
\* Deactivation is of the flag alone.
ActivateKillSwitch(tenant) ==
    /\ Broadcast(tenant, "killSwitchActive", TRUE)
    /\ switch' = IF engine = "loaded" THEN [switch EXCEPT ![tenant] = "OPEN"] ELSE switch
    /\ unbacked' = (engine # "loaded")
DeactivateKillSwitch(tenant) ==
    Broadcast(tenant, "killSwitchActive", FALSE) /\ UNCHANGED <<switch, unbacked>>

\* PATCH /api/governance/dow, and the timers of 10 s and 30 s.
PatchDoW == Broadcast(HomeTenant, "dowConfig", shared["dowConfig"] + 1) /\ UNCHANGED <<switch, unbacked>>
LiveUpdate(item) == Broadcast(HomeTenant, item, shared[item] + 1) /\ UNCHANGED <<switch, unbacked>>

CenterNext ==
    \/ EngineLoads \/ Heartbeat \/ PatchDoW
    \/ \E item \in LiveItems : LiveUpdate(item)
    \/ \E t \in CenterTenants :
        \/ ActivateKillSwitch(t) \/ DeactivateKillSwitch(t)
        \/ \E a \in ActionIds, decision \in {"APPROVED", "REJECTED"} : DecideAction(t, a, decision)
    \/ \E s \in Sockets : Accept(s) \/ ServerLoses(s) \/ Pong(s)

-----------------------------------------------------------------------------
\* The server knows exactly the sockets it holds open.
ClientsAreOpen == clients = {s \in Sockets : serverEnd[s] = "open"}

\* The flag the consoles show is backed by a switch of the engine that forbids execution,
\* unless it was set while there was no engine; the reverse does not hold, for no command
\* closes a switch.
FlagIsBacked ==
    (shared["killSwitchActive"] /\ ~unbacked) => \E t \in CenterTenants : switch[t] = "OPEN"
=============================================================================
