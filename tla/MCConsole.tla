------------------------------- MODULE MCConsole -------------------------------
(* The tab and the server, with two tenants to select and commands from the  *)
(* clients of one of them and of the home tenant. One part of the system      *)
(* moves at a time: sign-ins that overlap, against a server that only         *)
(* accepts; the commands and the engine, without a tab; the commands and the  *)
(* edits, with a tab that signs in with Google and makes one connection less; *)
(* the heartbeat, with such a tab.                                            *)
EXTENDS Console, TLC
VARIABLE part

slugOf == "ACME Corp" :> "acme-corp" @@ "Globex Industries" :> "globex-industries"
centerTenants == {"acme-corp", "tenant-acme"}

MCInit == ConsoleInit /\ part \in {"session", "engine", "commands", "heartbeat"}

Idle == UNCHANGED <<sessionVars, hookVars, storeVars>>
OneSignIn == (auth = FALSE /\ pending = {} /\ BeginGoogle) \/ SignInSucceeds("google")
TabCommands ==
    \/ LiveUpdate("agents")
    \/ ActivateKillSwitch("acme-corp") \/ DeactivateKillSwitch("acme-corp")
    \/ DecideAction("tenant-acme", "act-003", "APPROVED")
MCNext ==
    /\ UNCHANGED part
    /\ \/ part = "session" /\ (SessionNext \/ HookNext \/ \E s \in Sockets : Accept(s) /\ Idle)
       \/ part = "engine" /\ ServerNext
       \/ part = "commands" /\ \/ OneSignIn \/ SignOut \/ HookNext \/ EditNext
                               \/ (TabCommands \/ \E s \in Sockets : Accept(s) \/ ServerLoses(s)) /\ Idle
                            /\ tabEnd'[MaxSockets] = "none"
       \/ part = "heartbeat" /\ \/ OneSignIn \/ SignOut \/ HookNext
                                \/ (Heartbeat \/ \E s \in Sockets : Accept(s) \/ ServerLoses(s) \/ Pong(s)) /\ Idle
MCSpec == MCInit /\ [][MCNext]_<<consoleVars, part>> /\ ConsoleFairness
=============================================================================
