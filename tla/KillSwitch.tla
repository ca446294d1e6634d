----------------------------- MODULE KillSwitch -----------------------------
(***************************************************************************)
(* KillSwitchCircuitBreaker of src/src/agents/governor/kill-switch.ts: a   *)
(* circuit per tenant and the asynchronous calls that trip it.             *)
(*                                                                         *)
(* activate() runs synchronously up to its first await, and then from one  *)
(* await to the next, so one action of this module is one such stretch.    *)
(* Any number of calls are suspended at the same time, for the same tenant *)
(* or for others, while administrators reset and close the circuit.        *)
(*                                                                         *)
(* Time is one bit per call: whether the five seconds that confirmHalt()   *)
(* waits for have passed.                                                  *)
(***************************************************************************)
EXTENDS FiniteSets

CONSTANTS
    Tenants,    \* the tenants of the platform
    Agents,     \* the agents an activation can be asked to halt
    Calls,      \* the calls of activate() that are ever made
    Admins,     \* those who reset and close circuits (the callers are external)
    None,       \* stands for undefined
    Faults,     \* the dependencies that may reject
    Hanging     \* the agents whose status poll never settles

Dependencies == {"publishKillSwitch", "writeLedger", "pollAgentHalt", "notifyAdmins"}

ASSUME NoneAssumption == None \notin Calls \cup Tenants
ASSUME FaultsAssumption == Faults \subseteq Dependencies
ASSUME HangingAssumption == Hanging \subseteq Agents

VARIABLES
    state,          \* states: the circuit of each tenant
    activation,     \* activations: the call that last tripped each circuit
    at,             \* the await each call is suspended at, or how it ended
    tenantOf,       \* the argument tenantId of each call
    agentsOf,       \* the argument agentIds of each call
    polling,        \* the agents whose poll of the current round is pending
    confirmed,      \* the agents deleted from the set unconfirmed
    expired,        \* Date.now() has reached the deadline of the call
    published,      \* the calls whose event is on governance.kill_switch
    ledger,         \* the calls whose entry is in the Liquid_Ledger
    reported,       \* the agents each call has named to the administrators
    verifying,      \* the activation whose recovery each administrator verifies
    acknowledged    \* history: the activation the last reset of a tenant saw

breaker == <<state, activation>>
call == <<at, tenantOf, agentsOf, polling, confirmed, expired>>
effects == <<published, ledger, reported>>
admin == <<verifying, acknowledged>>
vars == <<state, activation, at, tenantOf, agentsOf, polling, confirmed,
          expired, published, ledger, reported, verifying, acknowledged>>

CircuitState == {"CLOSED", "OPEN", "HALF_OPEN"}
Awaits == {"publish", "ledger", "poll", "sleep", "notify"}
Ended == {"resolved", "rejected"}

TypeOK ==
    /\ state \in [Tenants -> CircuitState]
    /\ activation \in [Tenants -> Calls \cup {None}]
    /\ at \in [Calls -> {"idle"} \cup Awaits \cup Ended]
    /\ tenantOf \in [Calls -> Tenants \cup {None}]
    /\ agentsOf \in [Calls -> SUBSET Agents]
    /\ polling \in [Calls -> SUBSET Agents]
    /\ confirmed \in [Calls -> SUBSET Agents]
    /\ expired \in [Calls -> BOOLEAN]
    /\ published \subseteq Calls
    /\ ledger \subseteq Calls
    /\ reported \in [Calls -> SUBSET Agents]
    /\ verifying \in [Admins -> Calls \cup {None}]
    /\ acknowledged \in [Tenants -> Calls \cup {None}]

Init ==
    /\ state = [t \in Tenants |-> "CLOSED"]
    /\ activation = [t \in Tenants |-> None]
    /\ at = [c \in Calls |-> "idle"]
    /\ tenantOf = [c \in Calls |-> None]
    /\ agentsOf = [c \in Calls |-> {}]
    /\ polling = [c \in Calls |-> {}]
    /\ confirmed = [c \in Calls |-> {}]
    /\ expired = [c \in Calls |-> FALSE]
    /\ published = {}
    /\ ledger = {}
    /\ reported = [c \in Calls |-> {}]
    /\ verifying = [m \in Admins |-> None]
    /\ acknowledged = [t \in Tenants |-> None]

\* The agents that remain in the set unconfirmed of the call. Mutant: none is
\* deleted from it.
AllAgents(c) == agentsOf[c]
Unconfirmed(c) == agentsOf[c] \ confirmed[c]

\* An unhandled rejection of an awaited dependency abandons the rest of the call.
\* Mutant: that of the publication is caught.
RejectUnlessPublish(c, dependency) ==
    /\ dependency \in Faults
    /\ at' = [at EXCEPT ![c] = IF @ = "publish" THEN "ledger" ELSE "rejected"]

Reject(c, dependency) ==
    /\ dependency \in Faults
    /\ at' = [at EXCEPT ![c] = "rejected"]

-----------------------------------------------------------------------------
(* activate(): the circuit opens before anything is awaited, whatever its  *)
(* state. Mutants: only a closed one opens; the state is none of the three.*)
OpenIfClosed(s) == IF s = "CLOSED" THEN "OPEN" ELSE s
OpenAsHalted(s) == "HALTED"
Opened(s) == "OPEN"

Activate(c, t, as) ==
    /\ at[c] = "idle"
    /\ state' = [state EXCEPT ![t] = Opened(@)]
    /\ activation' = [activation EXCEPT ![t] = c]
    /\ tenantOf' = [tenantOf EXCEPT ![c] = t]
    /\ agentsOf' = [agentsOf EXCEPT ![c] = as]
    /\ at' = [at EXCEPT ![c] = "publish"]
    /\ UNCHANGED <<polling, confirmed, expired, effects, admin>>

Publish(c) ==
    /\ at[c] = "publish"
    /\ published' = published \cup {c}
    /\ at' = [at EXCEPT ![c] = "ledger"]
    /\ UNCHANGED <<breaker, tenantOf, agentsOf, polling, confirmed, expired,
                   ledger, reported, admin>>

\* The broker may have stored the event that it failed to acknowledge.
PublishRejects(c) ==
    /\ at[c] = "publish"
    /\ Reject(c, "publishKillSwitch")
    /\ published' \in {published, published \cup {c}}
    /\ UNCHANGED <<breaker, tenantOf, agentsOf, polling, confirmed, expired,
                   ledger, reported, admin>>

\* With agents to wait for, confirmHalt() starts the first round of polls.
WriteLedger(c) ==
    /\ at[c] = "ledger"
    /\ ledger' = ledger \cup {c}
    /\ at' = [at EXCEPT ![c] = IF agentsOf[c] = {} THEN "resolved" ELSE "poll"]
    /\ polling' = [polling EXCEPT ![c] = agentsOf[c]]
    /\ UNCHANGED <<breaker, tenantOf, agentsOf, confirmed, expired,
                   published, reported, admin>>

WriteLedgerRejects(c) ==
    /\ at[c] = "ledger"
    /\ Reject(c, "writeLedger")
    /\ ledger' \in {ledger, ledger \cup {c}}
    /\ UNCHANGED <<breaker, tenantOf, agentsOf, polling, confirmed, expired,
                   published, reported, admin>>

-----------------------------------------------------------------------------
(* confirmHalt(): rounds of parallel polls, 200 ms apart, up to the        *)
(* deadline, which is read between two rounds and never during one.        *)
PollAnswers(c, a, halted) ==
    /\ at[c] = "poll"
    /\ a \in polling[c] \ Hanging
    /\ polling' = [polling EXCEPT ![c] = @ \ {a}]
    /\ confirmed' = [confirmed EXCEPT ![c] = IF halted THEN @ \cup {a} ELSE @]
    /\ \/ /\ polling'[c] # {}
          /\ UNCHANGED at
       \/ /\ polling'[c] = {}
          /\ at' = [at EXCEPT ![c] = IF agentsOf[c] \subseteq confirmed'[c]
                                     THEN "resolved" ELSE "sleep"]
    /\ UNCHANGED <<breaker, tenantOf, agentsOf, expired, effects, admin>>

\* Promise.all() rejects with the first poll that does.
PollRejects(c, a) ==
    /\ at[c] = "poll"
    /\ a \in polling[c] \ Hanging
    /\ Reject(c, "pollAgentHalt")
    /\ polling' = [polling EXCEPT ![c] = {}]
    /\ UNCHANGED <<breaker, tenantOf, agentsOf, confirmed, expired, effects, admin>>

DeadlinePasses(c) ==
    /\ at[c] \in {"poll", "sleep"}
    /\ ~expired[c]
    /\ expired' = [expired EXCEPT ![c] = TRUE]
    /\ UNCHANGED <<breaker, at, tenantOf, agentsOf, polling, confirmed, effects, admin>>

\* The condition and the end of the loop. Mutants: the deadline is not read; the
\* call resolves without the escalation.
NeverOver(c) == FALSE
WaitIsOver(c) == expired[c]

NoEscalation == "resolved"
Escalation == "notify"

\* The timer of 200 ms fires: another round, or the escalation.
Wake(c) ==
    /\ at[c] = "sleep"
    /\ \/ /\ ~WaitIsOver(c)
          /\ polling' = [polling EXCEPT ![c] = Unconfirmed(c)]
          /\ at' = [at EXCEPT ![c] = "poll"]
       \/ /\ WaitIsOver(c)
          /\ at' = [at EXCEPT ![c] = Escalation]
          /\ UNCHANGED polling
    /\ UNCHANGED <<breaker, tenantOf, agentsOf, confirmed, expired, effects, admin>>

Notify(c) ==
    /\ at[c] = "notify"
    /\ reported' = [reported EXCEPT ![c] = Unconfirmed(c)]
    /\ at' = [at EXCEPT ![c] = "resolved"]
    /\ UNCHANGED <<breaker, tenantOf, agentsOf, polling, confirmed, expired,
                   published, ledger, admin>>

NotifyRejects(c) ==
    /\ at[c] = "notify"
    /\ Reject(c, "notifyAdmins")
    /\ reported' \in {reported, [reported EXCEPT ![c] = Unconfirmed(c)]}
    /\ UNCHANGED <<breaker, tenantOf, agentsOf, polling, confirmed, expired,
                   published, ledger, admin>>

-----------------------------------------------------------------------------
(* reset() throws unless the circuit is OPEN and close() unless it is      *)
(* HALF_OPEN. The comment on close() asks its caller for a verification    *)
(* of the agents' health first: an administrator resets, verifies for as   *)
(* long as it takes, and closes or gives up.                               *)

\* The check of close(). Mutant: there is none.
AlwaysClosable(t) == TRUE
Closable(t) == state[t] = "HALF_OPEN"

Reset(m, t) ==
    /\ verifying[m] = None
    /\ state[t] = "OPEN"
    /\ state' = [state EXCEPT ![t] = "HALF_OPEN"]
    /\ verifying' = [verifying EXCEPT ![m] = activation[t]]
    /\ acknowledged' = [acknowledged EXCEPT ![t] = activation[t]]
    /\ UNCHANGED <<activation, call, effects>>

Close(m) ==
    /\ verifying[m] # None
    /\ Closable(tenantOf[verifying[m]])
    /\ state' = [state EXCEPT ![tenantOf[verifying[m]]] = "CLOSED"]
    /\ verifying' = [verifying EXCEPT ![m] = None]
    /\ UNCHANGED <<activation, call, effects, acknowledged>>

\* The verification fails, or close() throws.
GiveUp(m) ==
    /\ verifying[m] # None
    /\ verifying' = [verifying EXCEPT ![m] = None]
    /\ UNCHANGED <<breaker, call, effects, acknowledged>>

-----------------------------------------------------------------------------
CallStep(c) ==
    \/ Publish(c) \/ PublishRejects(c)
    \/ WriteLedger(c) \/ WriteLedgerRejects(c)
    \/ \E a \in Agents, halted \in BOOLEAN : PollAnswers(c, a, halted)
    \/ \E a \in Agents : PollRejects(c, a)
    \/ DeadlinePasses(c)
    \/ Wake(c)
    \/ Notify(c) \/ NotifyRejects(c)

AdminStep(m) ==
    \/ \E t \in Tenants : Reset(m, t)
    \/ Close(m)
    \/ GiveUp(m)

Next ==
    \/ \E c \in Calls, t \in Tenants, as \in SUBSET Agents : Activate(c, t, as)
    \/ \E c \in Calls : CallStep(c)
    \/ \E m \in Admins : AdminStep(m)

Spec == Init /\ [][Next]_vars

\* Timers fire, and every dependency that does not hang settles. Nobody is
\* obliged to activate, reset or close.
Fairness ==
    \A c \in Calls :
        /\ WF_vars(Publish(c) \/ PublishRejects(c))
        /\ WF_vars(WriteLedger(c) \/ WriteLedgerRejects(c))
        /\ \A a \in Agents :
               WF_vars(PollRejects(c, a) \/ \E halted \in BOOLEAN : PollAnswers(c, a, halted))
        /\ WF_vars(DeadlinePasses(c))
        /\ WF_vars(Wake(c))
        /\ WF_vars(Notify(c) \/ NotifyRejects(c))

FairSpec == Spec /\ Fairness

-----------------------------------------------------------------------------
(* Whatever its dependencies do, a tenant's circuit leaves OPEN only for a *)
(* reset that came after its latest activation: no failure, overlap of     *)
(* calls or late answer re-enables execution.                              *)
FailSafe ==
    \A t \in Tenants : state[t] # "OPEN" => acknowledged[t] = activation[t]

(* A call of activate() that resolves has published the halt event, has    *)
(* recorded the activation, and has accounted for every agent it was given:*)
(* the agent confirmed its halt or was named to the administrators.        *)
ResolvedIsAccounted ==
    \A c \in Calls : at[c] = "resolved" =>
        /\ c \in published \cap ledger
        /\ Unconfirmed(c) \subseteq reported[c]

(* The ledger never claims an activation whose halt event is not on the    *)
(* topic the agents listen to.                                             *)
RecordedIsPublished == ledger \subseteq published

(* Administrators are told only of agents that failed to confirm during    *)
(* the whole of the five seconds.                                          *)
EscalationIsTrue ==
    \A c \in Calls : reported[c] # {} =>
        expired[c] /\ reported[c] \cap confirmed[c] = {}

(* A circuit closes only on a verification that began after the tenant's   *)
(* latest activation. It needs a single administrator: close() does not    *)
(* say which HALF_OPEN it completes.                                       *)
CloseIsVerified ==
    [][\A t \in Tenants : state[t] # "CLOSED" /\ state'[t] = "CLOSED" =>
           \E m \in Admins : verifying[m] = activation[t] /\ verifying'[m] = None]_vars

(* Every call of activate() ends, in a resolution or a rejection.          *)
ActivationEnds ==
    \A c \in Calls : at[c] = "publish" ~> at[c] \in Ended

-----------------------------------------------------------------------------
(* "Escalates if any agent does not confirm within 5s": an agent that has  *)
(* not confirmed by then confirms late or is reported. Not when the poll of*)
(* some agent hangs, for the deadline is not read until the whole round of *)
(* polls has settled (nor when one rejects, which ends the call).          *)
UnconfirmedIsReported ==
    \A c \in Calls, a \in Agents :
        (expired[c] /\ a \in Unconfirmed(c)) ~> a \in confirmed[c] \cup reported[c]
=============================================================================
