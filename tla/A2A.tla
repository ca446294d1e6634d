---------------------------------- MODULE A2A ----------------------------------
(***************************************************************************)
(* A2AHandler and A2ACoordinator of src/src/protocols/a2a/handler.ts:      *)
(* signed messages between agents, trust negotiation, and the coordination *)
(* of a request. The network is external: it delivers every message to     *)
(* anybody, any number of times, with every field of it changed; only the  *)
(* signature it carries was made by a handler that knows a secret.         *)
(***************************************************************************)
EXTENDS Integers, FiniteSets, Sequences

CONSTANTS
    A2AHandlers,    \* the handlers [agent_id, tenant_id, secret]
    A2ACards,       \* the cards [agent_id, tenant_id, trust_level] presented to them
    A2ATenants,
    A2ATasks,       \* task types
    Payloads,
    MaxMessages     \* bound on the messages sent, those of coordinations included

VARIABLES
    sent,           \* the messages as they were signed
    accepted,       \* what receive() last returned: [by, message]
    trustedAgents,  \* of each handler: the cards of its Map, by agent_id
    handlers,       \* the coordinator's Map: [name, handler]
    response        \* the last answer of coordinate(), with its request

a2aVars == <<sent, accepted, trustedAgents, handlers, response>>

AgentNames == {h.agent_id : h \in A2AHandlers}
NoMessage == [by |-> "nobody"]
NoResponse == [error |-> "no request"]
Request == [from_agent : AgentNames, to_agent : AgentNames, tenant_id : A2ATenants,
            task_type : A2ATasks, payload : Payloads]

(* sign(): JSON.stringify() with the message's own field names as the list *)
(* of properties to keep, so of the payload only an object without fields  *)
(* is left in the canonical form. The HMAC is the pair of secret and form. *)
Canonical(m) == <<m.message_id, m.from_agent, m.to_agent, m.tenant_id, m.task_type>>
Signature(secret, m) == [secret |-> secret, of |-> Canonical(m)]

A2AInit ==
    /\ sent = {} /\ accepted = NoMessage /\ handlers = {} /\ response = NoResponse
    /\ trustedAgents = [h \in A2AHandlers |-> {}]

-----------------------------------------------------------------------------
\* The sender of a message is the handler's card, whatever the request says.
Message(h, request) ==
    LET id == Cardinality(sent)
        form == <<id, h.agent_id, request.to_agent, request.tenant_id, request.task_type>>
    IN  [message_id |-> id, from_agent |-> h.agent_id, to_agent |-> request.to_agent,
         tenant_id |-> request.tenant_id, task_type |-> request.task_type,
         payload |-> request.payload, valid |-> TRUE,
         signature |-> [secret |-> h.secret, of |-> form]]

Send(h, request) ==
    /\ Cardinality(sent) < MaxMessages
    /\ sent' = sent \cup {Message(h, request)}
    /\ UNCHANGED <<accepted, trustedAgents, handlers, response>>

\* delegate() sends for the handler's own tenant.
Delegate(h, to, task, payload) ==
    Send(h, [to_agent |-> to, tenant_id |-> h.tenant_id, task_type |-> task, payload |-> payload])

\* receive(). Mutant: without the signature.
VerdictUnsigned(h, m) ==
    IF ~m.valid THEN "schema" ELSE IF m.tenant_id # h.tenant_id THEN "tenant" ELSE "ok"
Verdict(h, m) ==
    IF ~m.valid THEN "schema"
    ELSE IF m.tenant_id # h.tenant_id THEN "tenant"
    ELSE IF m.signature # Signature(h.secret, m) THEN "signature"
    ELSE "ok"

(* A message arrives under the signature of m, with any other fields       *)
(* (valid: it is JSON and has every field).                                *)
Receive(h, m) ==
    \E id \in 0..(MaxMessages - 1), from, to \in AgentNames, tenant \in A2ATenants,
       task \in A2ATasks, payload \in Payloads, valid \in BOOLEAN :
        LET arrived == [message_id |-> id, from_agent |-> from, to_agent |-> to,
                        tenant_id |-> tenant, task_type |-> task, payload |-> payload,
                        valid |-> valid, signature |-> m.signature]
        IN  /\ accepted' = IF Verdict(h, arrived) = "ok" THEN [by |-> h, message |-> arrived]
                                                        ELSE NoMessage
            /\ UNCHANGED <<sent, trustedAgents, handlers, response>>

-----------------------------------------------------------------------------
\* negotiate()
Acceptable(h, card) == card.tenant_id = h.tenant_id \/ card.trust_level = "platform-trusted"

\* A card that is refused leaves an earlier card of the same agent where it is.
Negotiate(h, card) ==
    /\ trustedAgents' =
           IF Acceptable(h, card)
           THEN [trustedAgents EXCEPT ![h] = {c \in @ : c.agent_id # card.agent_id} \cup {card}]
           ELSE trustedAgents
    /\ UNCHANGED <<sent, accepted, handlers, response>>

-----------------------------------------------------------------------------
RegisterHandler(name, h) ==
    /\ handlers' = {x \in handlers : x.name # name} \cup {[name |-> name, handler |-> h]}
    /\ UNCHANGED <<sent, accepted, trustedAgents, response>>

(* coordinate(): deliver() settles before the timer of two seconds can, for *)
(* it only verifies the message. Its serialized form is read back unchanged.*)
Coordinate(request) ==
    LET registered(name) == {x.handler : x \in {y \in handlers : y.name = name}}
        answer(error, of) == response' =
            [request |-> request, success |-> error = "none", error |-> error, of |-> of]
    IN  /\ \/ /\ registered(request.from_agent) = {}
              /\ answer("Sender agent not registered", <<>>)
              /\ UNCHANGED <<sent, accepted>>
           \/ /\ registered(request.from_agent) # {} /\ registered(request.to_agent) = {}
              /\ answer("Target agent not registered", <<>>)
              /\ UNCHANGED <<sent, accepted>>
           \/ /\ Cardinality(sent) < MaxMessages
              /\ \E from \in registered(request.from_agent), to \in registered(request.to_agent) :
                     LET m == Message(from, request)
                         ok == Verdict(to, m) = "ok"
                     IN  /\ answer(IF ok THEN "none" ELSE Verdict(to, m), <<from, to>>)
                         /\ sent' = sent \cup {m}
                         /\ accepted' = IF ok THEN [by |-> to, message |-> m] ELSE NoMessage
        /\ UNCHANGED <<trustedAgents, handlers>>

\* Messages, trust and coordination have no state in common but `sent`.
A2AMessageNext ==
    \/ \E h \in A2AHandlers : \/ \E request \in Request : Send(h, request)
                              \/ \E to \in AgentNames, task \in A2ATasks, payload \in Payloads :
                                     Delegate(h, to, task, payload)
                              \/ \E m \in sent : Receive(h, m)

A2ATrustNext == \E h \in A2AHandlers, card \in A2ACards : Negotiate(h, card)

A2ACoordinationNext ==
    \/ \E name \in AgentNames, h \in A2AHandlers : RegisterHandler(name, h)
    \/ \E request \in Request : Coordinate(request)

A2ANext == A2AMessageNext \/ A2ATrustNext \/ A2ACoordinationNext

A2ASpec == A2AInit /\ [][A2ANext]_a2aVars

-----------------------------------------------------------------------------
A2ATypeOK ==
    /\ \A m \in sent : m.valid /\ m.message_id < MaxMessages
    /\ accepted # NoMessage => accepted.by \in A2AHandlers /\ accepted.message.valid
    /\ \A h \in A2AHandlers : \A c, d \in trustedAgents[h] : c.agent_id = d.agent_id => c = d

(* However messages are changed, repeated and misdelivered, what a handler *)
(* accepts is, apart from the payload, a message that was signed for its   *)
(* tenant by a handler with the same secret.                               *)
AcceptedWasSigned ==
    accepted # NoMessage => \E m \in sent :
        /\ Canonical(m) = Canonical(accepted.message)
        /\ m.signature.secret = accepted.by.secret /\ m.tenant_id = accepted.by.tenant_id

(* A request is answered with success exactly when its target is of the    *)
(* tenant named in the request and shares the sender's secret, whatever    *)
(* handlers are registered under whatever names.                           *)
SuccessIsDelivery ==
    response # NoResponse => (response.success <=>
        /\ response.of # <<>> /\ response.of[2].tenant_id = response.request.tenant_id
        /\ response.of[1].secret = response.of[2].secret)

(* An agent of another tenant is trusted only by a card that carries the   *)
(* administrator's grant, whatever cards it presented before and after.    *)
TrustHasGround ==
    \A h \in A2AHandlers : \A c \in trustedAgents[h] :
        c.tenant_id = h.tenant_id \/ c.trust_level = "platform-trusted"

(* What always holds of messages, trust and coordination.                  *)
A2AInv ==
    A2ATypeOK /\ AcceptedWasSigned /\ SuccessIsDelivery /\ TrustHasGround
=============================================================================
