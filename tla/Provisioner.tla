------------------------------ MODULE Provisioner ------------------------------
(***************************************************************************)
(* TenantProvisioningWorkflow of                                            *)
(* src/src/infrastructure/kubernetes/tenant-provisioner.ts: provision() of  *)
(* one tenant, called more than once, one call after another or             *)
(* overlapping. The Kubernetes API is external: it creates an object,       *)
(* refuses a name it has, fails before or after creating, and starts the    *)
(* pods of a deployment some time later.                                    *)
(***************************************************************************)
EXTENDS Integers, Sequences, SequencesExt

CONSTANT Attempts   \* the calls of provision()

\* The objects each step creates, one await after another.
Step1Objects == <<"namespace", "network-policy", "service-account">>
Step2Objects == <<"kafka-topics">>
Deployments == <<"auditor", "governor", "green-architect", "finance", "execution-engine">>
Step4Objects == <<"ledger-init">>
Step5Objects == <<"tenant-provisioned">>
StepObjects == <<Step1Objects, Step2Objects, Deployments, Step4Objects, Step5Objects>>

VARIABLES
    cluster,    \* the objects of the tenant that exist
    pods,       \* the deployments with a pod
    attempt     \* of each call: [phase, step, at, steps]

provisionVars == <<cluster, pods, attempt>>

ProvisionInit ==
    /\ cluster = {} /\ pods = {}
    /\ attempt = [a \in Attempts |-> [phase |-> "idle", step |-> 1, at |-> 1, steps |-> <<>>]]

Provision(a) ==
    /\ attempt[a].phase = "idle"
    /\ attempt' = [attempt EXCEPT ![a].phase = "creating"]
    /\ UNCHANGED <<cluster, pods>>

\* runStep(): a rejection is recorded as the failure of its step and ends the call.
\* Nothing that was created is deleted.
StepFails(a) ==
    attempt' = [attempt EXCEPT ![a].phase = "rejected", ![a].steps = Append(@, FALSE)]
StepAdvances(a) ==
    LET was == attempt[a]
        lastOfStep == was.at = Len(StepObjects[was.step])
    IN  attempt' = [attempt EXCEPT ![a] =
            [phase |-> IF ~lastOfStep THEN "creating"
                       ELSE IF was.step = Len(StepObjects) THEN "resolved"
                       ELSE IF was.step + 1 = Len(StepObjects) THEN "listing" ELSE "creating",
             step |-> IF lastOfStep /\ was.step < Len(StepObjects) THEN was.step + 1 ELSE was.step,
             at |-> IF lastOfStep THEN 1 ELSE was.at + 1,
             steps |-> IF lastOfStep THEN Append(was.steps, TRUE) ELSE was.steps]]

\* A create call. Mutant: a name that is taken counts as created.
CreateIfMissing(a) ==
    /\ attempt[a].phase = "creating"
    /\ cluster' = cluster \cup {StepObjects[attempt[a].step][attempt[a].at]}
    /\ StepAdvances(a) /\ UNCHANGED pods
CreateObject(a) ==
    /\ attempt[a].phase = "creating"
    /\ LET object == StepObjects[attempt[a].step][attempt[a].at]
       IN  \/ /\ object \notin cluster
              /\ cluster' = cluster \cup {object}
              /\ StepAdvances(a)
           \/ /\ cluster' \in {cluster, cluster \cup {object}}
              /\ StepFails(a)
    /\ UNCHANGED pods

\* step5: the pods of the namespace are listed, and there has to be one.
ListPods(a) ==
    /\ attempt[a].phase = "listing"
    /\ \/ /\ pods # {}
          /\ attempt' = [attempt EXCEPT ![a].phase = "creating"]
       \/ StepFails(a)
    /\ UNCHANGED <<cluster, pods>>

PodScheduled ==
    /\ \E d \in ToSet(Deployments) \cap cluster : pods' = pods \cup {d}
    /\ UNCHANGED <<cluster, attempt>>

ProvisionNext ==
    \/ \E a \in Attempts : Provision(a) \/ CreateObject(a) \/ ListPods(a)
    \/ PodScheduled

-----------------------------------------------------------------------------
AllObjects == UNION {ToSet(StepObjects[i]) : i \in 1..Len(StepObjects)}
ObjectsBefore(step) == UNION {ToSet(StepObjects[i]) : i \in 1..(step - 1)}

ProvisionTypeOK ==
    /\ cluster \subseteq AllObjects /\ pods \subseteq ToSet(Deployments)
    /\ \A a \in Attempts : attempt[a].step \in 1..Len(StepObjects) /\ attempt[a].steps \in Seq(BOOLEAN)

\* No agent runs in a namespace before the policy that isolates it and its account exist,
\* whatever failed and was tried again.
PodsAreIsolated == pods # {} => {"namespace", "network-policy", "service-account"} \subseteq cluster

\* The tenant counts as provisioned only with everything in place, and a call resolves
\* only when it did every step itself.
ProvisionedIsComplete ==
    /\ "tenant-provisioned" \in cluster => cluster = AllObjects /\ pods # {}
    /\ \A a \in Attempts :
        /\ attempt[a].phase = "resolved" => cluster = AllObjects /\ attempt[a].steps = <<TRUE, TRUE, TRUE, TRUE, TRUE>>
        /\ attempt[a].phase \in {"creating", "listing"} => ObjectsBefore(attempt[a].step) \subseteq cluster

\* One call provisions the tenant: once the namespace exists every other call fails at its
\* first step, also when the call that created it failed half-way.
OneAttemptProvisions ==
    \A a, b \in Attempts : a # b => ~(attempt[a].step > 1 /\ attempt[b].step > 1)

\* The provisioning of a tenant.
ProvisionInv == ProvisionTypeOK /\ PodsAreIsolated /\ ProvisionedIsComplete /\ OneAttemptProvisions

=============================================================================
