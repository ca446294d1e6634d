--------------------------- MODULE DowProtection ---------------------------
(***************************************************************************)
(* DoWAccumulator of src/src/agents/governor/dow-protection.ts together    *)
(* with the kill-switch that it trips: spend is added to hourly buckets,   *)
(* and a call of add() that finds the rolling sum above the limit activates*)
(* the kill-switch of the tenant and then notifies the administrators.     *)
(*                                                                         *)
(* add() calls activateKillSwitch() before it awaits anything, and         *)
(* activate() opens the circuit before it awaits anything, so a spend and  *)
(* the opening of the circuit are one step. Who passes the dependency of   *)
(* the one to the other is outside the repository; the activation names no *)
(* agents, for the dependency has no parameter for them.                   *)
(***************************************************************************)
EXTENDS KillSwitch, Integers, FiniteSetsExt

CONSTANTS
    Window,         \* buckets that are summed (24 in the code)
    TicksPerHour,   \* the moments of an hour that are told apart
    LastTick,       \* bound on the moments
    Amounts,        \* what a call can add
    Limit           \* config.dow_protection_limit_usd

ASSUME WindowAssumption == Window \in Nat \ {0} /\ TicksPerHour \in Nat \ {0}
ASSUME SpendAssumption == LastTick \in Nat /\ Limit \in Nat /\ Amounts \subseteq Nat

VARIABLES
    tick,       \* the present moment
    buckets,    \* buckets: what each tenant spent in each hour
    adding,     \* the await each call of add() is suspended at, or how it ended
    exceeded,   \* the calls of add() that found limitExceeded
    told,       \* the exceeding calls the administrators were notified of
    spentAt,    \* history: what each tenant spent at each moment
    since       \* history: the tenants that spent since their last reset()

spend == <<buckets, spentAt>>
adder == <<adding, exceeded, told>>
dowVars == <<tick, buckets, adding, exceeded, told, spentAt, since>>
allVars == <<vars, dowVars>>

Ticks == 0..LastTick
Hour(n) == n \div TicksPerHour
Hours == 0..Hour(LastTick)

Total(f, S) == MapThenSumSet(LAMBDA n : f[n], S)

\* Mutant: one bucket too many.
RollingSumOneMore(t) ==
    Total(buckets[t], {h \in Hours : h <= Hour(tick) /\ h >= Hour(tick) - Window})

\* rollingSum(): the last Window buckets, that of the present hour included.
RollingSum(t) ==
    Total(buckets[t], {h \in Hours : h <= Hour(tick) /\ h > Hour(tick) - Window})

DowInit ==
    /\ Init
    /\ tick = 0
    /\ buckets = [t \in Tenants |-> [h \in Hours |-> 0]]
    /\ adding = [c \in Calls |-> "idle"]
    /\ exceeded = {}
    /\ told = {}
    /\ spentAt = [t \in Tenants |-> [n \in Ticks |-> 0]]
    /\ since = {}

-----------------------------------------------------------------------------
\* The sum that add() compares, after it has added. Mutant: before it.
SumBefore(t) == RollingSum(t)
SumAfter(t) == RollingSum(t)'

\* The calls that return limitExceeded. Mutant: none does.
NeverExceeded(c) == exceeded
WithExceeded(c) == exceeded \cup {c}

(* add(): the bucket, the sum and, above the limit, the activation.        *)
Add(c, t, amount) ==
    /\ at[c] = "idle" /\ adding[c] = "idle"
    /\ buckets' = [buckets EXCEPT ![t][Hour(tick)] = @ + amount]
    /\ spentAt' = [spentAt EXCEPT ![t][tick] = @ + amount]
    /\ since' = since \cup {t}
    /\ UNCHANGED <<tick, told>>
    /\ \/ /\ SumAfter(t) > Limit
          /\ Activate(c, t, {})
          /\ exceeded' = WithExceeded(c)
          /\ adding' = [adding EXCEPT ![c] = "activate"]
       \/ /\ SumAfter(t) <= Limit
          /\ adding' = [adding EXCEPT ![c] = "resolved"]
          /\ UNCHANGED <<vars, exceeded>>

\* Mutant: a rejection is caught.
ActivationRejectionCaught(c) ==
    /\ adding[c] = "activate"
    /\ at[c] \in Ended
    /\ adding' = [adding EXCEPT ![c] = "notify"]
    /\ UNCHANGED <<vars, tick, spend, exceeded, told, since>>

\* The awaited activation settles; a rejection skips the notification.
ActivationSettles(c) ==
    /\ adding[c] = "activate"
    /\ at[c] \in Ended
    /\ adding' = [adding EXCEPT ![c] = IF at[c] = "resolved" THEN "notify" ELSE "rejected"]
    /\ UNCHANGED <<vars, tick, spend, exceeded, told, since>>

NotifyLimit(c) ==
    /\ adding[c] = "notify"
    /\ told' = told \cup {c}
    /\ adding' = [adding EXCEPT ![c] = "resolved"]
    /\ UNCHANGED <<vars, tick, spend, exceeded, since>>

NotifyLimitRejects(c) ==
    /\ adding[c] = "notify"
    /\ "notifyAdmins" \in Faults
    /\ told' \in {told, told \cup {c}}
    /\ adding' = [adding EXCEPT ![c] = "rejected"]
    /\ UNCHANGED <<vars, tick, spend, exceeded, since>>

\* reset() of the accumulator forgets every bucket of the tenant.
ResetBuckets(t) ==
    /\ buckets' = [buckets EXCEPT ![t] = [h \in Hours |-> 0]]
    /\ spentAt' = [spentAt EXCEPT ![t] = [n \in Ticks |-> 0]]
    /\ UNCHANGED <<vars, tick, adder, since>>

-----------------------------------------------------------------------------
TimePasses ==
    /\ tick < LastTick
    /\ tick' = tick + 1
    /\ UNCHANGED <<vars, spend, adder, since>>

\* An operator trips the kill-switch by hand.
ActivateByHand(c, t, as) ==
    /\ adding[c] = "idle"
    /\ Activate(c, t, as)
    /\ UNCHANGED dowVars

\* Administrators reset and close the circuit as in KillSwitch.
AdminActs(m) ==
    \/ \E t \in Tenants : Reset(m, t) /\ since' = since \ {t}
                                      /\ UNCHANGED <<tick, spend, adder>>
    \/ (Close(m) \/ GiveUp(m)) /\ UNCHANGED dowVars

DowNext ==
    \/ \E c \in Calls, t \in Tenants, amount \in Amounts : Add(c, t, amount)
    \/ \E c \in Calls : ActivationSettles(c) \/ NotifyLimit(c) \/ NotifyLimitRejects(c)
    \/ \E t \in Tenants : ResetBuckets(t)
    \/ TimePasses
    \/ \E c \in Calls, t \in Tenants, as \in SUBSET Agents : ActivateByHand(c, t, as)
    \/ \E c \in Calls : CallStep(c) /\ UNCHANGED dowVars
    \/ \E m \in Admins : AdminActs(m)

DowSpec == DowInit /\ [][DowNext]_allVars

-----------------------------------------------------------------------------
DowTypeOK ==
    /\ TypeOK
    /\ tick \in Ticks
    /\ buckets \in [Tenants -> [Hours -> Nat]]
    /\ adding \in [Calls -> {"idle", "activate", "notify"} \cup Ended]
    /\ exceeded \subseteq Calls /\ told \subseteq exceeded
    /\ spentAt \in [Tenants -> [Ticks -> Nat]]
    /\ since \subseteq Tenants

(* Property 15 of the design: while the rolling sum of a tenant is above   *)
(* its limit, execution is stopped, unless an administrator re-enabled it  *)
(* after the tenant's latest spend. No failure of a dependency, no other   *)
(* activation and no passing of time opens a gap.                          *)
OverLimitIsStopped ==
    \A t \in Tenants :
        (RollingSum(t) > Limit /\ t \in since) => state[t] = "OPEN"

(* A call of add() that resolves above the limit has tripped the switch,   *)
(* recorded it and told the administrators.                                *)
ExceededIsReported ==
    \A c \in exceeded : adding[c] = "resolved" => c \in told \cap published \cap ledger

(* The hourly buckets never count more than the last 24 hours, and never   *)
(* less than the last 23 of them.                                          *)
WindowIsBounded ==
    \A t \in Tenants :
        LET Last(hours) ==
                Total(spentAt[t], {n \in Ticks : n <= tick /\ n > tick - hours * TicksPerHour})
        IN  Last(Window - 1) <= RollingSum(t) /\ RollingSum(t) <= Last(Window)
=============================================================================
