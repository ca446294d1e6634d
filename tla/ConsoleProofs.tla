---------------------------- MODULE ConsoleProofs ----------------------------
(***************************************************************************)
(* Proofs about the command center: one browser tab against the server, for *)
(* any number of connections it makes, of tenants, actions, live figures,   *)
(* commands and edits.                                                     *)
(***************************************************************************)
EXTENDS Console, SetSums, SequenceTheorems

SocketEnds == {"none", "connecting", "open", "closed"}

(* The inductive invariant, in four parts that depend on one another only   *)
(* from the first to the last.                                             *)
IsSeq(w) == \E S : w \in Seq(S)

ServerOK ==
    /\ engine \in {"loading", "loaded", "mock-only"} /\ changes \in 0..MaxChanges
    /\ DOMAIN shared = Items /\ switch \in [CenterTenants -> {"CLOSED", "OPEN"}]
    /\ clients \subseteq Sockets /\ serverEnd \in [Sockets -> {"none", "open", "closed"}]
    /\ DOMAIN missed = Sockets
    /\ ClientsAreOpen /\ FlagIsBacked

\* While the console is shown there is a socket or a timer, and never both.
SocketsOK ==
    /\ page \in {"login", "console"} /\ timer \in BOOLEAN
    /\ tabEnd \in [Sockets -> SocketEnds]
    /\ \A s \in Sockets : tabEnd[s] = "none" => serverEnd[s] = "none"
    /\ page = "login" => Live = {} /\ ~timer
    /\ page = "console" /\ timer => Live = {}
    /\ page = "console" /\ ~timer => \E s \in Sockets : Live = {s}

\* What is on the way is on the way to a socket of the tab.
WireOK ==
    /\ DOMAIN wire = Sockets /\ DOMAIN shown = Items
    /\ \A s \in Sockets : IsSeq(wire[s]) /\ (wire[s] # <<>> => s \in Live)
    /\ ShownIsShared

\* A sign-in that outlives the one that opened the console was under way with it.
SignInsOK ==
    /\ step \in {"credentials", "mfa"} /\ auth \in BOOLEAN
    /\ pending \subseteq SignIns \cup {"credentials"}
    /\ overlap \in BOOLEAN
    /\ \A p, q \in pending \cap SignIns : p # q => overlap
    /\ page = "console" /\ pending # {} => overlap
    /\ SignOutHolds

CenterStrong == ServerOK /\ SocketsOK /\ WireOK /\ SignInsOK

-----------------------------------------------------------------------------
(* Sequences of messages.                                                  *)
LEMMA SeqFacts ==
    ASSUME NEW w, IsSeq(w)
    PROVE  Len(w) \in Nat /\ DOMAIN w = 1..Len(w)
  BY LenProperties DEF IsSeq

LEMMA AppendFacts ==
    ASSUME NEW w, IsSeq(w), NEW x
    PROVE  /\ IsSeq(Append(w, x)) /\ Append(w, x) # <<>>
           /\ DOMAIN Append(w, x) = 1..(Len(w) + 1)
           /\ \A n \in 1..Len(w) : Append(w, x)[n] = w[n]
           /\ Append(w, x)[Len(w) + 1] = x
<1>1. PICK S : w \in Seq(S)
  BY DEF IsSeq
<1> DEFINE T == S \cup {x}
           a == Append(w, x)
<1>2. w \in Seq(T) /\ x \in T
  BY <1>1, SeqMonotonic
<1> HIDE DEF T
<1>3. /\ a \in Seq(T) /\ a # <<>> /\ Len(a) = Len(w) + 1
      /\ \A n \in 1..Len(w) : a[n] = w[n]
      /\ a[Len(w) + 1] = x
  BY <1>2, AppendProperties
<1>4. DOMAIN a = 1..(Len(w) + 1)
  BY <1>3, LenProperties
<1> QED
  BY <1>3, <1>4 DEF IsSeq

LEMMA TailFacts ==
    ASSUME NEW w, IsSeq(w), w # <<>>
    PROVE  /\ Len(w) \in Nat \ {0} /\ IsSeq(Tail(w)) /\ Head(w) = w[1]
           /\ DOMAIN Tail(w) = 1..(Len(w) - 1)
           /\ \A n \in 1..(Len(w) - 1) : Tail(w)[n] = w[n + 1]
<1>1. PICK S : w \in Seq(S)
  BY DEF IsSeq
<1>2. Len(w) \in Nat \ {0}
  BY <1>1, EmptySeq
<1>3. /\ Tail(w) \in Seq(S) /\ Len(Tail(w)) = Len(w) - 1
      /\ \A n \in 1..Len(Tail(w)) : Tail(w)[n] = w[n + 1]
  BY <1>1, HeadTailProperties
<1>4. DOMAIN Tail(w) = 1..Len(Tail(w))
  BY <1>3, LenProperties
<1>5. Head(w) = w[1]
  BY <1>1, HeadTailProperties
<1> QED
  BY <1>2, <1>3, <1>4, <1>5 DEF IsSeq

(* What arrives at last, stated of any sequence of messages and any store.  *)
AboutIn(w, i) == {n \in DOMAIN w : i \in DOMAIN w[n]}
IsLast(w, i, n) == n \in AboutIn(w, i) /\ \A m \in AboutIn(w, i) : m <= n
ArrivesIn(w, store, i) ==
    IF AboutIn(w, i) = {} THEN store[i]
    ELSE w[CHOOSE n \in AboutIn(w, i) : \A m \in AboutIn(w, i) : m <= n][i]

LEMMA ArrivesIsIn ==
    \A s, i : /\ Arrives(s, i) = ArrivesIn(wire[s], shown, i)
              /\ Covered(s, i) <=> AboutIn(wire[s], i) # {}
  BY DEF Arrives, Covered, ArrivesIn, AboutIn

\* The last message about an item decides.
LEMMA LastDecides ==
    ASSUME NEW w, IsSeq(w), NEW store, NEW i, NEW n, IsLast(w, i, n)
    PROVE  ArrivesIn(w, store, i) = w[n][i]
<1> DEFINE about == AboutIn(w, i)
           last == CHOOSE k \in about : \A m \in about : m <= k
<1>1. about \subseteq Nat
  BY SeqFacts DEF AboutIn
<1>2. n \in about /\ \A m \in about : m <= n
  BY DEF IsLast
<1>3. last \in about /\ \A m \in about : m <= last
  <2> HIDE DEF about
  <2> QED
    BY <1>2
<1>4. ArrivesIn(w, store, i) = w[last][i]
  BY <1>2 DEF ArrivesIn
<1> HIDE DEF about, last
<1>5. last <= n /\ n <= last /\ last \in Nat /\ n \in Nat
  BY <1>1, <1>2, <1>3
<1>6. last = n
  BY <1>5
<1> QED
  BY <1>4, <1>6

LEMMA LastExists ==
    ASSUME NEW w, IsSeq(w), NEW i, AboutIn(w, i) # {}
    PROVE  \E n : IsLast(w, i, n)
<1> DEFINE about == AboutIn(w, i)
<1>1. about \subseteq 1..Len(w) /\ Len(w) \in Nat
  BY SeqFacts DEF AboutIn
<1> HIDE DEF about
<1>2. IsFiniteSet(1..Len(w))
  BY <1>1, FS_Interval
<1>3. IsFiniteSet(about) /\ about \subseteq Int
  <2>1. IsFiniteSet(about)
    BY <1>1, <1>2, FS_Subset
  <2>2. about \subseteq Int
    BY <1>1
  <2> QED
    BY <2>1, <2>2
<1>4. Max(about) \in about /\ \A m \in about : m <= Max(about)
  BY <1>3, MaxIs DEF about
<1> QED
  BY <1>4 DEF about, IsLast

\* A message more on the way says what it says of its items and nothing of others.
LEMMA SentArrives ==
    ASSUME NEW w, IsSeq(w), NEW x, NEW store, NEW i
    PROVE  /\ i \in DOMAIN x => ArrivesIn(Append(w, x), store, i) = x[i]
           /\ i \notin DOMAIN x => /\ ArrivesIn(Append(w, x), store, i) = ArrivesIn(w, store, i)
                                   /\ AboutIn(Append(w, x), i) = AboutIn(w, i)
<1> DEFINE a == Append(w, x)
           l == Len(w)
<1>1. /\ IsSeq(a) /\ DOMAIN a = 1..(l + 1) /\ a[l + 1] = x
      /\ \A n \in 1..l : a[n] = w[n]
  BY AppendFacts
<1>2. l \in Nat /\ DOMAIN w = 1..l
  BY SeqFacts
<1> HIDE DEF a, l
<1>5. IsSeq(a)
  BY <1>1
<1>3. CASE i \in DOMAIN x
  <2>1. l + 1 \in AboutIn(a, i)
    BY <1>1, <1>2, <1>3 DEF AboutIn
  <2>2. \A m \in AboutIn(a, i) : m <= l + 1
    BY <1>1, <1>2 DEF AboutIn
  <2>3. IsLast(a, i, l + 1)
    BY <2>1, <2>2 DEF IsLast
  <2>4. ArrivesIn(a, store, i) = a[l + 1][i]
    BY <1>5, <2>3, LastDecides
  <2> QED
    BY <1>1, <1>3, <2>4 DEF a
<1>4. CASE i \notin DOMAIN x
  <2>1. \A n \in 1..(l + 1) : n \in 1..l \/ n = l + 1
    BY <1>2
  <2>2. AboutIn(a, i) = AboutIn(w, i)
    BY <1>1, <1>2, <1>4, <2>1 DEF AboutIn
  <2>3. CASE AboutIn(w, i) = {}
    BY <2>2, <2>3, <1>4 DEF ArrivesIn, a
  <2>4. CASE AboutIn(w, i) # {}
    <3>1. PICK n : IsLast(w, i, n)
      BY <2>4, LastExists
    <3>2. ArrivesIn(w, store, i) = w[n][i]
      BY <3>1, LastDecides
    <3>3. IsLast(a, i, n)
      BY <2>2, <3>1 DEF IsLast
    <3>4. ArrivesIn(a, store, i) = a[n][i]
      BY <1>5, <3>3, LastDecides
    <3>5. a[n] = w[n]
      BY <1>1, <1>2, <3>1 DEF AboutIn, IsLast
    <3> QED
      BY <1>4, <2>2, <3>2, <3>4, <3>5 DEF a
  <2> QED
    BY <2>3, <2>4
<1> QED
  BY <1>3, <1>4

\* Taking the first message into the store changes nothing of what arrives at last.
LEMMA ReceivedArrives ==
    ASSUME NEW w, IsSeq(w), w # <<>>, NEW store, NEW new, NEW i,
           i \in DOMAIN Head(w) => new[i] = Head(w)[i],
           i \notin DOMAIN Head(w) => new[i] = store[i]
    PROVE  /\ ArrivesIn(Tail(w), new, i) = ArrivesIn(w, store, i)
           /\ i \notin DOMAIN Head(w) => (AboutIn(Tail(w), i) = {} <=> AboutIn(w, i) = {})
           /\ i \in DOMAIN Head(w) => AboutIn(w, i) # {}
<1> DEFINE v == Tail(w)
           l == Len(w)
           h == Head(w)
<1>1. /\ l \in Nat \ {0} /\ IsSeq(v) /\ h = w[1]
      /\ DOMAIN v = 1..(l - 1) /\ \A n \in 1..(l - 1) : v[n] = w[n + 1]
  BY TailFacts
<1>2. DOMAIN w = 1..l
  BY SeqFacts
<1>3. (i \in DOMAIN h => new[i] = h[i]) /\ (i \notin DOMAIN h => new[i] = store[i])
  OBVIOUS
<1> HIDE DEF v, l, h
<1>4. \A n \in 1..(l - 1) : n + 1 \in 1..l /\ (n \in AboutIn(v, i) <=> n + 1 \in AboutIn(w, i))
  <2>1. \A n \in 1..(l - 1) : n + 1 \in 1..l
    BY <1>1
  <2> QED
    BY <1>1, <1>2, <2>1 DEF AboutIn
<1>5. \A m \in 1..l : m = 1 \/ (m - 1 \in 1..(l - 1) /\ (m - 1) + 1 = m)
  BY <1>1
<1>6. AboutIn(v, i) \subseteq 1..(l - 1) /\ AboutIn(w, i) \subseteq 1..l
  BY <1>1, <1>2 DEF AboutIn
<1>7. 1 \in AboutIn(w, i) <=> i \in DOMAIN h
  BY <1>1, <1>2 DEF AboutIn
<1>8. CASE AboutIn(v, i) # {}
  <2>1. PICK n : IsLast(v, i, n)
    BY <1>1, <1>8, LastExists
  <2>2. n \in 1..(l - 1) /\ n + 1 \in AboutIn(w, i)
    BY <1>4, <1>6, <2>1 DEF IsLast
  <2>3. ASSUME NEW m \in AboutIn(w, i) PROVE m <= n + 1
    <3>1. CASE m = 1
      BY <2>2, <3>1
    <3>2. CASE m - 1 \in 1..(l - 1) /\ (m - 1) + 1 = m
      <4>1. m - 1 \in AboutIn(v, i)
        BY <1>4, <3>2
      <4>2. m - 1 <= n
        BY <2>1, <4>1 DEF IsLast
      <4> QED
        BY <1>1, <1>6, <2>2, <3>2, <4>2
    <3> QED
      BY <1>5, <1>6, <3>1, <3>2
  <2>4. ArrivesIn(w, store, i) = w[n + 1][i]
    BY <2>2, <2>3, LastDecides DEF IsLast
  <2>5. ArrivesIn(v, new, i) = v[n][i]
    BY <1>1, <2>1, LastDecides
  <2> QED
    BY <1>1, <1>7, <1>8, <2>2, <2>4, <2>5 DEF v, h
<1>9. CASE AboutIn(v, i) = {}
  <2>1. ArrivesIn(v, new, i) = new[i]
    BY <1>9 DEF ArrivesIn
  <2>2. \A m \in AboutIn(w, i) : m = 1
    BY <1>4, <1>5, <1>6, <1>9
  <2>3. CASE i \in DOMAIN h
    <3>1. 1 \in AboutIn(w, i) /\ \A m \in AboutIn(w, i) : m <= 1
      BY <1>7, <2>2, <2>3
    <3>2. IsLast(w, i, 1)
      BY <3>1 DEF IsLast
    <3>3. ArrivesIn(w, store, i) = w[1][i]
      BY <3>2, LastDecides
    <3> QED
      BY <1>1, <1>3, <2>1, <2>3, <3>1, <3>3 DEF v, h
  <2>4. CASE i \notin DOMAIN h
    <3>1. AboutIn(w, i) = {}
      BY <1>7, <2>2, <2>4
    <3>2. ArrivesIn(w, store, i) = store[i]
      BY <3>1 DEF ArrivesIn
    <3> QED
      BY <1>3, <1>9, <2>1, <2>4, <3>1, <3>2 DEF v, h
  <2> QED
    BY <2>3, <2>4
<1> QED
  BY <1>8, <1>9

LEMMA ArrivesNext ==
    \A s, i : /\ Arrives(s, i)' = ArrivesIn(wire'[s], shown', i)
              /\ Covered(s, i)' <=> AboutIn(wire'[s], i) # {}
  BY DEF Arrives, Covered, ArrivesIn, AboutIn

-----------------------------------------------------------------------------
(* What a step that leaves a part alone keeps of it.                       *)
LEMMA ConsoleInitial == ConsoleInit => CenterStrong
<1> SUFFICES ASSUME ConsoleInit PROVE CenterStrong
  OBVIOUS
<1>1. CenterInit
  BY DEF ConsoleInit
<1>2. Live = {}
  BY <1>1 DEF CenterInit, Live
<1>3. ServerOK
  <2>1. shared["killSwitchActive"] = FALSE
    BY <1>1, CenterAssumption DEF CenterInit, InitialShared, Items
  <2> QED
    BY <1>1, <2>1, CenterAssumption DEF ServerOK, CenterInit, InitialShared, ClientsAreOpen, FlagIsBacked
<1>4. SocketsOK
  <2>1. serverEnd = [s \in Sockets |-> "none"] /\ tabEnd = serverEnd
    BY <1>1 DEF CenterInit
  <2>2. tabEnd \in [Sockets -> SocketEnds] /\ \A s \in Sockets : serverEnd[s] = "none"
    BY <2>1 DEF SocketEnds
  <2>3. page = "login" /\ timer = FALSE
    BY DEF ConsoleInit
  <2> QED
    BY <1>2, <2>2, <2>3 DEF SocketsOK
<1>5. WireOK
  <2>1. \A s \in Sockets : wire[s] = <<>>
    BY <1>1 DEF CenterInit
  <2>2. IsSeq(<<>>)
    BY EmptySeq DEF IsSeq
  <2>3. DOMAIN wire = Sockets /\ DOMAIN shown = Items
    BY <1>1 DEF CenterInit, ConsoleInit, InitialShared
  <2> QED
    BY <1>2, <2>1, <2>2, <2>3 DEF WireOK, ShownIsShared
<1>6. SignInsOK
  BY DEF ConsoleInit, SignInsOK, SignOutHolds
<1> QED
  BY <1>3, <1>4, <1>5, <1>6 DEF CenterStrong

LEMMA ServerStays ==
    ASSUME ServerOK, UNCHANGED <<stateVars, clients, serverEnd, missed>>
    PROVE  ServerOK'
  BY DEF ServerOK, stateVars, ClientsAreOpen, FlagIsBacked

LEMMA SocketsStay ==
    ASSUME SocketsOK, UNCHANGED <<page, timer, tabEnd>>,
           \A s \in Sockets : tabEnd[s] = "none" => serverEnd'[s] = "none"
    PROVE  SocketsOK' /\ Live' = Live
  BY DEF SocketsOK, Live

LEMMA SignInsStay ==
    ASSUME SignInsOK, UNCHANGED sessionVars
    PROVE  SignInsOK'
  BY DEF SignInsOK, sessionVars, SignOutHolds

\* As long as nothing moves on the way and the state is the same, what arrives is too.
LEMMA WireStays ==
    ASSUME WireOK, UNCHANGED <<wire, shown, shared, missed, edited>>,
           \A s \in Sockets : wire[s] # <<>> => s \in Live',
           \A s \in Live' : serverEnd'[s] = "open" => s \in Live /\ serverEnd[s] = "open"
    PROVE  WireOK'
<1>1. \A s, i : Arrives(s, i)' = Arrives(s, i) /\ (Covered(s, i)' <=> Covered(s, i))
  BY DEF Arrives, Covered
<1>2. ShownIsShared'
  BY <1>1 DEF WireOK, ShownIsShared
<1> QED
  BY <1>2 DEF WireOK

\* A tab whose sockets the server has not accepted is owed nothing.
LEMMA NothingOwed ==
    ASSUME DOMAIN wire' = Sockets, DOMAIN shown' = Items,
           \A s \in Sockets : wire'[s] = <<>>,
           \A s \in Live' : serverEnd'[s] # "open"
    PROVE  WireOK'
<1>1. IsSeq(<<>>)
  BY EmptySeq DEF IsSeq
<1> QED
  BY <1>1 DEF WireOK, ShownIsShared

-----------------------------------------------------------------------------
(* The server.                                                             *)
LEMMA AcceptKeeps ==
    ASSUME CenterStrong, NEW s \in Sockets, Accept(s), UNCHANGED <<sessionVars, hookVars, storeVars>>
    PROVE  CenterStrong'
<1>1. /\ tabEnd[s] = "connecting" /\ serverEnd[s] = "none"
      /\ clients' = clients \cup {s} /\ serverEnd' = [serverEnd EXCEPT ![s] = "open"]
      /\ wire' = [wire EXCEPT ![s] = <<shared>>] /\ missed' = [missed EXCEPT ![s] = {}]
      /\ UNCHANGED <<tabEnd, stateVars>>
  BY DEF Accept
<1>2. ServerOK /\ SocketsOK /\ WireOK /\ SignInsOK /\ UNCHANGED <<page, timer, shown, edited, shared>>
  BY <1>1 DEF CenterStrong, sessionVars, hookVars, storeVars, stateVars
<1>3. serverEnd'[s] = "open" /\ \A k \in Sockets \ {s} : serverEnd'[k] = serverEnd[k]
  BY <1>1, <1>2 DEF ServerOK
<1>4. SocketsOK' /\ Live' = Live
  <2>1. \A k \in Sockets : tabEnd[k] = "none" => serverEnd'[k] = "none"
    BY <1>1, <1>2, <1>3 DEF SocketsOK
  <2> QED
    BY <1>1, <1>2, <2>1, SocketsStay
<1>5. ServerOK'
  <2>1. ClientsAreOpen'
    BY <1>1, <1>2, <1>3 DEF ServerOK, ClientsAreOpen
  <2> QED
    BY <1>1, <1>2, <1>3, <2>1 DEF ServerOK, stateVars, FlagIsBacked
<1>6. WireOK'
  <2>1. wire'[s] = <<shared>> /\ \A k \in Sockets \ {s} : wire'[k] = wire[k]
    BY <1>1, <1>2 DEF WireOK
  <2>2. s \in Live
    BY <1>1 DEF Live
  <2>3. IsSeq(<<shared>>)
    <3>1. <<shared>> \in Seq({shared})
      OBVIOUS
    <3> QED
      BY <3>1 DEF IsSeq
  <2>4. \A k \in Sockets : IsSeq(wire'[k]) /\ (wire'[k] # <<>> => k \in Live')
    BY <1>2, <1>4, <2>1, <2>2, <2>3 DEF WireOK
  <2>5. ASSUME NEW i \in Items PROVE Arrives(s, i)' = shared[i]
    <3>1. AboutIn(<<shared>>, i) = {1}
      BY <1>2 DEF AboutIn, ServerOK
    <3>2. IsLast(<<shared>>, i, 1)
      BY <3>1 DEF IsLast
    <3>3. ArrivesIn(<<shared>>, shown', i) = <<shared>>[1][i]
      BY <2>3, <3>2, LastDecides
    <3> QED
      BY <2>1, <3>3, ArrivesNext
  <2>6. ASSUME NEW k \in Live', serverEnd'[k] = "open", NEW i \in Items
        PROVE  \/ Arrives(k, i)' = shared'[i] \/ i \in missed'[k] \/ (i \in edited' /\ ~Covered(k, i)')
    <3>1. CASE k = s
      BY <1>2, <2>5, <3>1
    <3>2. CASE k # s
      <4>1. /\ k \in Sockets \ {s} /\ k \in Live /\ serverEnd[k] = "open"
            /\ wire'[k] = wire[k] /\ missed'[k] = missed[k]
        BY <1>1, <1>2, <1>3, <1>4, <2>1, <2>6, <3>2 DEF Live, ServerOK
      <4>2. Arrives(k, i)' = Arrives(k, i) /\ (Covered(k, i)' <=> Covered(k, i))
        BY <1>2, <4>1 DEF Arrives, Covered
      <4> QED
        BY <1>2, <4>1, <4>2 DEF WireOK, ShownIsShared
    <3> QED
      BY <3>1, <3>2
  <2>7. ShownIsShared'
    BY <2>6 DEF ShownIsShared
  <2> QED
    BY <1>1, <1>2, <2>4, <2>7 DEF WireOK
<1> QED
  BY <1>2, <1>4, <1>5, <1>6, SignInsStay DEF CenterStrong

LEMMA LosesKeeps ==
    ASSUME CenterStrong, NEW s \in Sockets, ServerLoses(s), UNCHANGED <<sessionVars, hookVars, storeVars>>
    PROVE  CenterStrong'
<1>1. /\ serverEnd[s] = "open" /\ serverEnd' = [serverEnd EXCEPT ![s] = "closed"]
      /\ clients' = clients \ {s} /\ UNCHANGED <<tabEnd, wire, missed, stateVars>>
  BY DEF ServerLoses
<1>2. ServerOK /\ SocketsOK /\ WireOK /\ SignInsOK /\ UNCHANGED <<page, timer, shown, edited, shared>>
  BY <1>1 DEF CenterStrong, sessionVars, hookVars, storeVars, stateVars
<1>3. serverEnd'[s] = "closed" /\ \A k \in Sockets \ {s} : serverEnd'[k] = serverEnd[k]
  BY <1>1, <1>2 DEF ServerOK
<1>4. SocketsOK' /\ Live' = Live
  <2>1. \A k \in Sockets : tabEnd[k] = "none" => serverEnd'[k] = "none"
    BY <1>1, <1>2, <1>3 DEF SocketsOK
  <2> QED
    BY <1>1, <1>2, <2>1, SocketsStay
<1>5. ServerOK'
  <2>1. ClientsAreOpen'
    BY <1>1, <1>2, <1>3 DEF ServerOK, ClientsAreOpen
  <2> QED
    BY <1>1, <1>2, <1>3, <2>1 DEF ServerOK, stateVars, FlagIsBacked
<1>6. WireOK'
  <2>1. \A k \in Live' : serverEnd'[k] = "open" => k \in Live /\ serverEnd[k] = "open"
    BY <1>3, <1>4 DEF Live
  <2>2. \A k \in Sockets : wire[k] # <<>> => k \in Live'
    BY <1>2, <1>4 DEF WireOK
  <2> QED
    BY <1>1, <1>2, <2>1, <2>2, WireStays
<1> QED
  BY <1>2, <1>4, <1>5, <1>6, SignInsStay DEF CenterStrong

LEMMA HeartbeatKeeps ==
    ASSUME CenterStrong, Heartbeat, UNCHANGED <<sessionVars, hookVars, storeVars>>
    PROVE  CenterStrong'
<1>1. /\ clients' = {s \in clients : alive[s]}
      /\ serverEnd' = [s \in Sockets |-> IF s \in clients \ clients' THEN "closed" ELSE serverEnd[s]]
      /\ UNCHANGED <<tabEnd, wire, missed, stateVars>>
  BY DEF Heartbeat
<1>2. ServerOK /\ SocketsOK /\ WireOK /\ SignInsOK /\ UNCHANGED <<page, timer, shown, edited, shared>>
  BY <1>1 DEF CenterStrong, sessionVars, hookVars, storeVars, stateVars
<1>3. \A s \in Sockets : serverEnd'[s] = IF s \in clients \ clients' THEN "closed" ELSE serverEnd[s]
  BY <1>1
<1>4. \A s \in Sockets : s \in clients <=> serverEnd[s] = "open"
  BY <1>2 DEF ServerOK, ClientsAreOpen
<1>5. SocketsOK' /\ Live' = Live
  <2>1. \A s \in Sockets : tabEnd[s] = "none" => serverEnd'[s] = "none"
    BY <1>2, <1>3, <1>4 DEF SocketsOK
  <2> QED
    BY <1>1, <1>2, <2>1, SocketsStay
<1>6. ServerOK'
  <2>1. ClientsAreOpen'
    BY <1>1, <1>2, <1>3, <1>4 DEF ServerOK, ClientsAreOpen
  <2>2. serverEnd' \in [Sockets -> {"none", "open", "closed"}]
    BY <1>1, <1>2 DEF ServerOK
  <2> QED
    BY <1>1, <1>2, <2>1, <2>2 DEF ServerOK, stateVars, FlagIsBacked
<1>7. WireOK'
  <2>1. \A s \in Live' : serverEnd'[s] = "open" => s \in Live /\ serverEnd[s] = "open"
    BY <1>3, <1>5 DEF Live
  <2>2. \A s \in Sockets : wire[s] # <<>> => s \in Live'
    BY <1>2, <1>5 DEF WireOK
  <2> QED
    BY <1>1, <1>2, <2>1, <2>2, WireStays
<1> QED
  BY <1>2, <1>5, <1>6, <1>7, SignInsStay DEF CenterStrong

\* Steps of the server that touch neither its ends of the sockets nor the state.
LEMMA QuietKeeps ==
    ASSUME CenterStrong, UNCHANGED <<shared, changes, switch, unbacked, clients, serverEnd, tabEnd, wire, missed>>,
           engine' \in {"loading", "loaded", "mock-only"},
           UNCHANGED <<sessionVars, hookVars, storeVars>>
    PROVE  CenterStrong'
<1>1. ServerOK /\ SocketsOK /\ WireOK /\ SignInsOK /\ UNCHANGED <<page, timer, shown, edited>>
  BY DEF CenterStrong, sessionVars, hookVars, storeVars
<1>2. ServerOK'
  BY <1>1 DEF ServerOK, ClientsAreOpen, FlagIsBacked
<1>3. SocketsOK' /\ Live' = Live
  <2>1. \A k \in Sockets : tabEnd[k] = "none" => serverEnd'[k] = "none"
    BY <1>1 DEF SocketsOK
  <2> QED
    BY <1>1, <2>1, SocketsStay
<1>4. WireOK'
  <2>1. \A k \in Live' : serverEnd'[k] = "open" => k \in Live /\ serverEnd[k] = "open"
    BY <1>3
  <2>2. \A k \in Sockets : wire[k] # <<>> => k \in Live'
    BY <1>1, <1>3 DEF WireOK
  <2> QED
    BY <1>1, <2>1, <2>2, WireStays
<1> QED
  BY <1>1, <1>2, <1>3, <1>4, SignInsStay DEF CenterStrong

\* What is sent to the clients of a tenant reaches those, and the others miss it.
LEMMA BroadcastKeeps ==
    ASSUME CenterStrong, NEW t, NEW item \in Items, NEW value, Broadcast(t, item, value),
           FlagIsBacked', switch' \in [CenterTenants -> {"CLOSED", "OPEN"}],
           UNCHANGED <<sessionVars, hookVars, storeVars>>
    PROVE  CenterStrong'
<1> DEFINE msg == [i \in {item} |-> value]
<1>1. /\ changes < MaxChanges /\ changes' = changes + 1
      /\ shared' = [shared EXCEPT ![item] = value]
      /\ wire' = [s \in Sockets |-> IF s \in Receivers(t) \cap Live THEN Append(wire[s], msg) ELSE wire[s]]
      /\ missed' = [s \in Sockets |-> IF s \notin clients \/ tenantOf[s] = t THEN missed[s] \ {item}
                               ELSE missed[s] \cup {item}]
      /\ UNCHANGED <<engine, clients, alive, tenantOf, serverEnd, tabEnd>>
  BY DEF Broadcast
<1>2. ServerOK /\ SocketsOK /\ WireOK /\ SignInsOK /\ UNCHANGED <<page, timer, shown, edited>>
  BY DEF CenterStrong, sessionVars, hookVars, storeVars
<1>3. DOMAIN msg = {item} /\ msg[item] = value
  OBVIOUS
<1> HIDE DEF msg
<1>4. ServerOK'
  <2>1. changes' \in 0..MaxChanges
    BY <1>1, <1>2, CenterAssumption DEF ServerOK
  <2>2. DOMAIN shared' = Items /\ DOMAIN missed' = Sockets
    BY <1>1, <1>2 DEF ServerOK
  <2>3. ClientsAreOpen'
    BY <1>1, <1>2 DEF ServerOK, ClientsAreOpen
  <2> QED
    BY <1>1, <1>2, <2>1, <2>2, <2>3 DEF ServerOK
<1>5. SocketsOK' /\ Live' = Live
  <2>1. \A s \in Sockets : tabEnd[s] = "none" => serverEnd'[s] = "none"
    BY <1>1, <1>2 DEF SocketsOK
  <2> QED
    BY <1>1, <1>2, <2>1, SocketsStay
<1>6. WireOK'
  <2>1. \A s \in Sockets : IsSeq(wire'[s]) /\ (wire'[s] # <<>> => s \in Live')
    <3>1. SUFFICES ASSUME NEW s \in Sockets PROVE IsSeq(wire'[s]) /\ (wire'[s] # <<>> => s \in Live')
      OBVIOUS
    <3>2. IsSeq(wire[s]) /\ (wire[s] # <<>> => s \in Live)
      BY <1>2 DEF WireOK
    <3>3. CASE s \in Receivers(t) \cap Live
      BY <1>1, <1>5, <3>2, <3>3, AppendFacts
    <3>4. CASE s \notin Receivers(t) \cap Live
      BY <1>1, <1>5, <3>2, <3>4
    <3> QED
      BY <3>3, <3>4
  <2>2. ASSUME NEW s \in Live', serverEnd'[s] = "open", NEW i \in Items
        PROVE  \/ Arrives(s, i)' = shared'[i] \/ i \in missed'[s] \/ (i \in edited' /\ ~Covered(s, i)')
    <3>1. s \in Sockets /\ s \in Live /\ s \in clients /\ serverEnd[s] = "open"
      BY <1>1, <1>2, <1>5, <2>2 DEF Live, ServerOK, ClientsAreOpen
    <3>2. \/ Arrives(s, i) = shared[i] \/ i \in missed[s] \/ (i \in edited /\ ~Covered(s, i))
      BY <1>2, <3>1 DEF WireOK, ShownIsShared
    <3>3. i # item => shared'[i] = shared[i] /\ (i \in missed'[s] <=> i \in missed[s])
      BY <1>1, <1>2, <3>1 DEF ServerOK
    <3>4. IsSeq(wire[s])
      BY <1>2, <3>1 DEF WireOK
    <3>5. CASE tenantOf[s] = t
      <4>1. wire'[s] = Append(wire[s], msg)
        BY <1>1, <3>1, <3>5 DEF Receivers
      <4>2. CASE i = item
        <5>1. Arrives(s, i)' = msg[i]
          <6>1. i \in DOMAIN msg
            BY <1>3, <4>2
          <6>2. ArrivesIn(wire'[s], shown', i) = msg[i]
            BY <3>4, <4>1, <6>1, SentArrives
          <6> QED
            BY <6>2, ArrivesNext
        <5>2. shared'[i] = value
          BY <1>1, <1>2, <4>2 DEF ServerOK
        <5> QED
          BY <1>3, <4>2, <5>1, <5>2
      <4>3. CASE i # item
        <5>1. i \notin DOMAIN msg
          BY <1>3, <4>3
        <5>2. /\ ArrivesIn(wire'[s], shown', i) = ArrivesIn(wire[s], shown', i)
              /\ AboutIn(wire'[s], i) = AboutIn(wire[s], i)
          BY <3>4, <4>1, <5>1, SentArrives
        <5>3. Arrives(s, i)' = Arrives(s, i) /\ (Covered(s, i)' <=> Covered(s, i))
          BY <1>2, <5>2, ArrivesNext, ArrivesIsIn
        <5> QED
          BY <1>2, <3>2, <3>3, <4>3, <5>3
      <4> QED
        BY <4>2, <4>3
    <3>6. CASE tenantOf[s] # t
      <4>1. wire'[s] = wire[s]
        BY <1>1, <3>1, <3>6 DEF Receivers
      <4>2. CASE i = item
        BY <1>1, <3>1, <3>6, <4>2
      <4>3. CASE i # item
        <5>1. Arrives(s, i)' = Arrives(s, i) /\ (Covered(s, i)' <=> Covered(s, i))
          BY <1>2, <4>1, ArrivesNext, ArrivesIsIn
        <5> QED
          BY <1>2, <3>2, <3>3, <4>3, <5>1
      <4> QED
        BY <4>2, <4>3
    <3> QED
      BY <3>5, <3>6
  <2>3. ShownIsShared'
    BY <2>2 DEF ShownIsShared
  <2>4. DOMAIN wire' = Sockets /\ DOMAIN shown' = Items
    BY <1>1, <1>2 DEF WireOK
  <2> QED
    BY <2>1, <2>3, <2>4 DEF WireOK
<1> QED
  BY <1>2, <1>4, <1>5, <1>6, SignInsStay DEF CenterStrong

\* A command about anything but the kill switch leaves its flag as backed as it was.
LEMMA OtherBroadcast ==
    ASSUME CenterStrong, NEW t, NEW item \in Items \ {"killSwitchActive"}, NEW value,
           Broadcast(t, item, value), UNCHANGED <<switch, unbacked>>,
           UNCHANGED <<sessionVars, hookVars, storeVars>>
    PROVE  CenterStrong'
<1>1. ServerOK /\ shared' = [shared EXCEPT ![item] = value]
  BY DEF CenterStrong, Broadcast
<1>2. shared'["killSwitchActive"] = shared["killSwitchActive"]
  BY <1>1 DEF ServerOK
<1>3. FlagIsBacked' /\ switch' \in [CenterTenants -> {"CLOSED", "OPEN"}]
  BY <1>1, <1>2 DEF ServerOK, FlagIsBacked
<1> QED
  BY <1>3, BroadcastKeeps

LEMMA ActivateKeeps ==
    ASSUME CenterStrong, NEW t \in CenterTenants, ActivateKillSwitch(t),
           UNCHANGED <<sessionVars, hookVars, storeVars>>
    PROVE  CenterStrong'
<1>1. /\ Broadcast(t, "killSwitchActive", TRUE)
      /\ switch' = IF engine = "loaded" THEN [switch EXCEPT ![t] = "OPEN"] ELSE switch
      /\ unbacked' = (engine # "loaded")
  BY DEF ActivateKillSwitch
<1>2. ServerOK
  BY DEF CenterStrong
<1>3. switch' \in [CenterTenants -> {"CLOSED", "OPEN"}]
  BY <1>1, <1>2 DEF ServerOK
<1>4. FlagIsBacked'
  BY <1>1, <1>2 DEF ServerOK, FlagIsBacked
<1>5. "killSwitchActive" \in Items
  BY DEF Items
<1> QED
  BY <1>1, <1>3, <1>4, <1>5, BroadcastKeeps

LEMMA DeactivateKeeps ==
    ASSUME CenterStrong, NEW t \in CenterTenants, DeactivateKillSwitch(t),
           UNCHANGED <<sessionVars, hookVars, storeVars>>
    PROVE  CenterStrong'
<1>1. Broadcast(t, "killSwitchActive", FALSE) /\ UNCHANGED <<switch, unbacked>>
  BY DEF DeactivateKillSwitch
<1>2. ServerOK /\ shared' = [shared EXCEPT !["killSwitchActive"] = FALSE]
  BY <1>1 DEF CenterStrong, Broadcast
<1>3. "killSwitchActive" \in Items
  BY DEF Items
<1>4. shared'["killSwitchActive"] = FALSE
  BY <1>2, <1>3 DEF ServerOK
<1>5. FlagIsBacked' /\ switch' \in [CenterTenants -> {"CLOSED", "OPEN"}]
  BY <1>1, <1>2, <1>4 DEF ServerOK, FlagIsBacked
<1> QED
  BY <1>1, <1>3, <1>5, BroadcastKeeps

LEMMA ServerKeeps == CenterStrong /\ ServerNext => CenterStrong'
<1> SUFFICES ASSUME CenterStrong, CenterNext, UNCHANGED <<sessionVars, hookVars, storeVars>>
             PROVE  CenterStrong'
  BY DEF ServerNext
<1>1. CASE EngineLoads
  BY <1>1, QuietKeeps DEF EngineLoads, socketVars
<1>2. CASE Heartbeat
  BY <1>2, HeartbeatKeeps
<1>3. CASE PatchDoW
  <2>1. "dowConfig" \in Items \ {"killSwitchActive"}
    BY DEF Items
  <2> QED
    BY <1>3, <2>1, OtherBroadcast DEF PatchDoW
<1>4. ASSUME NEW item \in LiveItems, LiveUpdate(item) PROVE CenterStrong'
  <2>1. item \in Items \ {"killSwitchActive"}
    BY CenterAssumption DEF Items
  <2> QED
    BY <1>4, <2>1, OtherBroadcast DEF LiveUpdate
<1>5. ASSUME NEW t \in CenterTenants, NEW a \in ActionIds, NEW decision, DecideAction(t, a, decision)
      PROVE  CenterStrong'
  <2>1. a \in Items \ {"killSwitchActive"}
    BY CenterAssumption DEF Items
  <2> QED
    BY <1>5, <2>1, OtherBroadcast DEF DecideAction
<1>6. ASSUME NEW s \in Sockets, Pong(s) PROVE CenterStrong'
  <2>1. UNCHANGED <<shared, changes, switch, unbacked, clients, serverEnd, tabEnd, wire, missed, engine>>
    BY <1>6 DEF Pong, stateVars
  <2>2. engine' \in {"loading", "loaded", "mock-only"}
    BY <2>1 DEF CenterStrong, ServerOK
  <2> QED
    BY <2>1, <2>2, QuietKeeps
<1> QED
  BY <1>1, <1>2, <1>3, <1>4, <1>5, <1>6, ActivateKeeps, DeactivateKeeps, AcceptKeeps, LosesKeeps DEF CenterNext

-----------------------------------------------------------------------------
(* The hook.                                                               *)
LEMMA NextIsUnused == Unused # {} => NextSocket \in Unused
<1> SUFFICES ASSUME Unused # {} PROVE NextSocket \in Unused
  OBVIOUS
<1>1. Unused \subseteq 1..MaxSockets /\ MaxSockets \in Nat
  BY CenterAssumption DEF Unused, Sockets
<1>2. IsFiniteSet(1..MaxSockets)
  BY <1>1, FS_Interval
<1>3. IsFiniteSet(Unused)
  BY <1>1, <1>2, FS_Subset
<1>4. Unused \subseteq Int
  BY <1>1
<1>5. Min(Unused) \in Unused /\ \A u \in Unused : Min(Unused) <= u
  BY <1>3, <1>4, MinIs
<1> QED
  BY <1>5 DEF NextSocket

\* connect(), when no socket of the tab is left: the new one is its only one, and the
\* server has not accepted it.
LEMMA ConnectKeeps ==
    ASSUME SocketsOK, NEW t, NEW ends \in [Sockets -> SocketEnds], ConnectAs(t, ends),
           \A k \in Sockets : ends[k] \in {"none", "closed"} /\ (ends[k] = "none" => tabEnd[k] = "none"),
           page' = "console", timer' = FALSE, serverEnd' = serverEnd
    PROVE  SocketsOK' /\ \A k \in Live' : serverEnd'[k] # "open"
<1> DEFINE n == NextSocket
<1>1. n \in Sockets /\ tabEnd[n] = "none" /\ tabEnd' = [ends EXCEPT ![n] = "connecting"]
  BY NextIsUnused DEF ConnectAs, Unused
<1> HIDE DEF n
<1>2. serverEnd'[n] = "none"
  BY <1>1 DEF SocketsOK
<1>3. tabEnd' \in [Sockets -> SocketEnds]
  BY <1>1 DEF SocketEnds
<1>4. tabEnd'[n] = "connecting" /\ \A k \in Sockets \ {n} : tabEnd'[k] = ends[k]
  BY <1>1
<1>5. Live' = {n}
  BY <1>1, <1>4 DEF Live
<1>6. \A k \in Sockets : tabEnd'[k] = "none" => serverEnd'[k] = "none"
  <2>1. SUFFICES ASSUME NEW k \in Sockets, tabEnd'[k] = "none" PROVE serverEnd'[k] = "none"
    OBVIOUS
  <2>2. k # n
    BY <1>4, <2>1
  <2>3. tabEnd[k] = "none"
    BY <1>4, <2>1, <2>2
  <2> QED
    BY <2>3 DEF SocketsOK
<1>7. timer' \in BOOLEAN /\ page' \in {"login", "console"}
  OBVIOUS
<1>8. \E k \in Sockets : Live' = {k}
  BY <1>1, <1>5
<1>9. SocketsOK'
  BY <1>3, <1>6, <1>7, <1>8 DEF SocketsOK
<1> QED
  BY <1>2, <1>5, <1>9

LEMMA ClosedFacts ==
    ASSUME SocketsOK
    PROVE  /\ Closed \in [Sockets -> SocketEnds]
           /\ \A k \in Sockets : /\ Closed[k] \in {"none", "closed"}
                                 /\ Closed[k] = "none" => tabEnd[k] = "none"
  BY DEF SocketsOK, Closed, Live, SocketEnds

\* A live socket is the only one, shown by a console that waits for no timer.
LEMMA OnlyOne ==
    ASSUME SocketsOK, NEW s \in Live
    PROVE  Live = {s} /\ s \in Sockets /\ page = "console" /\ timer = FALSE
  BY DEF SocketsOK, Live

LEMMA OpenedKeeps ==
    ASSUME CenterStrong, NEW s \in Sockets, Opened(s)
    PROVE  CenterStrong'
<1>1. /\ tabEnd[s] = "connecting" /\ serverEnd[s] # "none" /\ tabEnd' = [tabEnd EXCEPT ![s] = "open"]
      /\ UNCHANGED <<stateVars, clients, serverEnd, missed, wire, shown, edited, sessionVars, page, timer>>
  BY DEF Opened, sessionVars, storeVars
<1>2. ServerOK /\ SocketsOK /\ WireOK /\ SignInsOK
  BY DEF CenterStrong
<1>3. tabEnd'[s] = "open" /\ \A k \in Sockets \ {s} : tabEnd'[k] = tabEnd[k]
  BY <1>1, <1>2 DEF SocketsOK
<1>4. Live' = Live
  BY <1>1, <1>3 DEF Live
<1>5. SocketsOK'
  <2>1. tabEnd' \in [Sockets -> SocketEnds]
    BY <1>1, <1>2 DEF SocketsOK, SocketEnds
  <2>2. \A k \in Sockets : tabEnd'[k] = "none" => serverEnd'[k] = "none"
    BY <1>1, <1>2, <1>3 DEF SocketsOK
  <2> QED
    BY <1>1, <1>2, <1>4, <2>1, <2>2 DEF SocketsOK
<1>6. WireOK'
  <2>1. \A k \in Live' : serverEnd'[k] = "open" => k \in Live /\ serverEnd[k] = "open"
    BY <1>1, <1>4
  <2>2. \A k \in Sockets : wire[k] # <<>> => k \in Live'
    BY <1>2, <1>4 DEF WireOK
  <2>3. shared' = shared
    BY <1>1 DEF stateVars
  <2> QED
    BY <1>1, <1>2, <2>1, <2>2, <2>3, WireStays
<1> QED
  BY <1>1, <1>2, <1>5, <1>6, ServerStays, SignInsStay DEF CenterStrong

LEMMA MessageKeeps ==
    ASSUME CenterStrong, NEW s \in Sockets, Message(s)
    PROVE  CenterStrong'
<1> DEFINE h == Head(wire[s])
<1>1. /\ tabEnd[s] = "open" /\ wire[s] # <<>>
      /\ shown' = [i \in Items |-> IF i \in DOMAIN h THEN h[i] ELSE shown[i]]
      /\ edited' = edited \ DOMAIN h
      /\ wire' = [wire EXCEPT ![s] = Tail(@)]
      /\ UNCHANGED <<stateVars, shared, clients, serverEnd, missed, tabEnd, sessionVars, page, timer>>
  BY DEF Message, sessionVars, hookVars, stateVars
<1>2. ServerOK /\ SocketsOK /\ WireOK /\ SignInsOK
  BY DEF CenterStrong
<1>3. s \in Live
  BY <1>1 DEF Live
<1>4. Live = {s}
  BY <1>2, <1>3, OnlyOne
<1>5. SocketsOK' /\ Live' = Live
  <2>1. \A k \in Sockets : tabEnd[k] = "none" => serverEnd'[k] = "none"
    BY <1>1, <1>2 DEF SocketsOK
  <2> QED
    BY <1>1, <1>2, <2>1, SocketsStay
<1>6. /\ DOMAIN wire' = Sockets /\ wire'[s] = Tail(wire[s])
      /\ \A k \in Sockets \ {s} : wire'[k] = wire[k]
  BY <1>1, <1>2 DEF WireOK
<1>7. IsSeq(wire[s]) /\ IsSeq(Tail(wire[s]))
  BY <1>1, <1>2, TailFacts DEF WireOK
<1>8. ASSUME NEW i \in Items, serverEnd[s] = "open"
      PROVE  \/ Arrives(s, i)' = shared'[i] \/ i \in missed'[s] \/ (i \in edited' /\ ~Covered(s, i)')
  <2>1. /\ i \in DOMAIN h => shown'[i] = h[i]
        /\ i \notin DOMAIN h => shown'[i] = shown[i]
    BY <1>1
  <2>2. \/ Arrives(s, i) = shared[i] \/ i \in missed[s] \/ (i \in edited /\ ~Covered(s, i))
    BY <1>2, <1>3, <1>8 DEF WireOK, ShownIsShared
  <2>3. /\ ArrivesIn(Tail(wire[s]), shown', i) = ArrivesIn(wire[s], shown, i)
        /\ i \notin DOMAIN h => (AboutIn(Tail(wire[s]), i) = {} <=> AboutIn(wire[s], i) = {})
        /\ i \in DOMAIN h => AboutIn(wire[s], i) # {}
    <3> DEFINE w == wire[s]
               new == shown'
    <3>1. IsSeq(w) /\ w # <<>> /\ h = Head(w)
      BY <1>1, <1>7
    <3>2. (i \in DOMAIN Head(w) => new[i] = Head(w)[i]) /\ (i \notin DOMAIN Head(w) => new[i] = shown[i])
      BY <2>1
    <3> HIDE DEF w, new, h
    <3>3. /\ ArrivesIn(Tail(w), new, i) = ArrivesIn(w, shown, i)
          /\ i \notin DOMAIN Head(w) => (AboutIn(Tail(w), i) = {} <=> AboutIn(w, i) = {})
          /\ i \in DOMAIN Head(w) => AboutIn(w, i) # {}
      BY <3>1, <3>2, ReceivedArrives
    <3> QED
      BY <3>1, <3>3 DEF w, new
  <2>4. Arrives(s, i)' = Arrives(s, i)
    BY <1>6, <2>3, ArrivesIsIn, ArrivesNext
  <2>5. i \in edited /\ ~Covered(s, i) => i \in edited' /\ ~Covered(s, i)'
    <3>1. SUFFICES ASSUME i \in edited, ~Covered(s, i) PROVE i \in edited' /\ ~Covered(s, i)'
      OBVIOUS
    <3>2. AboutIn(wire[s], i) = {}
      BY <3>1, ArrivesIsIn
    <3>3. i \notin DOMAIN h /\ AboutIn(Tail(wire[s]), i) = {}
      BY <2>3, <3>2
    <3>4. ~Covered(s, i)'
      BY <1>6, <3>3, ArrivesNext
    <3> QED
      BY <1>1, <3>1, <3>3, <3>4
  <2> QED
    BY <1>1, <2>2, <2>4, <2>5
<1>9. ShownIsShared'
  BY <1>1, <1>4, <1>5, <1>8 DEF ShownIsShared
<1>10. \A k \in Sockets : IsSeq(wire'[k]) /\ (wire'[k] # <<>> => k \in Live')
  BY <1>2, <1>3, <1>5, <1>6, <1>7 DEF WireOK
<1>11. WireOK'
  BY <1>1, <1>6, <1>9, <1>10 DEF WireOK
<1> QED
  BY <1>1, <1>2, <1>5, <1>11, ServerStays, SignInsStay DEF CenterStrong

LEMMA ClosedByNetworkKeeps ==
    ASSUME CenterStrong, NEW s \in Sockets, ClosedByNetwork(s)
    PROVE  CenterStrong'
<1>1. /\ s \in Live /\ tabEnd' = [tabEnd EXCEPT ![s] = "closed"]
      /\ wire' = [wire EXCEPT ![s] = <<>>] /\ timer' = TRUE
      /\ UNCHANGED <<stateVars, clients, serverEnd, missed, sessionVars, page, shown, edited>>
  BY DEF ClosedByNetwork, sessionVars, storeVars
<1>2. ServerOK /\ SocketsOK /\ WireOK /\ SignInsOK
  BY DEF CenterStrong
<1>3. Live = {s} /\ page = "console"
  BY <1>1, <1>2, OnlyOne
<1>4. tabEnd'[s] = "closed" /\ \A k \in Sockets \ {s} : tabEnd'[k] = tabEnd[k]
  BY <1>1, <1>2 DEF SocketsOK
<1>5. Live' = {}
  BY <1>3, <1>4 DEF Live
<1>6. SocketsOK'
  <2>1. tabEnd' \in [Sockets -> SocketEnds]
    BY <1>1, <1>2 DEF SocketsOK, SocketEnds
  <2>2. \A k \in Sockets : tabEnd'[k] = "none" => serverEnd'[k] = "none"
    BY <1>1, <1>2, <1>4 DEF SocketsOK
  <2> QED
    BY <1>1, <1>3, <1>5, <2>1, <2>2 DEF SocketsOK
<1>7. \A k \in Sockets : wire'[k] = <<>>
  BY <1>1, <1>2, <1>3 DEF WireOK
<1>8. DOMAIN wire' = Sockets /\ DOMAIN shown' = Items
  BY <1>1, <1>2 DEF WireOK
<1>9. WireOK'
  BY <1>5, <1>7, <1>8, NothingOwed
<1> QED
  BY <1>1, <1>2, <1>6, <1>9, ServerStays, SignInsStay DEF CenterStrong

LEMMA ReconnectKeeps == CenterStrong /\ Reconnect => CenterStrong'
<1> SUFFICES ASSUME CenterStrong, Reconnect PROVE CenterStrong'
  OBVIOUS
<1>1. /\ timer /\ ConnectAs(tenant, tabEnd) /\ timer' = FALSE
      /\ UNCHANGED <<stateVars, clients, serverEnd, missed, wire, sessionVars, page, shown, edited>>
  BY DEF Reconnect, sessionVars, storeVars
<1>2. ServerOK /\ SocketsOK /\ WireOK /\ SignInsOK
  BY DEF CenterStrong
<1>3. page = "console" /\ Live = {}
  BY <1>1, <1>2 DEF SocketsOK
<1>4. tabEnd \in [Sockets -> SocketEnds] /\ \A k \in Sockets : tabEnd[k] \in {"none", "closed"}
  BY <1>2, <1>3 DEF SocketsOK, SocketEnds, Live
<1>5. SocketsOK' /\ \A k \in Live' : serverEnd'[k] # "open"
  BY <1>1, <1>2, <1>3, <1>4, ConnectKeeps
<1>6. \A k \in Sockets : wire'[k] = <<>>
  BY <1>1, <1>2, <1>3 DEF WireOK
<1>7. DOMAIN wire' = Sockets /\ DOMAIN shown' = Items
  BY <1>1, <1>2 DEF WireOK
<1>8. WireOK'
  BY <1>5, <1>6, <1>7, NothingOwed
<1> QED
  BY <1>1, <1>2, <1>5, <1>8, ServerStays, SignInsStay DEF CenterStrong

LEMMA SelectTenantKeeps ==
    ASSUME CenterStrong, NEW t, SelectTenant(t)
    PROVE  CenterStrong'
<1>1. /\ page = "console" /\ ConnectAs(t, Closed) /\ wire' = [k \in Sockets |-> <<>>] /\ timer' = FALSE
      /\ UNCHANGED <<stateVars, clients, serverEnd, missed, sessionVars, page, shown, edited>>
  BY DEF SelectTenant, TimerAfterCleanup, sessionVars, storeVars
<1>2. ServerOK /\ SocketsOK /\ WireOK /\ SignInsOK
  BY DEF CenterStrong
<1>3. SocketsOK' /\ \A k \in Live' : serverEnd'[k] # "open"
  BY <1>1, <1>2, ClosedFacts, ConnectKeeps
<1>4. DOMAIN wire' = Sockets /\ DOMAIN shown' = Items
  BY <1>1, <1>2 DEF WireOK
<1>5. WireOK'
  BY <1>1, <1>3, <1>4, NothingOwed
<1> QED
  BY <1>1, <1>2, <1>3, <1>5, ServerStays, SignInsStay DEF CenterStrong

LEMMA HookKeeps == CenterStrong /\ HookNext => CenterStrong'
  BY ReconnectKeeps, OpenedKeeps, MessageKeeps, ClosedByNetworkKeeps, SelectTenantKeeps DEF HookNext

-----------------------------------------------------------------------------
(* The edits of the tab, and its sign-ins.                                 *)
LEMMA EditKeeps ==
    ASSUME CenterStrong, NEW item \in Items, NEW value, Edit(item, value)
    PROVE  CenterStrong'
<1>1. /\ shown' = [shown EXCEPT ![item] = value] /\ edited' = edited \cup {item}
      /\ UNCHANGED <<centerVars, stateVars, shared, clients, serverEnd, missed, tabEnd, wire, sessionVars, page, timer>>
  BY DEF Edit, centerVars, stateVars, socketVars, sessionVars, hookVars
<1>2. ServerOK /\ SocketsOK /\ WireOK /\ SignInsOK
  BY DEF CenterStrong
<1>3. SocketsOK' /\ Live' = Live
  <2>1. \A k \in Sockets : tabEnd[k] = "none" => serverEnd'[k] = "none"
    BY <1>1, <1>2 DEF SocketsOK
  <2> QED
    BY <1>1, <1>2, <2>1, SocketsStay
<1>4. ASSUME NEW s \in Live, serverEnd[s] = "open", NEW i \in Items
      PROVE  \/ Arrives(s, i)' = shared'[i] \/ i \in missed'[s] \/ (i \in edited' /\ ~Covered(s, i)')
  <2>1. \/ Arrives(s, i) = shared[i] \/ i \in missed[s] \/ (i \in edited /\ ~Covered(s, i))
    BY <1>2, <1>4 DEF WireOK, ShownIsShared
  <2>2. Covered(s, i)' <=> Covered(s, i)
    BY <1>1, ArrivesIsIn, ArrivesNext
  <2>3. CASE Covered(s, i)
    <3>1. AboutIn(wire[s], i) # {}
      BY <2>3, ArrivesIsIn
    <3>2. ArrivesIn(wire[s], shown', i) = ArrivesIn(wire[s], shown, i)
      BY <3>1 DEF ArrivesIn
    <3>3. Arrives(s, i)' = Arrives(s, i)
      BY <1>1, <3>2, ArrivesIsIn, ArrivesNext
    <3> QED
      BY <1>1, <2>1, <2>3, <3>3
  <2>4. CASE ~Covered(s, i) /\ i = item
    BY <1>1, <2>2, <2>4
  <2>5. CASE ~Covered(s, i) /\ i # item
    <3>1. AboutIn(wire[s], i) = {}
      BY <2>5, ArrivesIsIn
    <3>2. shown'[i] = shown[i]
      BY <1>1, <1>2, <2>5 DEF WireOK
    <3>3. ArrivesIn(wire[s], shown', i) = ArrivesIn(wire[s], shown, i)
      BY <3>1, <3>2 DEF ArrivesIn
    <3>4. Arrives(s, i)' = Arrives(s, i)
      BY <1>1, <3>3, ArrivesIsIn, ArrivesNext
    <3> QED
      BY <1>1, <2>1, <2>2, <3>4
  <2> QED
    BY <2>3, <2>4, <2>5
<1>5. ShownIsShared'
  BY <1>1, <1>3, <1>4 DEF ShownIsShared
<1>6. WireOK'
  BY <1>1, <1>2, <1>3, <1>5 DEF WireOK
<1> QED
  BY <1>1, <1>2, <1>3, <1>6, ServerStays, SignInsStay DEF CenterStrong

LEMMA EditsKeep == CenterStrong /\ EditNext => CenterStrong'
<1>1. "agents" \in Items /\ "killSwitchActive" \in Items /\ ActionIds \subseteq Items
  BY CenterAssumption DEF Items
<1> QED
  BY <1>1, EditKeeps DEF EditNext, Simulate, PressKillSwitch, DecideInTab

\* What Login does by itself moves no socket.
LEMMA LoginStays ==
    ASSUME CenterStrong, UNCHANGED <<page, centerVars, hookVars, storeVars>>
    PROVE  ServerOK' /\ SocketsOK' /\ WireOK'
<1>1. ServerOK /\ SocketsOK /\ WireOK
  BY DEF CenterStrong
<1>2. UNCHANGED <<stateVars, shared, clients, serverEnd, missed, tabEnd, wire, page, timer, shown, edited>>
  BY DEF centerVars, stateVars, socketVars, hookVars, storeVars
<1>3. SocketsOK' /\ Live' = Live
  <2>1. \A k \in Sockets : tabEnd[k] = "none" => serverEnd'[k] = "none"
    BY <1>1, <1>2 DEF SocketsOK
  <2> QED
    BY <1>1, <1>2, <2>1, SocketsStay
<1>4. WireOK'
  <2>1. \A k \in Live' : serverEnd'[k] = "open" => k \in Live /\ serverEnd[k] = "open"
    BY <1>2, <1>3
  <2>2. \A k \in Sockets : wire[k] # <<>> => k \in Live'
    BY <1>1, <1>3 DEF WireOK
  <2> QED
    BY <1>1, <1>2, <2>1, <2>2, WireStays
<1> QED
  BY <1>1, <1>2, <1>3, <1>4, ServerStays

LEMMA SubmitKeeps == CenterStrong /\ SubmitForm => CenterStrong'
<1> SUFFICES ASSUME CenterStrong, SubmitForm PROVE CenterStrong'
  OBVIOUS
<1>1. /\ page = "login" /\ pending' = pending \cup {step}
      /\ overlap' = (overlap \/ (step = "mfa" /\ pending \cap SignIns # {}))
      /\ UNCHANGED <<page, auth, step, stale, centerVars, hookVars, storeVars>>
  BY DEF SubmitForm
<1>2. SignInsOK
  BY DEF CenterStrong
<1>3. pending' \subseteq SignIns \cup {"credentials"} /\ overlap' \in BOOLEAN /\ (overlap => overlap')
  BY <1>1, <1>2 DEF SignInsOK, SignIns
<1>4. ASSUME NEW p \in pending' \cap SignIns, NEW q \in pending' \cap SignIns, p # q PROVE overlap'
  <2>1. CASE p \in pending /\ q \in pending
    BY <1>2, <1>3, <1>4, <2>1 DEF SignInsOK
  <2>2. CASE p = step \/ q = step
    <3>1. step = "mfa"
      BY <1>2, <1>4, <2>2 DEF SignInsOK, SignIns
    <3>2. pending \cap SignIns # {}
      BY <1>1, <1>4, <2>2
    <3> QED
      BY <1>1, <3>1, <3>2
  <2> QED
    BY <1>1, <2>1, <2>2
<1>5. SignInsOK'
  BY <1>1, <1>2, <1>3, <1>4 DEF SignInsOK, SignOutHolds
<1> QED
  BY <1>1, <1>5, LoginStays DEF CenterStrong

LEMMA BeginGoogleKeeps == CenterStrong /\ BeginGoogle => CenterStrong'
<1> SUFFICES ASSUME CenterStrong, BeginGoogle PROVE CenterStrong'
  OBVIOUS
<1>1. /\ page = "login" /\ pending' = pending \cup {"google"}
      /\ overlap' = (overlap \/ pending \cap SignIns # {})
      /\ UNCHANGED <<page, auth, step, stale, centerVars, hookVars, storeVars>>
  BY DEF BeginGoogle
<1>2. SignInsOK
  BY DEF CenterStrong
<1>3. pending' \subseteq SignIns \cup {"credentials"} /\ overlap' \in BOOLEAN /\ (overlap => overlap')
  BY <1>1, <1>2 DEF SignInsOK, SignIns
<1>4. ASSUME NEW p \in pending' \cap SignIns, NEW q \in pending' \cap SignIns, p # q PROVE overlap'
  <2>1. p \in pending \cap SignIns \/ q \in pending \cap SignIns
    BY <1>1, <1>4
  <2> QED
    BY <1>1, <2>1
<1>5. SignInsOK'
  BY <1>1, <1>2, <1>3, <1>4 DEF SignInsOK, SignOutHolds
<1> QED
  BY <1>1, <1>5, LoginStays DEF CenterStrong

LEMMA CredentialsKeeps == CenterStrong /\ CredentialsTimer => CenterStrong'
<1> SUFFICES ASSUME CenterStrong, CredentialsTimer PROVE CenterStrong'
  OBVIOUS
<1>1. /\ pending' = pending \ {"credentials"} /\ step' \in {"credentials", "mfa"}
      /\ UNCHANGED <<page, auth, overlap, stale, centerVars, hookVars, storeVars>>
  BY DEF CredentialsTimer
<1>2. SignInsOK'
  BY <1>1 DEF CenterStrong, SignInsOK, SignOutHolds
<1> QED
  BY <1>1, <1>2, LoginStays DEF CenterStrong

\* What remains of two sign-ins is of two that were pending.
LEMMA RemainingFacts ==
    ASSUME NEW P
    PROVE  /\ Remaining(P) \subseteq SignIns
           /\ \A p \in Remaining(P) : p \in P \/ (p = "lateMfa" /\ "mfa" \in P)
           /\ "mfa" \notin Remaining(P)
  BY DEF Remaining, SignIns

LEMMA LeaveKeeps == CenterStrong /\ LeaveForm => CenterStrong'
<1> SUFFICES ASSUME CenterStrong, LeaveForm PROVE CenterStrong'
  OBVIOUS
<1>1. /\ page = "login" /\ step' = "credentials" /\ pending' \in {pending, Remaining(pending)}
      /\ UNCHANGED <<page, auth, overlap, stale, centerVars, hookVars, storeVars>>
  BY DEF LeaveForm
<1>2. SignInsOK
  BY DEF CenterStrong
<1>3. ASSUME NEW p \in pending' \cap SignIns, NEW q \in pending' \cap SignIns, p # q PROVE overlap'
  <2>1. CASE pending' = pending
    BY <1>1, <1>2, <1>3, <2>1 DEF SignInsOK
  <2>2. CASE pending' = Remaining(pending)
    <3>1. /\ p \in pending \/ (p = "lateMfa" /\ "mfa" \in pending)
          /\ q \in pending \/ (q = "lateMfa" /\ "mfa" \in pending)
          /\ p # "mfa" /\ q # "mfa"
      BY <1>3, <2>2, RemainingFacts
    <3>2. \E a, b \in pending \cap SignIns : a # b
      BY <1>3, <3>1 DEF SignIns
    <3> QED
      BY <1>1, <1>2, <3>2 DEF SignInsOK
  <2> QED
    BY <1>1, <2>1, <2>2
<1>4. pending' \subseteq SignIns \cup {"credentials"}
  BY <1>1, <1>2, RemainingFacts DEF SignInsOK
<1>5. SignInsOK'
  BY <1>1, <1>2, <1>3, <1>4 DEF SignInsOK, SignOutHolds
<1> QED
  BY <1>1, <1>5, LoginStays DEF CenterStrong

LEMMA FailsKeeps ==
    ASSUME CenterStrong, NEW p, SignInFails(p)
    PROVE  CenterStrong'
<1>1. /\ pending' = pending \ {p}
      /\ UNCHANGED <<page, auth, step, overlap, stale, centerVars, hookVars, storeVars>>
  BY DEF SignInFails
<1>2. SignInsOK'
  BY <1>1 DEF CenterStrong, SignInsOK, SignOutHolds
<1> QED
  BY <1>1, <1>2, LoginStays DEF CenterStrong

LEMMA SucceedsKeeps ==
    ASSUME CenterStrong, NEW p, SignInSucceeds(p)
    PROVE  CenterStrong'
<1>1. /\ p \in pending \cap SignIns /\ auth' = TRUE /\ page' = "console"
      /\ pending' = IF page = "login" THEN Remaining(pending \ {p}) ELSE pending \ {p}
      /\ IF page = "login" THEN ConnectAs(tenant, tabEnd) ELSE UNCHANGED <<tabEnd, tenantOf>>
      /\ UNCHANGED <<step, overlap, stale, stateVars, shared, clients, serverEnd, wire, missed,
                     timer, shown, edited>>
  BY DEF SignInSucceeds, stateVars, hookVars, storeVars
<1>2. ServerOK /\ SocketsOK /\ WireOK /\ SignInsOK
  BY DEF CenterStrong
<1>3. pending' # {} => overlap
  <2>1. CASE page = "login"
    <3>1. SUFFICES ASSUME NEW q \in pending' PROVE overlap
      OBVIOUS
    <3>2. q \in pending \ {p} \/ (q = "lateMfa" /\ "mfa" \in pending \ {p})
      BY <1>1, <2>1, <3>1, RemainingFacts
    <3>3. q \in SignIns
      BY <1>1, <2>1, <3>1, RemainingFacts
    <3>4. \E r \in pending \cap SignIns : r # p
      BY <3>2, <3>3 DEF SignIns
    <3> QED
      BY <1>1, <1>2, <3>4 DEF SignInsOK
  <2>2. CASE page = "console"
    BY <1>1, <1>2, <2>2 DEF SignInsOK
  <2> QED
    BY <1>2, <2>1, <2>2 DEF SocketsOK
<1>4. pending' \subseteq SignIns \cup {"credentials"}
  BY <1>1, <1>2, RemainingFacts DEF SignInsOK
<1>5. SignInsOK'
  BY <1>1, <1>2, <1>3, <1>4 DEF SignInsOK, SignOutHolds
<1>6. SocketsOK' /\ WireOK'
  <2>1. CASE page = "login"
    <3>1. Live = {} /\ timer = FALSE
      BY <1>2, <2>1 DEF SocketsOK
    <3>2. tabEnd \in [Sockets -> SocketEnds] /\ \A k \in Sockets : tabEnd[k] \in {"none", "closed"}
      BY <1>2, <3>1 DEF SocketsOK, SocketEnds, Live
    <3>3. SocketsOK' /\ \A k \in Live' : serverEnd'[k] # "open"
      BY <1>1, <1>2, <2>1, <3>1, <3>2, ConnectKeeps
    <3>4. (\A k \in Sockets : wire'[k] = <<>>) /\ DOMAIN wire' = Sockets /\ DOMAIN shown' = Items
      BY <1>1, <1>2, <3>1 DEF WireOK
    <3> QED
      BY <3>3, <3>4, NothingOwed
  <2>2. CASE page = "console"
    <3>1. UNCHANGED <<page, timer, tabEnd>>
      BY <1>1, <2>2
    <3>2. \A k \in Sockets : tabEnd[k] = "none" => serverEnd'[k] = "none"
      BY <1>1, <1>2 DEF SocketsOK
    <3>3. SocketsOK' /\ Live' = Live
      BY <1>2, <3>1, <3>2, SocketsStay
    <3>4. \A k \in Live' : serverEnd'[k] = "open" => k \in Live /\ serverEnd[k] = "open"
      BY <1>1, <3>3
    <3>5. \A k \in Sockets : wire[k] # <<>> => k \in Live'
      BY <1>2, <3>3 DEF WireOK
    <3> QED
      BY <1>1, <1>2, <3>3, <3>4, <3>5, WireStays
  <2> QED
    BY <1>2, <2>1, <2>2 DEF SocketsOK
<1> QED
  BY <1>1, <1>2, <1>5, <1>6, ServerStays DEF CenterStrong

LEMMA SignOutKeeps == CenterStrong /\ SignOut => CenterStrong'
<1> SUFFICES ASSUME CenterStrong, SignOut PROVE CenterStrong'
  OBVIOUS
<1>1. /\ page = "console" /\ auth' = FALSE /\ page' = "login" /\ step' = "credentials" /\ stale' = pending
      /\ tabEnd' = Closed /\ wire' = [s \in Sockets |-> <<>>] /\ timer' = FALSE
      /\ UNCHANGED <<pending, overlap, stateVars, clients, serverEnd, missed, shown>>
  BY DEF SignOut, TimerAfterCleanup, storeVars
<1>2. ServerOK /\ SocketsOK /\ WireOK /\ SignInsOK
  BY DEF CenterStrong
<1>3. SignInsOK'
  BY <1>1, <1>2 DEF SignInsOK, SignOutHolds
<1>4. Live' = {}
  BY <1>1, <1>2, ClosedFacts DEF Live
<1>5. SocketsOK'
  <2>1. tabEnd' \in [Sockets -> SocketEnds]
    BY <1>1, <1>2, ClosedFacts
  <2>2. \A k \in Sockets : tabEnd'[k] = "none" => serverEnd'[k] = "none"
    BY <1>1, <1>2, ClosedFacts DEF SocketsOK
  <2> QED
    BY <1>1, <1>4, <2>1, <2>2 DEF SocketsOK
<1>6. DOMAIN wire' = Sockets /\ DOMAIN shown' = Items /\ \A s \in Sockets : wire'[s] = <<>>
  BY <1>1, <1>2 DEF WireOK
<1>7. WireOK'
  BY <1>4, <1>6, NothingOwed
<1> QED
  BY <1>1, <1>2, <1>3, <1>5, <1>7, ServerStays DEF CenterStrong

LEMMA SessionKeeps == CenterStrong /\ SessionNext => CenterStrong'
  BY SubmitKeeps, BeginGoogleKeeps, CredentialsKeeps, LeaveKeeps, SignOutKeeps, FailsKeeps, SucceedsKeeps
     DEF SessionNext

-----------------------------------------------------------------------------
(* The theorem.                                                            *)
LEMMA StrongImplies == CenterStrong => CenterInv
<1> SUFFICES ASSUME CenterStrong PROVE CenterInv
  OBVIOUS
<1>1. ServerOK /\ SocketsOK /\ WireOK /\ SignInsOK
  BY DEF CenterStrong
<1>2. ConsoleTypeOK
  BY <1>1 DEF ConsoleTypeOK, ServerOK, SocketsOK, WireOK, SignInsOK
<1>3. OneConnection
  <2>1. CASE Live = {}
    <3>1. Cardinality(Live) = 0
      BY <2>1, FS_EmptySet
    <3>2. (IF timer THEN 1 ELSE 0) = IF page = "console" THEN 1 ELSE 0
      BY <1>1, <2>1 DEF SocketsOK
    <3> QED
      BY <3>1, <3>2 DEF OneConnection
  <2>2. CASE Live # {}
    <3>1. PICK s \in Live : TRUE
      BY <2>2
    <3>2. Live = {s} /\ page = "console" /\ timer = FALSE
      BY <1>1, <3>1, OnlyOne
    <3>3. Cardinality(Live) = 1
      BY <3>2, FS_Singleton
    <3> QED
      BY <3>2, <3>3 DEF OneConnection
  <2> QED
    BY <2>1, <2>2
<1> QED
  BY <1>1, <1>2, <1>3 DEF CenterInv, ServerOK, WireOK, SignInsOK

\* CenterStrong holds of every state the command center and the tab reach, whatever the
\* server, the network and the user do and in whatever order.
THEOREM CenterInvariance == ConsoleSpec => []CenterStrong
<1>1. ASSUME CenterStrong, [ConsoleNext]_consoleVars PROVE CenterStrong'
  <2>1. CASE UNCHANGED consoleVars
    <3>1. UNCHANGED <<page, centerVars, hookVars, storeVars, sessionVars>>
      BY <2>1 DEF consoleVars, sessionVars
    <3>2. SignInsOK'
      BY <1>1, <3>1, SignInsStay DEF CenterStrong
    <3> QED
      BY <1>1, <3>1, <3>2, LoginStays DEF CenterStrong
  <2> QED
    BY <1>1, <2>1, ServerKeeps, HookKeeps, EditsKeep, SessionKeeps DEF ConsoleNext
<1> QED
  BY <1>1, ConsoleInitial, PTL DEF ConsoleSpec

\* The server knows exactly the sockets it holds open; its kill-switch flag is backed by the
\* engine or was set without one; the tab has one connection or one reconnection due while
\* the console is shown; a connected tab shows the server's state once everything has arrived,
\* but for what was changed for another tenant or edited in the tab; and the console is shown
\* to who is signed in (server.ts, useWebSocket.ts, App.tsx, Login.tsx).
THEOREM CenterInvHolds == ConsoleSpec => []CenterInv
  BY CenterInvariance, StrongImplies, PTL
=============================================================================
