---------------------------- MODULE LedgerProofs ----------------------------
(***************************************************************************)
(* Proofs about the ledgers. LiquidLedger: the verdict of its integrity     *)
(* check is sound for ledgers of any length, any range and any alterations,*)
(* and a ledger that nobody alters is an immutable log. CassandraLedger:    *)
(* the table is such a log if nobody else writes to it and its callers are *)
(* careful, which means that calls of append() do not overlap, input.ts is *)
(* of the month of the call, the process runs in the zone UTC, and no more *)
(* than two months pass without an entry.                                  *)
(***************************************************************************)
EXTENDS MCLedgers, SetSums, SequenceTheorems

-----------------------------------------------------------------------------
(* Entries nest hashes to any depth, so no set of them is at hand: what is *)
(* known of a ledger is that it is a sequence over some set.               *)
IsSeq(s) == \E S : s \in Seq(S)

LEMMA AppendAny ==
    ASSUME NEW s, NEW x, IsSeq(s)
    PROVE  /\ IsSeq(Append(s, x))
           /\ Len(s) \in Nat
           /\ DOMAIN s = 1..Len(s)
           /\ Len(Append(s, x)) = Len(s) + 1
           /\ \A i \in 1..Len(s) : Append(s, x)[i] = s[i]
           /\ Append(s, x)[Len(s) + 1] = x
<1>1. PICK S : s \in Seq(S)
  BY DEF IsSeq
<1>2. s \in Seq(S \cup {x})
  BY <1>1, SeqMonotonic
<1>3. Append(s, x) \in Seq(S \cup {x})
  BY <1>2
<1> QED
  BY <1>2, <1>3, LenProperties DEF IsSeq

With(s, k, x) == [s EXCEPT ![k] = x]

LEMMA WithSeq ==
    ASSUME NEW s, IsSeq(s), NEW k, k \in DOMAIN s, NEW x
    PROVE  /\ IsSeq(With(s, k, x))
           /\ Len(With(s, k, x)) = Len(s)
           /\ \A i \in 1..Len(s) : i # k => With(s, k, x)[i] = s[i]
<1>1. PICK S : s \in Seq(S)
  BY DEF IsSeq
<1>2. s \in Seq(S \cup {x})
  BY <1>1, SeqMonotonic
<1>3. k \in 1..Len(s)
  BY <1>2, LenProperties
<1>4. /\ [s EXCEPT ![k] = x] \in Seq(S \cup {x})
      /\ Len([s EXCEPT ![k] = x]) = Len(s)
      /\ \A i \in 1..Len(s) : [s EXCEPT ![k] = x][i] = IF i = k THEN x ELSE s[i]
  BY <1>2, <1>3, ExceptSeq
<1> QED
  BY <1>4 DEF IsSeq, With

LEMMA SeqFacts ==
    ASSUME NEW s, IsSeq(s)
    PROVE  Len(s) \in Nat /\ DOMAIN s = 1..Len(s)
  BY LenProperties DEF IsSeq

LEMMA EmptyIsSeq == IsSeq(<<>>) /\ Len(<<>>) = 0
  BY EmptySeq DEF IsSeq

\* SHA-256 without collisions: the hash determines what was hashed.
LEMMA HashInjective ==
    ASSUME NEW b, NEW s, NEW p, NEW c, NEW u, NEW q
    PROVE  /\ Hash(b, s, p) = Hash(c, u, q) => b = c /\ s = u /\ p = q
           /\ Hash(b, s, p) # Genesis
  BY DEF Hash, Genesis

-----------------------------------------------------------------------------
(* What append() stored at i: the number i, and the hash of its content.   *)
WellWritten(w, i) ==
    /\ w = [body |-> w.body, resource |-> w.resource, seq |-> i, prev |-> w.prev,
            hash |-> Hash(w.body, i, w.prev)]
    /\ i = 1 => w.prev = Genesis

\* What can be in its place: an entry of any fields.
EntryOK(e) ==
    /\ e = [body |-> e.body, resource |-> e.resource, seq |-> e.seq, prev |-> e.prev, hash |-> e.hash]
    /\ e.body \in Bodies /\ e.resource \in Resources /\ e.seq \in 1..MaxLen

ChainOf(es, ws, n) ==
    /\ IsSeq(es) /\ Len(es) = n
    /\ IsSeq(ws) /\ Len(ws) = n
    /\ \A i \in 1..n : EntryOK(es[i]) /\ WellWritten(ws[i], i)

ChainInv ==
    /\ entries = [t \in Tenants |-> entries[t]]
    /\ written = [t \in Tenants |-> written[t]]
    /\ sequences \in [Tenants -> 0..MaxLen]
    /\ alterations \in 0..MaxAlterations
    /\ \A t \in Tenants : ChainOf(entries[t], written[t], sequences[t])

LEMMA ChainInit == Init => ChainInv
  BY MaxLenAssumption, EmptyIsSeq DEF Init, ChainInv, ChainOf

LEMMA ChainAppend ==
    ASSUME ChainInv, NEW t \in Tenants, NEW body \in Bodies, NEW resource \in Resources,
           AppendEntry(t, body, resource)
    PROVE  ChainInv'
<1> DEFINE es == entries[t]
           ws == written[t]
           n == sequences[t]
           e == Stored(t, body, resource)
<1>1. ChainOf(es, ws, n) /\ n \in Nat /\ n < MaxLen
  BY MaxLenAssumption DEF ChainInv, ChainOf, AppendEntry
<1>2. e = [body |-> body, resource |-> resource, seq |-> n + 1, prev |-> LastHash(es),
           hash |-> Hash(body, n + 1, LastHash(es))]
  BY DEF Stored
<1>3. n = 0 => LastHash(es) = Genesis
  BY <1>1 DEF LastHash, ChainOf
<1>4. WellWritten(e, n + 1) /\ EntryOK(e)
  BY <1>1, <1>2, <1>3, MaxLenAssumption DEF WellWritten, EntryOK
<1>5. ChainOf(Append(es, e), Append(ws, e), n + 1)
  <2> DEFINE fs == Append(es, e)
             vs == Append(ws, e)
  <2>1. /\ IsSeq(fs) /\ Len(fs) = n + 1 /\ fs[n + 1] = e
        /\ \A i \in 1..n : fs[i] = es[i]
    BY <1>1, AppendAny DEF ChainOf
  <2>2. /\ IsSeq(vs) /\ Len(vs) = n + 1 /\ vs[n + 1] = e
        /\ \A i \in 1..n : vs[i] = ws[i]
    BY <1>1, AppendAny DEF ChainOf
  <2> HIDE DEF e, es, ws, n, fs, vs
  <2>3. \A i \in 1..(n + 1) : i \in 1..n \/ i = n + 1
    BY <1>1
  <2>4. \A i \in 1..(n + 1) : EntryOK(fs[i]) /\ WellWritten(vs[i], i)
    BY <1>1, <1>4, <2>1, <2>2, <2>3 DEF ChainOf
  <2> QED
    BY <2>1, <2>2, <2>4 DEF ChainOf, fs, vs
<1>6. /\ entries' = [entries EXCEPT ![t] = Append(es, e)]
      /\ written' = [written EXCEPT ![t] = Append(ws, e)]
      /\ sequences' = [sequences EXCEPT ![t] = n + 1]
      /\ alterations' = alterations
  BY DEF AppendEntry
<1> HIDE DEF e
<1>7. n + 1 \in 0..MaxLen
  BY <1>1, MaxLenAssumption
<1> QED
  BY <1>5, <1>6, <1>7 DEF ChainInv

LEMMA ChainAssign ==
    ASSUME ChainInv, NEW t \in Tenants, NEW i \in DOMAIN entries[t],
           NEW e, EntryOK(e), Assign(t, i, e)
    PROVE  ChainInv'
<1> DEFINE es == entries[t]
           n == sequences[t]
           fs == With(es, i, e)
<1>1. ChainOf(es, written[t], n)
  BY DEF ChainInv
<1>2. i \in 1..n
  BY <1>1, SeqFacts DEF ChainOf
<1>3. /\ IsSeq(fs) /\ Len(fs) = n
      /\ fs[i] = e /\ \A j \in 1..n : j # i => fs[j] = es[j]
  <2>1. IsSeq(es) /\ Len(es) = n /\ i \in DOMAIN es
    BY <1>1 DEF ChainOf
  <2> HIDE DEF es, n
  <2>2. IsSeq(fs)
    BY <2>1, WithSeq
  <2>5. fs[i] = e
    BY <2>1 DEF With
  <2>3. Len(fs) = Len(es)
    BY <2>1, WithSeq
  <2>4. ASSUME NEW j \in 1..n, j # i PROVE fs[j] = es[j]
    <3>1. j \in 1..Len(es) /\ IsSeq(es) /\ i \in DOMAIN es
      BY <2>1
    <3> QED
      BY <2>4, <3>1, WithSeq
  <2> QED
    BY <2>1, <2>2, <2>3, <2>4, <2>5
<1>4. entries' = [entries EXCEPT ![t] = fs] /\ UNCHANGED <<sequences, written>>
  BY DEF Assign, With
<1>5. alterations' \in 0..MaxAlterations
  BY MaxLenAssumption DEF ChainInv, Assign
<1> HIDE DEF fs
<1>6. ChainOf(fs, written[t], n)
  BY <1>1, <1>3 DEF ChainOf
<1> QED
  BY <1>4, <1>5, <1>6 DEF ChainInv

LEMMA ChainAlter ==
    ASSUME ChainInv, NEW t \in Tenants, Alter(t)
    PROVE  ChainInv'
<1>1. PICK i \in DOMAIN entries[t] :
          AlterBody(t, i) \/ AlterResource(t, i) \/ AlterNumber(t, i)
              \/ AlterPrev(t, i) \/ AlterHash(t, i)
  BY DEF Alter
<1> DEFINE e == entries[t][i]
<1>2. EntryOK(e)
  <2>1. ChainOf(entries[t], written[t], sequences[t])
    BY DEF ChainInv
  <2> QED
    BY <2>1, SeqFacts DEF ChainOf
<1> HIDE DEF e
<1>3. CASE AlterBody(t, i)
  <2>1. PICK x \in Bodies : Assign(t, i, [e EXCEPT !.body = x])
    BY <1>3 DEF AlterBody, e
  <2>2. EntryOK([e EXCEPT !.body = x])
    BY <1>2 DEF EntryOK
  <2> QED
    BY <2>1, <2>2, ChainAssign
<1>4. CASE AlterResource(t, i)
  <2>1. PICK x \in Resources : Assign(t, i, [e EXCEPT !.resource = x])
    BY <1>4 DEF AlterResource, e
  <2>2. EntryOK([e EXCEPT !.resource = x])
    BY <1>2 DEF EntryOK
  <2> QED
    BY <2>1, <2>2, ChainAssign
<1>5. CASE AlterNumber(t, i)
  <2>1. PICK x \in 1..MaxLen : Assign(t, i, [e EXCEPT !.seq = x])
    BY <1>5 DEF AlterNumber, e
  <2>2. EntryOK([e EXCEPT !.seq = x])
    BY <1>2 DEF EntryOK
  <2> QED
    BY <2>1, <2>2, ChainAssign
<1>6. CASE AlterPrev(t, i)
  <2>1. PICK x : Assign(t, i, [e EXCEPT !.prev = x])
    BY <1>6 DEF AlterPrev, e
  <2>2. EntryOK([e EXCEPT !.prev = x])
    BY <1>2 DEF EntryOK
  <2> QED
    BY <2>1, <2>2, ChainAssign
<1>7. CASE AlterHash(t, i)
  <2>1. PICK x : Assign(t, i, [e EXCEPT !.hash = x])
    BY <1>7 DEF AlterHash, e
  <2>2. EntryOK([e EXCEPT !.hash = x])
    BY <1>2 DEF EntryOK
  <2> QED
    BY <2>1, <2>2, ChainAssign
<1> QED
  BY <1>1, <1>3, <1>4, <1>5, <1>6, <1>7

LEMMA ChainStep == ChainInv /\ [Next]_vars => ChainInv'
<1> SUFFICES ASSUME ChainInv, [Next]_vars PROVE ChainInv'
  OBVIOUS
<1>1. CASE UNCHANGED vars
  BY <1>1 DEF vars, ChainInv
<1> QED
  BY <1>1, ChainAppend, ChainAlter DEF Next, Appends

-----------------------------------------------------------------------------
LEMMA ChainFacts ==
    ASSUME ChainInv, NEW t \in Tenants
    PROVE  /\ sequences[t] \in 0..MaxLen
           /\ Len(entries[t]) = sequences[t]
           /\ DOMAIN entries[t] = 1..sequences[t]
           /\ DOMAIN written[t] = 1..sequences[t]
           /\ \A i \in 1..sequences[t] : EntryOK(entries[t][i]) /\ WellWritten(written[t][i], i)
<1>1. ChainOf(entries[t], written[t], sequences[t]) /\ sequences[t] \in 0..MaxLen
  BY DEF ChainInv
<1> QED
  BY <1>1, SeqFacts DEF ChainOf

LEMMA TypeFromChain == ChainInv => TypeOK
<1> SUFFICES ASSUME ChainInv, NEW t \in Tenants
             PROVE  /\ Len(entries[t]) <= MaxLen
                    /\ DOMAIN entries[t] = DOMAIN written[t]
                    /\ \A i \in DOMAIN entries[t] : EntryOK(entries[t][i])
  BY DEF TypeOK, ChainInv, EntryOK
<1> QED
  BY ChainFacts, MaxLenAssumption

(* Every tenant's ledger is as long as what was appended to it, and within *)
(* its bound.                                                              *)
THEOREM TypeCorrect == Spec => []TypeOK
  BY ChainInit, ChainStep, TypeFromChain, PTL DEF Spec

-----------------------------------------------------------------------------
(* The entry of the range before one of the range, and what stands between *)
(* them: nothing.                                                          *)
LEMMA PrecedingIs ==
    ASSUME NEW I \in SUBSET Nat, IsFiniteSet(I), NEW i \in I, \E h \in I : h < i
    PROVE  LET j == Preceding(I, i)
           IN  j \in I /\ j < i /\ \A k \in I : k < i => k <= j
<1> DEFINE B == {k \in I : k < i}
<1>1. B # {} /\ B \subseteq I
  OBVIOUS
<1>2. Max(B) \in B /\ \A k \in B : k <= Max(B)
  <2> HIDE DEF B
  <2>1. IsFiniteSet(B)
    BY <1>1, FS_Subset
  <2>2. B \subseteq Int
    BY <1>1
  <2> QED
    BY <1>1, <2>1, <2>2, MaxIs
<1> QED
  BY <1>2 DEF Preceding

LEMMA RangeFacts ==
    ASSUME ChainInv, NEW t \in Tenants, NEW from \in 1..MaxLen, NEW to \in 1..MaxLen
    PROVE  /\ InRange(t, from, to) \subseteq 1..sequences[t]
           /\ InRange(t, from, to) \in SUBSET Nat /\ IsFiniteSet(InRange(t, from, to))
           /\ \A i \in 1..sequences[t] :
                  i \in InRange(t, from, to) <=> entries[t][i].seq \in from..to
           /\ \A i \in InRange(t, from, to) :
                  EntryOK(entries[t][i]) /\ WellWritten(written[t][i], i)
<1>1. sequences[t] \in Nat
  BY ChainFacts
<1>2. InRange(t, from, to) \subseteq 1..sequences[t]
  BY ChainFacts DEF InRange
<1>3. IsFiniteSet(InRange(t, from, to))
  <2>1. IsFiniteSet(1..sequences[t])
    BY <1>1, FS_Interval
  <2> QED
    BY <1>2, <2>1, FS_Subset
<1>4. ASSUME NEW i \in 1..sequences[t]
      PROVE  i \in InRange(t, from, to) <=> entries[t][i].seq \in from..to
  <2>1. EntryOK(entries[t][i]) /\ i \in DOMAIN entries[t]
    BY ChainFacts
  <2>2. entries[t][i].seq \in 1..MaxLen
    BY <2>1 DEF EntryOK
  <2> QED
    BY <2>1, <2>2, MaxLenAssumption DEF InRange
<1>5. \A i \in InRange(t, from, to) : EntryOK(entries[t][i]) /\ WellWritten(written[t][i], i)
  BY <1>2, ChainFacts
<1> QED
  BY <1>1, <1>2, <1>3, <1>4, <1>5

\* An entry that passes the check has the hash of its fields and of the chain.
LEMMA PassingHash ==
    ASSUME NEW t, NEW from, NEW to, NEW i \in InRange(t, from, to),
           i \notin Mismatched(t, from, to)
    PROVE  entries[t][i].hash = Hash(entries[t][i].body, entries[t][i].seq,
                                     ChainedHash(t, InRange(t, from, to), i))
  BY DEF Mismatched

(* Who is blamed was altered, or chained to what was.                      *)
LEMMA JustBlame ==
    ASSUME ChainInv, NEW t \in Tenants, NEW from \in 1..MaxLen, NEW to \in 1..MaxLen
    PROVE  BlameIsJustified(t, from, to)
<1> DEFINE I == InRange(t, from, to)
<1> SUFFICES ASSUME NEW i \in Mismatched(t, from, to),
                    Content(entries[t][i]) = Content(written[t][i]),
                    entries[t][i].prev = written[t][i].prev,
                    i > 1 => entries[t][i - 1].hash = written[t][i - 1].hash /\ WasChained(t, i),
                    \A j \in 1..(i - 1) : entries[t][j].seq = j
             PROVE  FALSE
  BY DEF BlameIsJustified
<1>1. i \in I /\ i \in 1..sequences[t] /\ sequences[t] \in Nat
  BY RangeFacts, ChainFacts DEF Mismatched
<1>2. Hash(entries[t][i].body, entries[t][i].seq, ChainedHash(t, I, i)) # entries[t][i].hash
  BY DEF Mismatched
<1>3. WellWritten(written[t][i], i)
  BY <1>1, RangeFacts
<1>4. /\ entries[t][i].body = written[t][i].body
      /\ entries[t][i].seq = i
      /\ entries[t][i].hash = Hash(written[t][i].body, i, written[t][i].prev)
  BY <1>3 DEF Content, WellWritten
<1>5. ChainedHash(t, I, i) # written[t][i].prev
  BY <1>2, <1>4
<1>6. ~ \A j \in I : j >= i
  BY <1>5 DEF ChainedHash
<1>7. PICK h \in I : h < i /\ h \in 1..(i - 1)
  BY <1>1, <1>6, RangeFacts
<1>8. i - 1 \in I
  <2>1. h \in from..to /\ i \in from..to
    BY <1>1, <1>4, <1>7, RangeFacts
  <2>2. i - 1 \in 1..sequences[t] /\ i - 1 \in from..to /\ entries[t][i - 1].seq = i - 1
    BY <1>1, <1>7, <2>1
  <2> QED
    BY <2>2, RangeFacts
<1>9. Preceding(I, i) = i - 1
  <2> DEFINE j == Preceding(I, i)
  <2>1. j \in I /\ j < i /\ \A k \in I : k < i => k <= j
    BY <1>1, <1>7, RangeFacts, PrecedingIs
  <2>2. j \in Nat /\ i - 1 <= j
    BY <1>1, <1>8, <2>1, RangeFacts
  <2> QED
    BY <1>1, <2>1, <2>2
<1>10. ChainedHash(t, I, i) = written[t][i - 1].hash /\ WasChained(t, i)
  BY <1>1, <1>6, <1>7, <1>9 DEF ChainedHash
<1> QED
  BY <1>5, <1>10 DEF WasChained

-----------------------------------------------------------------------------
(* The entry at j is the one stored with its number, at most k.            *)
Genuine(t, j, k) ==
    LET s == entries[t][j].seq
    IN  /\ s \in 1..k
        /\ Content(entries[t][j]) = Content(written[t][s])

LEMMA WrittenFacts ==
    ASSUME ChainInv, NEW t \in Tenants, NEW m \in 1..sequences[t]
    PROVE  /\ written[t][m].seq = m
           /\ written[t][m].hash = Hash(written[t][m].body, m, written[t][m].prev)
           /\ m = 1 => written[t][m].prev = Genesis
<1> DEFINE w == written[t][m]
<1>1. WellWritten(w, m)
  BY ChainFacts
<1> HIDE DEF w
<1>2. w.seq = m /\ w.hash = Hash(w.body, m, w.prev) /\ (m = 1 => w.prev = Genesis)
  BY <1>1 DEF WellWritten
<1> QED
  BY <1>2 DEF w

(* A genuine entry that passes makes the one before it genuine.            *)
LEMMA GenuineBefore ==
    ASSUME ChainInv, NEW t \in Tenants, NEW from \in 1..MaxLen, NEW to \in 1..MaxLen,
           NEW k \in 1..sequences[t], \A m \in 2..k : WasChained(t, m),
           NEW j \in InRange(t, from, to), Genuine(t, j, k),
           j \notin Mismatched(t, from, to),
           \E h \in InRange(t, from, to) : h < j,
           Preceding(InRange(t, from, to), j) \notin Mismatched(t, from, to)
    PROVE  LET p == Preceding(InRange(t, from, to), j)
           IN  Genuine(t, p, k) /\ entries[t][p].seq = entries[t][j].seq - 1
<1> DEFINE I == InRange(t, from, to)
           p == Preceding(I, j)
           s == entries[t][j].seq
<1>1. p \in I /\ p < j
  BY RangeFacts, PrecedingIs
<1>2. /\ s \in 1..k /\ k \in Nat /\ s \in 1..sequences[t]
      /\ entries[t][j].hash = written[t][s].hash
  <2>1. sequences[t] \in Nat
    BY ChainFacts
  <2> QED
    BY <2>1 DEF Genuine, Content
<1>3. ChainedHash(t, I, j) = entries[t][p].hash
  BY RangeFacts DEF ChainedHash
<1>4. entries[t][p].hash = written[t][s].prev
  <2>1. entries[t][j].hash = Hash(entries[t][j].body, s, entries[t][p].hash)
    BY <1>3, PassingHash
  <2>2. written[t][s].hash = Hash(written[t][s].body, s, written[t][s].prev)
    BY <1>2, WrittenFacts
  <2>3. Hash(entries[t][j].body, s, entries[t][p].hash) = Hash(written[t][s].body, s, written[t][s].prev)
    BY <1>2, <2>1, <2>2
  <2> QED
    BY <2>3, HashInjective
<1>5. entries[t][p].hash = Hash(entries[t][p].body, entries[t][p].seq, ChainedHash(t, I, p))
  BY <1>1, PassingHash
<1>6. s # 1
  <2>1. s = 1 => written[t][s].prev = Genesis
    BY <1>2, WrittenFacts
  <2> QED
    BY <1>4, <1>5, <2>1, HashInjective
<1> DEFINE q == s - 1
<1>7. q \in 1..k /\ q \in 1..sequences[t] /\ s \in 2..k
  <2> HIDE DEF s
  <2> QED
    BY <1>2, <1>6, ChainFacts
<1>8. entries[t][p].hash = written[t][q].hash
  BY <1>4, <1>7 DEF WasChained
<1>9. written[t][q].seq = q /\ written[t][q].hash = Hash(written[t][q].body, q, written[t][q].prev)
  <2> HIDE DEF q
  <2> QED
    BY <1>7, WrittenFacts
<1>10. entries[t][p].body = written[t][q].body /\ entries[t][p].seq = q
  <2>1. Hash(entries[t][p].body, entries[t][p].seq, ChainedHash(t, I, p))
            = Hash(written[t][q].body, q, written[t][q].prev)
    BY <1>5, <1>8, <1>9
  <2> QED
    BY <2>1, HashInjective
<1>11. Genuine(t, p, k)
  <2> HIDE DEF q, p
  <2> QED
    BY <1>7, <1>8, <1>9, <1>10 DEF Genuine, Content
<1> QED
  BY <1>10, <1>11

(* One genuine hash at the end of a valid range vouches for the whole.     *)
LEMMA Vouching ==
    ASSUME ChainInv, NEW t \in Tenants, NEW from \in 1..MaxLen, NEW to \in 1..MaxLen
    PROVE  HashVouches(t, from, to)
<1> DEFINE I == InRange(t, from, to)
           bad == Mismatched(t, from, to)
<1>a. DOMAIN written[t] = 1..sequences[t] /\ sequences[t] \in Nat
  BY ChainFacts
<1> SUFFICES ASSUME NEW i \in I, NEW k \in 1..sequences[t],
                    entries[t][i].hash = written[t][k].hash,
                    \A j \in bad : j > i,
                    \A m \in 2..k : WasChained(t, m)
             PROVE  /\ entries[t][i].seq = k
                    /\ \A j \in I : j <= i =>
                           LET s == entries[t][j].seq
                           IN  /\ s \in 1..sequences[t]
                               /\ Content(entries[t][j]) = Content(written[t][s])
                               /\ (\E h \in I : h < j) => entries[t][Preceding(I, j)].seq = s - 1
  BY <1>a DEF HashVouches
<1>1. I \in SUBSET Nat /\ IsFiniteSet(I) /\ i \in Nat /\ k \in Nat
  BY <1>a, RangeFacts
<1>2. \A j \in I : j <= i => j \notin bad
  BY <1>1
<1>3. Genuine(t, i, k) /\ entries[t][i].seq = k
  <2>1. entries[t][i].hash = Hash(entries[t][i].body, entries[t][i].seq, ChainedHash(t, I, i))
    BY <1>1, <1>2, PassingHash
  <2>3. written[t][k].hash = Hash(written[t][k].body, k, written[t][k].prev) /\ written[t][k].seq = k
    BY WrittenFacts
  <2>2. Hash(entries[t][i].body, entries[t][i].seq, ChainedHash(t, I, i))
            = Hash(written[t][k].body, k, written[t][k].prev)
    BY <2>1, <2>3
  <2>4. entries[t][i].body = written[t][k].body /\ entries[t][i].seq = k
    BY <2>2, HashInjective
  <2> QED
    BY <1>1, <2>3, <2>4 DEF Genuine, Content
<1>4. ASSUME NEW j \in I, j <= i, Genuine(t, j, k), \E h \in I : h < j
      PROVE  LET p == Preceding(I, j)
             IN  Genuine(t, p, k) /\ entries[t][p].seq = entries[t][j].seq - 1
  <2>1. Preceding(I, j) \in I /\ Preceding(I, j) < j
    BY <1>1, <1>4, PrecedingIs
  <2>2. j \notin bad /\ Preceding(I, j) \notin bad
    BY <1>1, <1>2, <1>4, <2>1
  <2> QED
    BY <1>4, <2>2, GenuineBefore
<1>5. \A j \in I : j <= i => Genuine(t, j, k)
  <2> DEFINE V == {j \in I : j <= i /\ ~Genuine(t, j, k)}
  <2> SUFFICES ASSUME V # {} PROVE FALSE
    OBVIOUS
  <2>1. PICK v \in V : \A j \in V : j <= v
    <3>1. V \subseteq Int /\ IsFiniteSet(V)
      BY <1>1, FS_Subset
    <3> HIDE DEF V
    <3> QED
      BY <3>1, MaxIs
  <2>2. v < i
    BY <1>1, <1>3, <2>1
  <2> DEFINE W == {j \in I : v < j}
  <2>3. PICK u \in W : \A j \in W : u <= j
    <3>1. W \subseteq Int /\ IsFiniteSet(W) /\ W # {}
      BY <1>1, <2>1, <2>2, FS_Subset
    <3> HIDE DEF W, V
    <3> QED
      BY <3>1, MinIs
  <2>4. u \in I /\ v < u /\ u <= i /\ u \notin V
    BY <1>1, <2>1, <2>2, <2>3
  <2>5. Genuine(t, u, k)
    BY <2>4
  <2>6. Preceding(I, u) = v
    <3>1. Preceding(I, u) \in I /\ Preceding(I, u) < u /\ \A j \in I : j < u => j <= Preceding(I, u)
      BY <1>1, <2>1, <2>4, PrecedingIs
    <3>2. v <= Preceding(I, u)
      BY <2>1, <2>4, <3>1
    <3>3. ~(v < Preceding(I, u))
      BY <1>1, <2>3, <2>4, <3>1
    <3> QED
      BY <1>1, <2>1, <3>1, <3>2, <3>3
  <2>7. Genuine(t, v, k)
    BY <1>4, <2>1, <2>4, <2>5, <2>6
  <2> QED
    BY <2>1, <2>7
<1> QED
  BY <1>1, <1>3, <1>4, <1>5, <1>a DEF Genuine

(* For ledgers of any length, any range and any assignments to the entries *)
(* handed out: verifyIntegrity() blames nothing without a cause, and one   *)
(* hash that append() returned vouches for every hashed field up to it.    *)
THEOREM VerdictIsSoundHolds == Spec => []VerdictIsSound
<1>1. ChainInv => VerdictIsSound
  BY JustBlame, Vouching DEF VerdictIsSound
<1> QED
  BY <1>1, ChainInit, ChainStep, PTL DEF Spec

-----------------------------------------------------------------------------
\* The ledger seen as the log of what callers gave.
GivenOf(e) == [body |-> e.body, resource |-> e.resource]
BodiesOf(es) == [i \in DOMAIN es |-> GivenOf(es[i])]

LEMMA BodiesOfAppend ==
    ASSUME NEW es, NEW e, IsSeq(es)
    PROVE  BodiesOf(Append(es, e)) = Append(BodiesOf(es), GivenOf(e))
<1> DEFINE n == Len(es)
           bs == BodiesOf(es)
           S == {bs[i] : i \in 1..n}
<1>1. /\ n \in Nat /\ DOMAIN es = 1..n
      /\ IsSeq(Append(es, e)) /\ Len(Append(es, e)) = n + 1
      /\ \A i \in 1..n : Append(es, e)[i] = es[i]
      /\ Append(es, e)[n + 1] = e
  BY AppendAny
<1>2. DOMAIN Append(es, e) = 1..(n + 1)
  BY <1>1, SeqFacts
<1>3. bs \in [1..n -> S]
  BY <1>1 DEF BodiesOf
<1>4. bs \in Seq(S)
  BY <1>1, <1>3, SeqDef
<1>5. IsSeq(bs)
  BY <1>4 DEF IsSeq
<1>6. Len(bs) = n
  BY <1>1, <1>3, <1>4, LenProperties
<1> HIDE DEF bs, n
<1>7. /\ DOMAIN Append(bs, GivenOf(e)) = 1..(n + 1)
      /\ \A i \in 1..n : Append(bs, GivenOf(e))[i] = bs[i]
      /\ Append(bs, GivenOf(e))[n + 1] = GivenOf(e)
      /\ IsSeq(Append(bs, GivenOf(e)))
  BY <1>5, <1>6, AppendAny, SeqFacts
<1>8. Append(bs, GivenOf(e)) = [i \in 1..(n + 1) |-> Append(bs, GivenOf(e))[i]]
  <2>1. PICK T : Append(bs, GivenOf(e)) \in Seq(T)
    BY <1>7 DEF IsSeq
  <2>2. Append(bs, GivenOf(e)) \in [1..Len(Append(bs, GivenOf(e))) -> T]
    BY <2>1, LenProperties
  <2> QED
    BY <1>7, <2>2
<1>9. BodiesOf(Append(es, e)) = [i \in 1..(n + 1) |-> GivenOf(Append(es, e)[i])]
  BY <1>2 DEF BodiesOf
<1>10. ASSUME NEW i \in 1..(n + 1)
       PROVE  GivenOf(Append(es, e)[i]) = Append(bs, GivenOf(e))[i]
  <2>1. CASE i \in 1..n
    <3>1. bs[i] = GivenOf(es[i])
      BY <1>1, <2>1 DEF bs, BodiesOf
    <3> QED
      BY <1>1, <1>7, <2>1, <3>1
  <2>2. CASE i = n + 1
    BY <1>1, <1>7, <2>2
  <2>3. i \in 1..n \/ i = n + 1
    BY <1>1
  <2> QED
    BY <2>1, <2>2, <2>3
<1> QED
  BY <1>8, <1>9, <1>10 DEF bs

LEMMA EmptyBodies == BodiesOf(<<>>) = <<>>
<1>1. DOMAIN <<>> = 1..0
  BY EmptyIsSeq, SeqFacts
<1>2. BodiesOf(<<>>) \in [1..0 -> {}]
  BY <1>1 DEF BodiesOf
<1>3. BodiesOf(<<>>) \in Seq({}) /\ Len(BodiesOf(<<>>)) = 0
  BY <1>1, <1>2, SeqDef, LenProperties DEF BodiesOf
<1> QED
  BY <1>3, EmptySeq

AppendNext == \E t \in Tenants : Appends(t)

(* A ledger that nobody alters implements the immutable log.               *)
THEOREM Implementation == AppendOnlySpec => ImplementsAuditLog
<1> DEFINE log == [t \in Tenants |-> BodiesOf(entries[t])]
<1>1. Init => Log!Init
  <2> SUFFICES ASSUME Init PROVE \A t \in Tenants : [i \in DOMAIN entries[t] |->
          [body |-> entries[t][i].body, resource |-> entries[t][i].resource]] = <<>>
    BY DEF Log!Init
  <2> QED
    BY EmptyBodies DEF Init, BodiesOf, GivenOf
<1>2. ChainInv /\ [AppendNext]_vars => [Log!Next]_(log)
  <2> SUFFICES ASSUME ChainInv, [AppendNext]_vars PROVE [Log!Next]_log
    OBVIOUS
  <2>1. CASE UNCHANGED vars
    BY <2>1 DEF vars, BodiesOf
  <2>2. ASSUME NEW t \in Tenants, NEW body \in Bodies, NEW resource \in Resources,
               AppendEntry(t, body, resource)
        PROVE  Log!Next
    <3> DEFINE given == [body |-> body, resource |-> resource]
               es == Append(entries[t], Stored(t, body, resource))
    <3>1. IsSeq(entries[t])
      BY DEF ChainInv, ChainOf
    <3>2. entries' = [entries EXCEPT ![t] = es]
      BY <2>2 DEF AppendEntry
    <3>3. GivenOf(Stored(t, body, resource)) = given
      BY DEF Stored, GivenOf
    <3>4. BodiesOf(es) = Append(BodiesOf(entries[t]), given)
      BY <3>1, <3>3, BodiesOfAppend
    <3> HIDE DEF es
    <3>5. \A u \in Tenants : entries'[u] = IF u = t THEN es ELSE entries[u]
      BY <3>2 DEF ChainInv
    <3>6. log' = [log EXCEPT ![t] = Append(@, given)]
      <4>1. log' = [u \in Tenants |-> BodiesOf(IF u = t THEN es ELSE entries[u])]
        BY <3>5
      <4> QED
        BY <3>4, <4>1
    <3>7. given \in [body : Bodies, resource : Resources]
      OBVIOUS
    <3> QED
      BY <3>6, <3>7 DEF Log!Next, Log!Record, BodiesOf, GivenOf
  <2> QED
    BY <2>1, <2>2 DEF AppendNext, Appends
<1>3. [AppendNext]_vars => [Next]_vars
  BY DEF AppendNext, Next
<1>4. log = [t \in Tenants |-> [i \in DOMAIN entries[t] |->
          [body |-> entries[t][i].body, resource |-> entries[t][i].resource]]]
  BY DEF BodiesOf, GivenOf
<1> QED
  BY <1>1, <1>2, <1>3, <1>4, ChainInit, ChainStep, PTL
     DEF AppendOnlySpec, AppendNext, ImplementsAuditLog, Log!Spec, BodiesOf, GivenOf

-----------------------------------------------------------------------------
(* The repository in Cassandra.                                            *)
Careful == ~Overlap /\ MaxLate = 0 /\ ZoneSkew = 0 /\ MaxQuiet <= 2

\* null is not a row.
NoneIsNoRow ==
    \A m, n, e, p, h, v :
        [month |-> m, seq |-> n, id |-> e, payload |-> p, hash |-> h, prev |-> v] # None

-----------------------------------------------------------------------------
(* The inductive invariant. The table holds one chain, in the order of the *)
(* months, and its newest row is not older than getLatestEntry() looks for.*)
(* One call runs at a time, started in this month or the last one, and what*)
(* it has found so far is true of the table.                               *)
Size == Cardinality(table)

RowOK(r) ==
    /\ r = [month |-> r.month, seq |-> r.seq, id |-> r.id, payload |-> r.payload,
            hash |-> r.hash, prev |-> r.prev]
    /\ r.month \in 0..month
    /\ r.seq \in 0..(Size - 1)
    /\ r.id \in Entries /\ pc[r.id] \in {"done", "failed"}
    /\ r.payload \in {"given", "changed"}
    /\ r.payload = "changed" <=> r.id \in altered
    /\ r.hash = <<r.id, "given", r.prev>>

Unique == \A q, r \in table : q.seq = r.seq \/ q.id = r.id => q = r
Gapless == \A i \in 0..(Size - 1) : \E r \in table : r.seq = i
Ordered == \A q, r \in table : q.seq < r.seq => q.month <= r.month
Chained ==
    \A r \in table : /\ r.seq = 0 => r.prev = GenesisHash
                     /\ \A q \in table : q.seq = r.seq - 1 => q.hash = r.prev
Recent == table # {} => \E r \in table : month - r.month <= MaxQuiet

\* What was altered is in the table.
Known == altered \subseteq {r.id : r \in table}

TableInv ==
    /\ IsFiniteSet(table) /\ \A r \in table : RowOK(r)
    /\ Unique /\ Gapless /\ Ordered /\ Chained /\ Recent /\ Known

CallOK(e) ==
    /\ pc[e] \in Running =>
           /\ nowOf[e] \in {month - 1, month} /\ month - nowOf[e] <= MaxQuiet
           /\ tsMonth[e] = nowOf[e]
           /\ \A r \in table : r.month <= nowOf[e]
           /\ \A f \in Entries : pc[f] \in Running => f = e
    /\ pc[e] \in {"idle", "select"} => latest[e] = None
    /\ pc[e] = "idle" => probe[e] = 0
    /\ pc[e] = "select" => \A r \in table : r.month <= nowOf[e] - probe[e]
    /\ pc[e] = "insert" =>
           \/ latest[e] = None /\ table = {}
           \/ /\ latest[e] # None
              /\ \E r \in table : /\ r.seq = latest[e].seq /\ r.hash = latest[e].hash
                                  /\ \A q \in table : q.seq <= r.seq

CallsInv ==
    /\ month \in Months
    /\ pc \in [Entries -> {"idle", "done", "failed"} \cup Running]
    /\ nowOf \in [Entries -> Months] /\ tsMonth \in [Entries -> Months]
    /\ probe \in [Entries -> 0..2]
    /\ latest = [e \in Entries |-> latest[e]]
    /\ \A e \in Entries : latest[e] # None => latest[e].seq \in 0..MaxSeq
    /\ altered \subseteq Entries
    /\ \A e \in Entries : CallOK(e)

RepositoryInv == CallsInv /\ TableInv /\ AcknowledgedIsStored

-----------------------------------------------------------------------------
LEMMA Numbers ==
    ASSUME RepositoryInv
    PROVE  /\ month \in Nat /\ Size \in Nat /\ MaxQuiet \in Nat /\ MaxSeq \in Nat
           /\ \A r \in table : /\ r.seq \in Nat /\ r.seq < Size /\ r.month \in Nat /\ r.month <= month
                               /\ RowOK(r)
           /\ \A e \in Entries : nowOf[e] \in Nat /\ tsMonth[e] \in Nat
<1>1. Size \in Nat /\ MaxSeq \in Nat
  BY FS_CardinalityType, EntriesAssumption DEF RepositoryInv, TableInv, Size, MaxSeq
<1>2. month \in Nat /\ \A e \in Entries : nowOf[e] \in Nat /\ tsMonth[e] \in Nat
  BY MonthsAssumption DEF RepositoryInv, CallsInv, Months
<1>3. ASSUME NEW r \in table
      PROVE  /\ r.seq \in Nat /\ r.seq < Size /\ r.month \in Nat /\ r.month <= month /\ RowOK(r)
  <2>1. RowOK(r)
    BY DEF RepositoryInv, TableInv
  <2>2. r.month \in 0..month /\ r.seq \in 0..(Size - 1)
    BY <2>1 DEF RowOK
  <2> QED
    BY <1>1, <1>2, <2>1, <2>2
<1> QED
  BY <1>1, <1>2, <1>3, MonthsAssumption

(* Every row has an entry of its own, so that there are no more of them.   *)
LEMMA SizeIsBounded ==
    ASSUME RepositoryInv
    PROVE  Size <= MaxSeq
<1> DEFINE f == [r \in table |-> r.id]
<1>1. f \in Injection(table, Entries)
  <2>1. f \in [table -> Entries]
    BY Numbers DEF RowOK
  <2>2. \A q, r \in table : f[q] = f[r] => q = r
    BY DEF RepositoryInv, TableInv, Unique
  <2> QED
    BY <2>1, <2>2 DEF Injection, IsInjective
<1> QED
  BY <1>1, FS_Injection, EntriesAssumption DEF Size, MaxSeq

(* The row of a call is the next of the chain.                             *)
LEMMA RowIsNext ==
    ASSUME RepositoryInv, NEW e \in Entries, pc[e] = "insert"
    PROVE  /\ Row(e).seq = Size
           /\ Size = 0 => Row(e).prev = GenesisHash
           /\ \A q \in table : q.seq = Size - 1 => q.hash = Row(e).prev
           /\ Upsert(Row(e)) = table \cup {Row(e)}
<1>1. CallOK(e)
  BY DEF RepositoryInv, CallsInv
<1>2. IsFiniteSet(table) /\ Gapless /\ Unique
  BY DEF RepositoryInv, TableInv
<1>3. CASE latest[e] = None /\ table = {}
  <2>1. Size = 0
    BY <1>3, FS_EmptySet DEF Size
  <2>2. Row(e).seq = 0 /\ Row(e).prev = GenesisHash
    BY <1>3 DEF Row, NextSeq
  <2>3. Upsert(Row(e)) = table \cup {Row(e)}
    BY <1>3 DEF Upsert
  <2> QED
    BY <1>3, <2>1, <2>2, <2>3
<1>4. CASE latest[e] # None
  <2>1. PICK r \in table : /\ r.seq = latest[e].seq /\ r.hash = latest[e].hash
                           /\ \A q \in table : q.seq <= r.seq
    BY <1>1, <1>4 DEF CallOK
  <2>2. Size \in Nat /\ r.seq \in Nat /\ r.seq < Size
    BY Numbers
  <2>3. r.seq = Size - 1
    <3>1. Size - 1 \in 0..(Size - 1)
      BY <2>2
    <3>2. PICK q \in table : q.seq = Size - 1
      BY <1>2, <3>1 DEF Gapless
    <3>3. q.seq <= r.seq
      BY <2>1
    <3> QED
      BY <2>2, <3>2, <3>3
  <2>4. Row(e).seq = Size /\ Row(e).prev = r.hash
    BY <1>4, <2>1, <2>2, <2>3 DEF Row, NextSeq
  <2>5. \A q \in table : q.seq = Size - 1 => q.hash = Row(e).prev
    BY <1>2, <2>3, <2>4 DEF Unique
  <2>6. Upsert(Row(e)) = table \cup {Row(e)}
    <3>1. \A q \in table : q.seq # Row(e).seq
      BY <2>4, Numbers
    <3> QED
      BY <3>1 DEF Upsert
  <2> QED
    BY <2>2, <2>4, <2>5, <2>6
<1> QED
  BY <1>1, <1>3, <1>4 DEF CallOK

(* The row that an INSERT adds, whether the call learns of it or not.      *)
LEMMA Insertion ==
    ASSUME Careful, NoneIsNoRow, RepositoryInv, NEW e \in Entries, pc[e] = "insert",
           NEW end \in {"done", "failed"}, pc' = [pc EXCEPT ![e] = end], table' = Upsert(Row(e)),
           UNCHANGED <<month, nowOf, tsMonth, probe, latest, altered>>
    PROVE  RepositoryInv'
<1> DEFINE x == Row(e)
<1>1. /\ x.seq = Size /\ table' = table \cup {x}
      /\ Size = 0 => x.prev = GenesisHash
      /\ \A q \in table : q.seq = Size - 1 => q.hash = x.prev
  BY RowIsNext
<1>2. /\ x = [month |-> tsMonth[e], seq |-> x.seq, id |-> e, payload |-> "given",
              hash |-> <<e, "given", x.prev>>, prev |-> x.prev]
      /\ x.month = tsMonth[e] /\ x.id = e /\ x.payload = "given" /\ x.hash = <<e, "given", x.prev>>
  BY DEF Row, ComputeHash
<1> HIDE DEF x
<1>3. /\ nowOf[e] \in {month - 1, month} /\ month - nowOf[e] <= MaxQuiet /\ tsMonth[e] = nowOf[e]
      /\ \A r \in table : r.month <= nowOf[e]
      /\ \A f \in Entries : pc[f] \in Running => f = e
      /\ pc \in [Entries -> {"idle", "done", "failed"} \cup Running]
  BY DEF RepositoryInv, CallsInv, CallOK, Running
<1>4. pc'[e] = end /\ \A f \in Entries \ {e} : pc'[f] = pc[f]
  BY <1>3
<1>5. /\ \A r \in table : r.id # e /\ r.seq # x.seq
      /\ e \notin altered
  <2>1. \A r \in table : r.id # e /\ r.seq # x.seq
    BY <1>1, Numbers DEF RowOK
  <2> QED
    BY <2>1 DEF RepositoryInv, TableInv, Known
<1>6. Size' = Size + 1 /\ IsFiniteSet(table') /\ x \notin table
  <2>1. x \notin table
    BY <1>5
  <2>2. IsFiniteSet(table)
    BY DEF RepositoryInv, TableInv
  <2> QED
    BY <1>1, <2>1, <2>2, FS_AddElement DEF Size
<1>7. x.seq \in Nat /\ x.month \in 0..month
  BY <1>1, <1>2, <1>3, Numbers
<1>8. ASSUME NEW r \in table' PROVE RowOK(r)'
  <2>1. CASE r = x
    BY <1>1, <1>2, <1>4, <1>5, <1>6, <1>7, <2>1 DEF RowOK
  <2>2. CASE r \in table
    <3>1. RowOK(r) /\ r.id # e
      BY <1>5, <2>2, Numbers
    <3>2. 0..(Size - 1) \subseteq 0..(Size' - 1)
      BY <1>6, Numbers
    <3> QED
      BY <1>4, <3>1, <3>2 DEF RowOK
  <2> QED
    BY <1>1, <2>1, <2>2
<1>9. Unique'
  BY <1>1, <1>2, <1>5 DEF RepositoryInv, TableInv, Unique
<1>10. Gapless'
  <2> SUFFICES ASSUME NEW i \in 0..(Size' - 1) PROVE \E r \in table' : r.seq = i
    BY DEF Gapless
  <2>1. CASE i = Size
    BY <1>1, <2>1
  <2>2. CASE i # Size
    <3>1. i \in 0..(Size - 1)
      BY <1>6, <2>2, Numbers
    <3> QED
      BY <1>1, <3>1 DEF RepositoryInv, TableInv, Gapless
  <2> QED
    BY <2>1, <2>2
<1>11. Ordered'
  <2> SUFFICES ASSUME NEW q \in table', NEW r \in table', q.seq < r.seq PROVE q.month <= r.month
    BY DEF Ordered
  <2>1. CASE r = x /\ q \in table
    BY <1>2, <1>3, <2>1
  <2>2. CASE q = x /\ r \in table
    BY <1>1, <2>2, Numbers
  <2>3. CASE q \in table /\ r \in table
    BY <2>3 DEF RepositoryInv, TableInv, Ordered
  <2>4. CASE q = x /\ r = x
    BY <1>7, <2>4
  <2> QED
    BY <1>1, <2>1, <2>2, <2>3, <2>4
<1>12. Chained'
  <2> SUFFICES ASSUME NEW r \in table'
               PROVE  /\ r.seq = 0 => r.prev = GenesisHash
                      /\ \A q \in table' : q.seq = r.seq - 1 => q.hash = r.prev
    BY DEF Chained
  <2>1. CASE r = x
    BY <1>1, <1>7, <2>1
  <2>2. CASE r \in table
    <3>1. x.seq # r.seq - 1
      BY <1>1, <2>2, Numbers
    <3> QED
      BY <1>1, <2>2, <3>1 DEF RepositoryInv, TableInv, Chained
  <2> QED
    BY <1>1, <2>1, <2>2
<1>13. Recent' /\ Known'
  <2>1. month - x.month <= MaxQuiet
    BY <1>2, <1>3
  <2> QED
    BY <1>1, <2>1 DEF RepositoryInv, TableInv, Recent, Known
<1>14. \A f \in Entries : CallOK(f)'
  <2> SUFFICES ASSUME NEW f \in Entries PROVE CallOK(f)'
    OBVIOUS
  <2>1. CASE f = e
    BY <1>4, <2>1 DEF CallOK, Running
  <2>2. CASE f # e
    <3>1. pc[f] \notin Running /\ pc'[f] = pc[f]
      BY <1>3, <1>4, <2>2
    <3> QED
      BY <3>1 DEF RepositoryInv, CallsInv, CallOK, Running
  <2> QED
    BY <2>1, <2>2
<1>15. CallsInv'
  <2>1. pc' \in [Entries -> {"idle", "done", "failed"} \cup Running]
    BY <1>3
  <2> QED
    BY <1>14, <2>1 DEF RepositoryInv, CallsInv
<1>16. AcknowledgedIsStored'
  BY <1>1, <1>2, <1>4 DEF RepositoryInv, AcknowledgedIsStored
<1> QED
  BY <1>6, <1>8, <1>9, <1>10, <1>11, <1>12, <1>13, <1>15, <1>16 DEF RepositoryInv, TableInv

(* The steps of a call that leave the table alone.                         *)
LEMMA SameTable ==
    ASSUME RepositoryInv, UNCHANGED <<month, table, altered>>, CallsInv',
           \A e \in Entries : pc[e] \in {"done", "failed"} => pc'[e] = pc[e],
           \A e \in Entries : pc'[e] = "done" => pc[e] = "done"
    PROVE  RepositoryInv'
<1>1. Size' = Size
  BY DEF Size
<1>2. \A r \in table' : RowOK(r)'
  BY <1>1, Numbers DEF RowOK
<1>3. Unique' /\ Gapless' /\ Ordered' /\ Chained' /\ Recent' /\ Known' /\ IsFiniteSet(table')
  BY <1>1 DEF RepositoryInv, TableInv, Unique, Gapless, Ordered, Chained, Recent, Known
<1>4. AcknowledgedIsStored'
  BY DEF RepositoryInv, AcknowledgedIsStored
<1> QED
  BY <1>2, <1>3, <1>4 DEF RepositoryInv, TableInv

LEMMA StartInv ==
    ASSUME Careful, RepositoryInv, NEW e \in Entries, NEW since \in 0..MaxLate, Start(e, since)
    PROVE  RepositoryInv'
<1>1. /\ pc[e] = "idle" /\ \A f \in Entries : pc[f] \notin Running
      /\ pc' = [pc EXCEPT ![e] = "select"]
      /\ nowOf' = [nowOf EXCEPT ![e] = month]
      /\ tsMonth' = [tsMonth EXCEPT ![e] = month - since]
      /\ since = 0
      /\ UNCHANGED <<month, table, probe, latest, altered>>
  BY DEF Start, Careful
<1>2. /\ month \in Months /\ month \in Nat /\ MaxQuiet \in Nat
      /\ pc \in [Entries -> {"idle", "done", "failed"} \cup Running]
      /\ nowOf \in [Entries -> Months] /\ tsMonth \in [Entries -> Months]
  BY Numbers DEF RepositoryInv, CallsInv
<1>3. /\ pc'[e] = "select" /\ nowOf'[e] = month /\ tsMonth'[e] = month
      /\ \A f \in Entries \ {e} : pc'[f] = pc[f] /\ nowOf'[f] = nowOf[f] /\ tsMonth'[f] = tsMonth[f]
  BY <1>1, <1>2
<1>4. CallOK(e)'
  <2>1. latest[e] = None /\ probe[e] = 0
    BY <1>1 DEF RepositoryInv, CallsInv, CallOK
  <2>2. \A r \in table : r.month <= month
    BY Numbers
  <2>3. \A f \in Entries : pc'[f] \in Running => f = e
    BY <1>1, <1>3
  <2> QED
    BY <1>1, <1>2, <1>3, <2>1, <2>2, <2>3 DEF CallOK, Running
<1>5. ASSUME NEW f \in Entries \ {e} PROVE CallOK(f)'
  <2>1. pc'[f] = pc[f] /\ pc[f] \notin Running
    BY <1>1, <1>3
  <2> QED
    BY <1>1, <2>1 DEF RepositoryInv, CallsInv, CallOK, Running
<1>6. CallsInv'
  <2>1. pc' \in [Entries -> {"idle", "done", "failed"} \cup Running]
    BY <1>1, <1>2 DEF Running
  <2>2. nowOf' \in [Entries -> Months] /\ tsMonth' \in [Entries -> Months]
    BY <1>1, <1>2
  <2> QED
    BY <1>1, <1>4, <1>5, <2>1, <2>2 DEF RepositoryInv, CallsInv
<1> QED
  BY <1>1, <1>3, <1>6, SameTable

LEMMA FailInv ==
    ASSUME RepositoryInv, NEW e \in Entries, pc[e] \in Running,
           pc' = [pc EXCEPT ![e] = "failed"],
           UNCHANGED <<month, table, nowOf, tsMonth, probe, latest, altered>>
    PROVE  RepositoryInv'
<1>1. pc \in [Entries -> {"idle", "done", "failed"} \cup Running]
  BY DEF RepositoryInv, CallsInv
<1>2. pc'[e] = "failed" /\ \A f \in Entries \ {e} : pc'[f] = pc[f]
  BY <1>1
<1>3. \A f \in Entries : CallOK(f)'
  BY <1>2 DEF RepositoryInv, CallsInv, CallOK, Running
<1>4. CallsInv'
  <2>1. pc' \in [Entries -> {"idle", "done", "failed"} \cup Running]
    BY <1>1
  <2> QED
    BY <1>3, <2>1 DEF RepositoryInv, CallsInv
<1> QED
  BY <1>2, <1>4, SameTable DEF Running

(* The first month that is not empty holds the newest row of the table.    *)
LEMMA LatestIsLast ==
    ASSUME RepositoryInv, NEW m \in Int, \A r \in table : r.month <= m, Partition(m) # {}
    PROVE  /\ LatestOf(Partition(m)) \in table
           /\ \A q \in table : q.seq <= LatestOf(Partition(m)).seq
<1> DEFINE rows == Partition(m)
           L == LatestOf(rows)
           f == [r \in rows |-> r.seq]
<1>1. rows \subseteq table /\ \A r \in table : r \in rows <=> r.month = m
  BY DEF Partition
<1>2. IsFiniteSet(rows)
  BY <1>1, FS_Subset DEF RepositoryInv, TableInv
<1> HIDE DEF rows
<1>3. \A r \in rows : f[r] \in Int /\ f[r] = r.seq
  BY <1>1, Numbers
<1>4. \E r \in rows : \A q \in rows : q.seq <= r.seq
  <2> HIDE DEF f
  <2>1. rows # {} => \E r \in rows : \A q \in rows : f[q] <= f[r]
    BY <1>2, <1>3, Greatest
  <2> QED
    BY <1>3, <2>1 DEF rows
<1>5. L \in rows /\ \A q \in rows : q.seq <= L.seq
  BY <1>4 DEF LatestOf
<1>6. ASSUME NEW q \in table PROVE q.seq <= L.seq
  <2>1. CASE q.month = m
    BY <1>1, <1>5, <2>1
  <2>2. CASE q.month # m
    <3>1. L \in table /\ L.month = m /\ q.month < m
      BY <1>1, <1>5, <2>2, Numbers
    <3>2. ~(L.seq < q.seq)
      BY <3>1, Numbers DEF RepositoryInv, TableInv, Ordered
    <3> QED
      BY <3>1, <3>2, Numbers
  <2> QED
    BY <2>1, <2>2
<1> QED
  BY <1>1, <1>5, <1>6 DEF rows

(* A SELECT finds the newest row, or one more month that has none. After   *)
(* three of those the table is empty.                                      *)
LEMMA SelectInv ==
    ASSUME Careful, NoneIsNoRow, RepositoryInv, NEW e \in Entries, Select(e)
    PROVE  RepositoryInv'
<1> DEFINE m == nowOf[e] - probe[e]
           rows == Partition(m)
<1>1. /\ pc[e] = "select" /\ UNCHANGED <<month, table, nowOf, tsMonth, altered>>
  BY DEF Select
<1>2. /\ nowOf[e] \in Nat /\ probe[e] \in 0..2 /\ month \in Nat /\ m \in Int
      /\ nowOf[e] - probe[e] - ZoneSkew = m
  <2>1. nowOf[e] \in Nat /\ probe[e] \in 0..2 /\ month \in Nat
    BY Numbers DEF RepositoryInv, CallsInv
  <2> QED
    BY <2>1 DEF Careful
<1>3. /\ latest[e] = None /\ \A r \in table : r.month <= m
      /\ nowOf[e] <= month
      /\ \A f \in Entries : pc[f] \in Running => f = e
  BY <1>1, <1>2 DEF RepositoryInv, CallsInv, CallOK, Running
<1>4. /\ pc \in [Entries -> {"idle", "done", "failed"} \cup Running]
      /\ probe \in [Entries -> 0..2] /\ latest = [f \in Entries |-> latest[f]]
  BY DEF RepositoryInv, CallsInv
<1>5. \/ /\ rows # {}
         /\ latest' = [latest EXCEPT ![e] = LatestOf(rows)]
         /\ pc' = [pc EXCEPT ![e] = "insert"]
         /\ UNCHANGED probe
      \/ /\ rows = {} /\ probe[e] < 2
         /\ probe' = [probe EXCEPT ![e] = @ + 1]
         /\ UNCHANGED <<pc, latest>>
      \/ /\ rows = {} /\ probe[e] = 2
         /\ pc' = [pc EXCEPT ![e] = "insert"]
         /\ UNCHANGED <<probe, latest>>
  BY <1>2 DEF Select, Probes
<1>6. \A f \in Entries \ {e} : /\ pc'[f] = pc[f] /\ probe'[f] = probe[f]
                               /\ latest'[f] = latest[f] /\ pc[f] \notin Running
  BY <1>3, <1>4, <1>5
<1> SUFFICES /\ CallOK(e)' /\ (latest'[e] # None => latest'[e].seq \in 0..MaxSeq)
             /\ pc'[e] \in Running /\ pc' \in [Entries -> {"idle", "done", "failed"} \cup Running]
             /\ probe' \in [Entries -> 0..2] /\ latest' = [f \in Entries |-> latest'[f]]
  <2>1. \A f \in Entries : CallOK(f)'
    BY <1>1, <1>6 DEF RepositoryInv, CallsInv, CallOK, Running
  <2>2. \A f \in Entries : latest'[f] # None => latest'[f].seq \in 0..MaxSeq
    BY <1>6 DEF RepositoryInv, CallsInv
  <2>3. CallsInv'
    BY <1>1, <2>1, <2>2 DEF RepositoryInv, CallsInv, MaxSeq
  <2>4. \A f \in Entries : pc[f] \in {"done", "failed"} => pc'[f] = pc[f]
    BY <1>1, <1>6
  <2>5. \A f \in Entries : pc'[f] = "done" => pc[f] = "done"
    BY <1>6 DEF Running
  <2> QED
    BY <1>1, <2>3, <2>4, <2>5, SameTable
<1>7. CASE /\ rows # {}
           /\ latest' = [latest EXCEPT ![e] = LatestOf(rows)]
           /\ pc' = [pc EXCEPT ![e] = "insert"]
           /\ UNCHANGED probe
  <2> DEFINE L == LatestOf(rows)
  <2>1. L \in table /\ \A q \in table : q.seq <= L.seq
    BY <1>2, <1>3, <1>7, LatestIsLast
  <2>2. L # None /\ L.seq \in 0..MaxSeq
    <3>1. RowOK(L) /\ L.seq \in Nat /\ L.seq < Size /\ Size \in Nat /\ MaxSeq \in Nat
      BY <2>1, Numbers
    <3>2. Size <= MaxSeq
      BY SizeIsBounded
    <3>3. L # None
      BY <3>1 DEF RowOK, NoneIsNoRow
    <3> QED
      BY <3>1, <3>2, <3>3
  <2>3. latest'[e] = L /\ pc'[e] = "insert" /\ latest' = [f \in Entries |-> latest'[f]]
        /\ pc' \in [Entries -> {"idle", "done", "failed"} \cup Running]
    BY <1>4, <1>7 DEF Running
  <2> HIDE DEF L
  <2>4. CallOK(e)'
    BY <1>1, <1>6, <2>1, <2>2, <2>3 DEF RepositoryInv, CallsInv, CallOK, Running
  <2> QED
    BY <1>4, <1>7, <2>2, <2>3, <2>4 DEF Running
<1>8. CASE /\ rows = {} /\ probe[e] < 2
           /\ probe' = [probe EXCEPT ![e] = @ + 1]
           /\ UNCHANGED <<pc, latest>>
  <2>1. probe'[e] = probe[e] + 1 /\ probe' \in [Entries -> 0..2]
    BY <1>2, <1>4, <1>8
  <2>2. \A r \in table : r.month <= nowOf[e] - probe'[e]
    BY <1>2, <1>3, <1>8, <2>1, Numbers DEF Partition
  <2>3. CallOK(e)'
    BY <1>1, <1>8, <2>2 DEF RepositoryInv, CallsInv, CallOK, Running
  <2> QED
    BY <1>1, <1>3, <1>4, <1>8, <2>1, <2>3 DEF Running
<1>9. CASE /\ rows = {} /\ probe[e] = 2
           /\ pc' = [pc EXCEPT ![e] = "insert"]
           /\ UNCHANGED <<probe, latest>>
  <2>1. table = {}
    <3> SUFFICES ASSUME table # {} PROVE FALSE
      OBVIOUS
    <3>1. PICK r \in table : month - r.month <= MaxQuiet
      BY DEF RepositoryInv, TableInv, Recent
    <3>2. r.month <= m /\ r.month # m /\ m = nowOf[e] - 2
      BY <1>3, <1>9 DEF Partition
    <3> QED
      BY <1>2, <1>3, <3>1, <3>2, Numbers DEF Careful
  <2>2. pc'[e] = "insert" /\ pc' \in [Entries -> {"idle", "done", "failed"} \cup Running]
    BY <1>4, <1>9 DEF Running
  <2>3. CallOK(e)'
    BY <1>1, <1>3, <1>6, <1>9, <2>1, <2>2 DEF RepositoryInv, CallsInv, CallOK, Running
  <2> QED
    BY <1>3, <1>4, <1>9, <2>2, <2>3 DEF Running
<1> QED
  BY <1>5, <1>7, <1>8, <1>9

(* A month ends: the newest row is still one that getLatestEntry() finds.  *)
LEMMA MonthInv ==
    ASSUME RepositoryInv, MonthPasses
    PROVE  RepositoryInv'
<1>1. /\ month < LastMonth /\ month - LastWritten < MaxQuiet /\ month' = month + 1
      /\ \A e \in Entries : pc[e] \in Running => nowOf[e] = month
      /\ UNCHANGED <<table, pc, nowOf, tsMonth, probe, latest, altered>>
  BY DEF MonthPasses
<1>2. month \in Nat /\ LastMonth \in Nat /\ MaxQuiet \in Nat /\ Size' = Size
  BY <1>1, Numbers, MonthsAssumption DEF Size
<1>3. /\ LastWritten \in Nat /\ LastWritten <= month
      /\ table # {} => \E r \in table : r.month = LastWritten
  <2> DEFINE S == {0} \cup {r.month : r \in table}
  <2>1. S \subseteq 0..month /\ S \subseteq Int /\ S # {}
    BY <1>2, Numbers
  <2>2. IsFiniteSet(S)
    <3>1. IsFiniteSet(0..month)
      BY <1>2, FS_Interval
    <3> QED
      BY <2>1, <3>1, FS_Subset
  <2>3. LastWritten = Max(S)
    BY DEF LastWritten
  <2> HIDE DEF S
  <2>4. Max(S) \in S /\ \A n \in S : n <= Max(S)
    BY <2>1, <2>2, MaxIs
  <2>5. LastWritten \in 0..month
    BY <2>1, <2>3, <2>4
  <2>6. ASSUME table # {} PROVE \E r \in table : r.month = LastWritten
    <3>1. CASE LastWritten = 0
      <4>1. PICK r \in table : TRUE
        BY <2>6
      <4>2. r.month \in S /\ r.month \in Nat
        BY Numbers DEF S
      <4>3. r.month <= 0
        BY <2>3, <2>4, <3>1, <4>2
      <4> QED
        BY <3>1, <4>2, <4>3
    <3>2. CASE LastWritten # 0
      BY <2>3, <2>4, <3>2 DEF S
    <3> QED
      BY <3>1, <3>2
  <2> QED
    BY <1>2, <2>5, <2>6
<1>4. Recent'
  <2>1. ASSUME table # {} PROVE \E r \in table : month' - r.month <= MaxQuiet
    <3>1. PICK r \in table : r.month = LastWritten
      BY <1>3, <2>1
    <3>2. month' - r.month <= MaxQuiet
      BY <1>1, <1>2, <1>3, <3>1
    <3> QED
      BY <3>2
  <2> QED
    BY <1>1, <2>1 DEF Recent
<1>5. \A r \in table' : RowOK(r)'
  <2>1. 0..month \subseteq 0..(month + 1)
    BY <1>2
  <2> QED
    BY <1>1, <1>2, <2>1, Numbers DEF RowOK
<1>6. Unique' /\ Gapless' /\ Ordered' /\ Chained' /\ Known' /\ IsFiniteSet(table')
  BY <1>1, <1>2 DEF RepositoryInv, TableInv, Unique, Gapless, Ordered, Chained, Known
<1>7. \A e \in Entries : CallOK(e)'
  <2> SUFFICES ASSUME NEW e \in Entries PROVE CallOK(e)'
    OBVIOUS
  <2>1. CallOK(e)
    BY DEF RepositoryInv, CallsInv
  <2>2. CASE pc[e] \in Running
    <3>1. /\ nowOf[e] = month /\ month' - nowOf[e] <= MaxQuiet
          /\ nowOf[e] \in {month' - 1, month'}
      BY <1>1, <1>2, <1>3, <2>2
    <3> QED
      BY <1>1, <2>1, <2>2, <3>1 DEF CallOK
  <2>3. CASE pc[e] \notin Running
    BY <1>1, <2>1, <2>3 DEF CallOK, Running
  <2> QED
    BY <2>2, <2>3
<1>8. CallsInv'
  <2>1. month' \in Months
    BY <1>1, <1>2 DEF Months
  <2> QED
    BY <1>1, <1>7, <2>1 DEF RepositoryInv, CallsInv, Months, MaxSeq
<1>9. AcknowledgedIsStored'
  BY <1>1 DEF RepositoryInv, AcknowledgedIsStored
<1> QED
  BY <1>4, <1>5, <1>6, <1>8, <1>9 DEF TableInv, RepositoryInv

(* Whoever changes a payload leaves a row at its place in the chain.       *)
LEMMA TamperInv ==
    ASSUME RepositoryInv, NEW r \in table, Tamper(r)
    PROVE  RepositoryInv'
<1> DEFINE x == [r EXCEPT !.payload = "changed"]
<1>1. /\ r.payload = "given" /\ table' = (table \ {r}) \cup {x} /\ altered' = altered \cup {r.id}
      /\ UNCHANGED <<month, pc, nowOf, tsMonth, probe, latest>>
  BY DEF Tamper
<1>2. RowOK(r)
  BY Numbers
<1>3. /\ x = [month |-> r.month, seq |-> r.seq, id |-> r.id, payload |-> "changed",
              hash |-> r.hash, prev |-> r.prev]
      /\ x.month = r.month /\ x.seq = r.seq /\ x.id = r.id /\ x.payload = "changed"
      /\ x.hash = r.hash /\ x.prev = r.prev
  BY <1>2 DEF RowOK
<1> HIDE DEF x
<1>4. \A q \in table \ {r} : q.id # r.id /\ q.seq # r.seq
  BY DEF RepositoryInv, TableInv, Unique
<1>5. x \notin table
  <2>1. x # r
    BY <1>1, <1>3
  <2> QED
    BY <1>3, <1>4, <2>1
<1>6. IsFiniteSet(table') /\ Size' = Size
  <2>1. IsFiniteSet(table)
    BY DEF RepositoryInv, TableInv
  <2>2. IsFiniteSet(table \ {r}) /\ Cardinality(table \ {r}) = Size - 1
    BY <2>1, FS_RemoveElement DEF Size
  <2>3. IsFiniteSet(table') /\ Cardinality(table') = Cardinality(table \ {r}) + 1
    BY <1>1, <1>5, <2>2, FS_AddElement
  <2> QED
    BY <2>2, <2>3, Numbers DEF Size
\* Each row is at the place of one of the table before, and the other way round.
<1>7. /\ \A q \in table' : \E p \in table :
             /\ p.month = q.month /\ p.seq = q.seq /\ p.id = q.id
             /\ p.hash = q.hash /\ p.prev = q.prev
      /\ \A p \in table : \E q \in table' :
             /\ p.month = q.month /\ p.seq = q.seq /\ p.id = q.id
             /\ p.hash = q.hash /\ p.prev = q.prev
  BY <1>1, <1>3
<1>8. ASSUME NEW q \in table' PROVE RowOK(q)'
  <2>1. CASE q = x
    <3>1. /\ x.month \in 0..month' /\ x.seq \in 0..(Size' - 1) /\ x.id \in Entries
          /\ pc'[x.id] \in {"done", "failed"} /\ x.id \in altered'
          /\ x.hash = <<x.id, "given", x.prev>>
      BY <1>1, <1>2, <1>3, <1>6 DEF RowOK
    <3>2. x = [month |-> x.month, seq |-> x.seq, id |-> x.id, payload |-> x.payload,
               hash |-> x.hash, prev |-> x.prev]
      BY <1>3
    <3> QED
      BY <1>3, <2>1, <3>1, <3>2 DEF RowOK
  <2>2. CASE q \in table \ {r}
    BY <1>1, <1>4, <1>6, <2>2, Numbers DEF RowOK
  <2> QED
    BY <1>1, <2>1, <2>2
<1>9. Unique'
  BY <1>1, <1>3, <1>4 DEF RepositoryInv, TableInv, Unique
<1>10. Gapless'
  BY <1>6, <1>7 DEF RepositoryInv, TableInv, Gapless
<1>11. Ordered'
  BY <1>1, <1>3 DEF RepositoryInv, TableInv, Ordered
<1>12. Chained'
  BY <1>1, <1>3 DEF RepositoryInv, TableInv, Chained
<1>13. Recent'
  BY <1>1, <1>7 DEF RepositoryInv, TableInv, Recent
<1>14. Known'
  BY <1>1, <1>3 DEF RepositoryInv, TableInv, Known
<1>15. \A e \in Entries : CallOK(e)'
  <2> SUFFICES ASSUME NEW e \in Entries PROVE CallOK(e)'
    OBVIOUS
  <2>1. CallOK(e)
    BY DEF RepositoryInv, CallsInv
  <2>2. ASSUME NEW n, \A q \in table : q.month <= n PROVE \A q \in table' : q.month <= n
    BY <1>7, <2>2
  <2>3. ASSUME pc[e] = "insert", latest[e] # None
        PROVE  \E q \in table' : /\ q.seq = latest[e].seq /\ q.hash = latest[e].hash
                                 /\ \A p \in table' : p.seq <= q.seq
    <3>1. PICK q \in table : /\ q.seq = latest[e].seq /\ q.hash = latest[e].hash
                             /\ \A p \in table : p.seq <= q.seq
      BY <2>1, <2>3 DEF CallOK
    <3>2. PICK y \in table' : y.seq = q.seq /\ y.hash = q.hash
      BY <1>7
    <3>3. \A p \in table' : p.seq <= y.seq
      BY <1>7, <3>1, <3>2
    <3> QED
      BY <3>1, <3>2, <3>3
  <2>4. table # {}
    OBVIOUS
  <2>5. CASE pc[e] \in Running
    BY <1>1, <2>1, <2>2, <2>3, <2>4, <2>5 DEF CallOK
  <2>6. CASE pc[e] \notin Running
    BY <1>1, <2>1, <2>6 DEF CallOK, Running
  <2> QED
    BY <2>5, <2>6
<1>16. CallsInv'
  BY <1>1, <1>2, <1>15 DEF RepositoryInv, CallsInv, RowOK, MaxSeq
<1>17. AcknowledgedIsStored'
  BY <1>1, <1>7 DEF RepositoryInv, AcknowledgedIsStored
<1> QED
  BY <1>6, <1>8, <1>9, <1>10, <1>11, <1>12, <1>13, <1>14, <1>16, <1>17 DEF RepositoryInv, TableInv

LEMMA RepositoryInitInv == RepositoryInit => RepositoryInv
<1> SUFFICES ASSUME RepositoryInit PROVE RepositoryInv
  OBVIOUS
<1>1. table = {} /\ IsFiniteSet(table) /\ Size = 0
  BY FS_EmptySet DEF RepositoryInit, Size
<1>2. TableInv
  BY <1>1 DEF RepositoryInit, TableInv, Unique, Gapless, Ordered, Chained, Recent, Known
<1>3. CallsInv
  BY MonthsAssumption DEF RepositoryInit, CallsInv, CallOK, Running, Months
<1> QED
  BY <1>2, <1>3 DEF RepositoryInit, RepositoryInv, AcknowledgedIsStored

LEMMA RepositoryNextInv ==
    ASSUME Careful, NoneIsNoRow
    PROVE  RepositoryInv /\ [RepositoryNext]_repositoryVars => RepositoryInv'
<1> SUFFICES ASSUME RepositoryInv, [RepositoryNext]_repositoryVars PROVE RepositoryInv'
  OBVIOUS
<1>1. ASSUME NEW e \in Entries, NEW since \in 0..MaxLate, Start(e, since) PROVE RepositoryInv'
  BY <1>1, StartInv
<1>2. ASSUME NEW e \in Entries, Select(e) PROVE RepositoryInv'
  BY <1>2, SelectInv
<1>3. ASSUME NEW e \in Entries, Insert(e) PROVE RepositoryInv'
  BY <1>3, Insertion DEF Insert
<1>4. ASSUME NEW e \in Entries, Fail(e) PROVE RepositoryInv'
  <2>1. CASE UNCHANGED table
    BY <1>4, <2>1, FailInv DEF Fail
  <2>2. CASE pc[e] = "insert" /\ table' = Upsert(Row(e))
    BY <1>4, <2>2, Insertion DEF Fail
  <2> QED
    BY <1>4, <2>1, <2>2 DEF Fail
<1>5. CASE MonthPasses
  BY <1>5, MonthInv
<1>6. ASSUME NEW r \in table, Tamper(r) PROVE RepositoryInv'
  BY <1>6, TamperInv
<1>7. CASE UNCHANGED repositoryVars
  <2>1. CallsInv'
    BY <1>7 DEF repositoryVars, RepositoryInv, CallsInv, CallOK, Months, MaxSeq
  <2> QED
    BY <1>7, <2>1, SameTable DEF repositoryVars
<1> QED
  BY <1>1, <1>2, <1>3, <1>4, <1>5, <1>6, <1>7 DEF RepositoryNext

(* Statements of append() that fail, with or without effect, months that    *)
(* pass and rows that are altered keep the chain and what a call knows.    *)
THEOREM RepositoryInvariance ==
    ASSUME Careful, NoneIsNoRow
    PROVE  RepositorySpec => []RepositoryInv
<1>1. RepositoryInv /\ [RepositoryNext]_repositoryVars => RepositoryInv'
  BY RepositoryNextInv
<1> QED
  BY <1>1, RepositoryInitInv, PTL DEF RepositorySpec

-----------------------------------------------------------------------------
(* Every variable of the repository keeps the type that the code gives it, *)
(* and no two rows have the same primary key.                              *)
THEOREM RepositoryTypeCorrect ==
    ASSUME Careful, NoneIsNoRow
    PROVE  RepositorySpec => []RepositoryTypeOK
<1>1. RepositoryInv /\ tampering \in BOOLEAN => RepositoryTypeOK
  <2> SUFFICES ASSUME RepositoryInv, tampering \in BOOLEAN PROVE RepositoryTypeOK
    OBVIOUS
  <2>1. ASSUME NEW r \in table
        PROVE  [month |-> r.month, seq |-> r.seq, id |-> r.id, payload |-> r.payload] \in Rows
    <3>1. r.month \in Months
      BY Numbers, MonthsAssumption DEF RepositoryInv, CallsInv, Months
    <3>2. r.seq \in 0..MaxSeq
      BY Numbers, SizeIsBounded
    <3> QED
      BY <3>1, <3>2, Numbers DEF RowOK, Rows
  <2> QED
    BY <2>1 DEF RepositoryTypeOK, RepositoryInv, CallsInv, TableInv, Unique
<1>2. RepositoryInit => tampering \in BOOLEAN
  BY DEF RepositoryInit
<1>3. tampering \in BOOLEAN /\ [RepositoryNext]_repositoryVars => (tampering \in BOOLEAN)'
  BY DEF RepositoryNext, repositoryVars
<1> QED
  BY <1>1, <1>2, <1>3, RepositoryInvariance, PTL DEF RepositorySpec

(* An entry whose append() resolved is in the table and stays there,       *)
(* whatever statements fail after it.                                      *)
THEOREM AcknowledgedIsStoredHolds ==
    ASSUME Careful, NoneIsNoRow
    PROVE  RepositorySpec => []AcknowledgedIsStored
<1>1. RepositoryInv => AcknowledgedIsStored
  BY DEF RepositoryInv
<1> QED
  BY <1>1, RepositoryInvariance, PTL

(* The rows of all the months are one chain from the genesis hash, without *)
(* a gap or a repetition and in the order of the months.                   *)
THEOREM LinearHolds ==
    ASSUME Careful, NoneIsNoRow
    PROVE  RepositorySpec => []Linear
<1>1. RepositoryInv => Linear
  <2> SUFFICES ASSUME RepositoryInv, NEW r \in table
               PROVE  /\ \A q \in table : q.seq = r.seq => q = r
                      /\ \A q \in table : q.seq < r.seq => q.month <= r.month
                      /\ \/ r.seq = 0 /\ r.prev = GenesisHash
                         \/ \E q \in table : q.seq = r.seq - 1 /\ q.hash = r.prev
    BY DEF Linear
  <2>1. CASE r.seq = 0
    BY <2>1 DEF RepositoryInv, TableInv, Unique, Ordered, Chained
  <2>2. CASE r.seq # 0
    <3>1. r.seq - 1 \in 0..(Size - 1)
      BY <2>2, Numbers
    <3>2. \E q \in table : q.seq = r.seq - 1
      BY <3>1 DEF RepositoryInv, TableInv, Gapless
    <3> QED
      BY <3>2 DEF RepositoryInv, TableInv, Unique, Ordered, Chained
  <2> QED
    BY <2>1, <2>2
<1> QED
  BY <1>1, RepositoryInvariance, PTL

-----------------------------------------------------------------------------
(* A month holds a contiguous piece of the chain, so that as many rows as  *)
(* the range is long are the rows of the range.                            *)
LEMMA MonthIsContiguous ==
    ASSUME RepositoryInv, NEW r \in Partition(month), NEW first \in Nat,
           \E p \in Partition(month) : p.seq = first,
           \A p \in Partition(month) : first <= p.seq
    PROVE  Cardinality({q \in Partition(month) : q.seq < r.seq}) = r.seq - first
<1> DEFINE Q == {q \in Partition(month) : q.seq < r.seq}
           I == first..(r.seq - 1)
           f == [q \in Q |-> q.seq]
<1>1. r \in table /\ r.seq \in Nat /\ first <= r.seq /\ month \in Nat /\ Size \in Nat
      /\ r.seq < Size /\ \A q \in Q : q \in table /\ q.seq \in Nat
  BY Numbers DEF Partition
<1>2. IsFiniteSet(Q)
  BY FS_Subset DEF Partition, RepositoryInv, TableInv
<1>3. f \in [Q -> I]
  BY <1>1
<1>4. \A p, q \in Q : f[p] = f[q] => p = q
  BY <1>1 DEF RepositoryInv, TableInv, Unique
<1>5. ASSUME NEW i \in I PROVE \E q \in Q : f[q] = i
  <2>1. i \in 0..(Size - 1) /\ i < r.seq /\ first <= i /\ i \in Nat
    BY <1>1
  <2>2. PICK q \in table : q.seq = i
    BY <2>1 DEF RepositoryInv, TableInv, Gapless
  <2>3. PICK p \in Partition(month) : p.seq = first
    OBVIOUS
  <2>4. q.month = month
    <3>1. p \in table /\ p.month = month
      BY <2>3 DEF Partition
    <3>2. CASE i = first
      BY <2>2, <2>3, <3>1, <3>2 DEF RepositoryInv, TableInv, Unique
    <3>3. CASE i # first
      <4>1. p.seq < q.seq
        BY <2>1, <2>2, <2>3, <3>3
      <4>2. month <= q.month
        BY <3>1, <4>1 DEF RepositoryInv, TableInv, Ordered
      <4> QED
        BY <4>2, Numbers
    <3> QED
      BY <3>2, <3>3
  <2> QED
    BY <2>1, <2>2, <2>4 DEF Partition
<1>6. f \in Bijection(Q, I)
  BY <1>3, <1>4, <1>5 DEF Bijection, Injection, Surjection, IsInjective
<1> HIDE DEF Q, f
<1>7. Cardinality(I) = Cardinality(Q)
  BY <1>2, <1>6, FS_Bijection DEF ExistsBijection
<1>8. Cardinality(I) = r.seq - first
  <2>1. first \in Int /\ r.seq - 1 \in Int
    BY <1>1
  <2>2. Cardinality(I) = IF first > r.seq - 1 THEN 0 ELSE r.seq - 1 - first + 1
    BY <2>1, FS_Interval
  <2> QED
    BY <1>1, <2>2
<1> QED
  BY <1>7, <1>8 DEF Q

(* Verifying the current month from its first entry blames the first row   *)
(* that somebody altered, and none when there is none.                     *)
THEOREM MonthIsVerifiedHolds ==
    ASSUME Careful, NoneIsNoRow
    PROVE  RepositorySpec => []MonthIsVerified
<1>1. RepositoryInv => MonthIsVerified
  <2> DEFINE P == Partition(month)
             first == Min({r.seq : r \in P})
  <2> SUFFICES ASSUME RepositoryInv, P # {}, NEW to \in first..MaxSeq
               PROVE  LET bad == {r \in P : r.seq <= to /\ r.id \in altered}
                      IN  \/ bad = {} /\ Verify(first, to) = None
                          \/ \E r \in bad : /\ \A q \in bad : r.seq <= q.seq
                                            /\ Verify(first, to) = r.id
    BY DEF MonthIsVerified
  <2> DEFINE bad == {r \in P : r.seq <= to /\ r.id \in altered}
             blamed == {r \in Fetched(first, to) :
                           /\ r.seq >= first /\ r.seq <= to
                           /\ ComputeHash(r.id, r.payload, r.prev) # r.hash}
  <2>1. P \subseteq table /\ \A r \in P : r.seq \in Nat /\ RowOK(r)
    BY Numbers DEF Partition
  <2>2. IsFiniteSet(P)
    BY <2>1, FS_Subset DEF RepositoryInv, TableInv
  <2>3. first \in {r.seq : r \in P} /\ \A n \in {r.seq : r \in P} : first <= n
    <3> DEFINE S == {r.seq : r \in P}
    <3>1. S # {} /\ S \subseteq Int
      BY <2>1
    <3>2. S \subseteq 0..(Size - 1) /\ IsFiniteSet(0..(Size - 1))
      <4>1. \A r \in P : r.seq \in 0..(Size - 1)
        BY <2>1 DEF RowOK
      <4>2. 0 \in Int /\ Size - 1 \in Int
        BY Numbers
      <4>3. IsFiniteSet(0..(Size - 1))
        BY <4>2, FS_Interval
      <4> QED
        BY <4>1, <4>3
    <3>3. IsFiniteSet(S)
      BY <3>2, FS_Subset
    <3> HIDE DEF S
    <3> QED
      BY <3>1, <3>3, MinIs DEF S
  <2>4. first \in Nat /\ to \in Int /\ (\E p \in P : p.seq = first) /\ \A p \in P : first <= p.seq
    <3>1. first \in Nat /\ (\E p \in P : p.seq = first) /\ \A p \in P : first <= p.seq
      <4> HIDE DEF first, P
      <4> QED
        BY <2>1, <2>3
    <3>2. MaxSeq \in Nat
      BY Numbers
    <3> HIDE DEF first
    <3> QED
      BY <3>1, <3>2
  <2> HIDE DEF first
  <2>5. ASSUME NEW r \in P PROVE r \in Fetched(first, to) <=> r.seq <= to
    <3>1. Cardinality({q \in P : q.seq < r.seq}) = r.seq - first
      BY <2>4, MonthIsContiguous
    <3>2. r \in Fetched(first, to) <=> Cardinality({q \in P : q.seq < r.seq}) < to - first + 1
      BY DEF Fetched
    <3> QED
      BY <2>1, <2>4, <3>1, <3>2
  <2>6. blamed = bad
    <3>1. Fetched(first, to) \subseteq P
      BY DEF Fetched
    <3>2. \A r \in P : ComputeHash(r.id, r.payload, r.prev) # r.hash <=> r.id \in altered
      BY <2>1 DEF RowOK, ComputeHash
    <3> HIDE DEF P
    <3> QED
      BY <2>1, <2>4, <2>5, <3>1, <3>2
  <2>7. Verify(first, to) = IF bad = {} THEN None
                            ELSE (CHOOSE r \in bad : \A q \in bad : r.seq <= q.seq).id
    <3>1. Verify(first, to) = IF blamed = {} THEN None
                              ELSE (CHOOSE r \in blamed : \A q \in blamed : r.seq <= q.seq).id
      BY DEF Verify
    <3> HIDE DEF blamed, bad
    <3> QED
      BY <2>6, <3>1
  <2>8. bad # {} => \E r \in bad : \A q \in bad : r.seq <= q.seq
    <3> DEFINE f == [r \in bad |-> r.seq]
    <3>1. IsFiniteSet(bad) /\ \A r \in bad : f[r] \in Int /\ f[r] = r.seq
      BY <2>1, <2>2, FS_Subset
    <3> HIDE DEF f, bad
    <3>2. bad # {} => \E r \in bad : \A q \in bad : f[r] <= f[q]
      BY <3>1, Least
    <3> QED
      BY <3>1, <3>2
  <2> HIDE DEF bad
  <2>9. \/ bad = {} /\ Verify(first, to) = None
        \/ \E r \in bad : /\ \A q \in bad : r.seq <= q.seq
                          /\ Verify(first, to) = r.id
    BY <2>7, <2>8
  <2> QED
    BY <2>9 DEF bad
<1> QED
  BY <1>1, RepositoryInvariance, PTL

-----------------------------------------------------------------------------
(* The refinement. The log sees what is kept of each row, in the order of  *)
(* the sequence numbers.                                                   *)
Kept == [id : Entries, payload : {"given", "changed"}, month : Months]
KeptOf(r) == [id |-> r.id, payload |-> r.payload, month |-> r.month]
Entry(i) == KeptOf(CHOOSE r \in table : r.seq = i - 1)
Logged == [i \in 1..Size |-> Entry(i)]

LEMMA EntryIsKept ==
    ASSUME RepositoryInv, NEW i \in 1..Size
    PROVE  Entry(i) \in Kept
<1>1. i - 1 \in 0..(Size - 1)
  BY Numbers
<1>2. \E r \in table : r.seq = i - 1
  BY <1>1 DEF RepositoryInv, TableInv, Gapless
<1>3. (CHOOSE r \in table : r.seq = i - 1) \in table
  BY <1>2
<1>4. \A r \in table : KeptOf(r) \in Kept
  BY Numbers, MonthsAssumption DEF RowOK, KeptOf, Kept, RepositoryInv, CallsInv, Months
<1> QED
  BY <1>3, <1>4 DEF Entry

(* A step of the repository changes the log only by one row at its end.    *)
LEMMA LogStep ==
    ASSUME Careful, ~tampering, NoneIsNoRow, RepositoryInv, RepositoryInv',
           [RepositoryNext]_repositoryVars
    PROVE  \/ Logged' = Logged
           \/ \E e \in Kept : /\ Size' = Size + 1
                             /\ Logged' = [i \in 1..(Size + 1) |->
                                              IF i = Size + 1 THEN e ELSE Logged[i]]
<1>1. ASSUME table' = table PROVE Logged' = Logged
  BY <1>1 DEF Logged, Entry, KeptOf, Size
<1>2. ASSUME NEW e \in Entries, pc[e] = "insert", table' = Upsert(Row(e))
      PROVE  /\ Size' = Size + 1
             /\ Logged' = [i \in 1..(Size + 1) |->
                              IF i = Size + 1 THEN KeptOf(Row(e)) ELSE Logged[i]]
  <2>1. Row(e).seq = Size /\ table' = table \cup {Row(e)}
    BY <1>2, RowIsNext
  <2>2. Size \in Nat /\ IsFiniteSet(table) /\ \A r \in table : r.seq \in Nat /\ r.seq < Size
    BY Numbers DEF RepositoryInv, TableInv
  <2>3. Size' = Size + 1
    <3>1. Row(e) \notin table
      BY <2>1, <2>2
    <3> QED
      BY <2>1, <2>2, <3>1, FS_AddElement DEF Size
  <2>4. ASSUME NEW i \in 1..(Size + 1)
        PROVE  Entry(i)' = IF i = Size + 1 THEN KeptOf(Row(e)) ELSE Logged[i]
    <3>1. CASE i = Size + 1
      <4>1. \A r \in table' : r.seq = i - 1 <=> r = Row(e)
        BY <2>1, <2>2, <3>1
      <4>2. Row(e) \in table'
        BY <2>1
      <4>3. (CHOOSE r \in table' : r.seq = i - 1) = Row(e)
        BY <4>1, <4>2
      <4> QED
        BY <3>1, <4>3 DEF Entry, KeptOf
    <3>2. CASE i # Size + 1
      <4>1. i - 1 \in 0..(Size - 1) /\ i \in 1..Size
        BY <2>2, <3>2
      <4>2. PICK r \in table : r.seq = i - 1
        BY <4>1 DEF RepositoryInv, TableInv, Gapless
      <4>3. \A q \in table' : q.seq = i - 1 <=> q = r
        BY <2>1, <2>2, <4>1, <4>2 DEF RepositoryInv, TableInv, Unique
      <4>4. (CHOOSE q \in table' : q.seq = i - 1) = r
        BY <2>1, <4>2, <4>3
      <4>5. (CHOOSE q \in table : q.seq = i - 1) = r
        BY <2>1, <4>2, <4>3
      <4>6. Entry(i)' = KeptOf(r)
        BY <4>4 DEF Entry, KeptOf
      <4>7. Entry(i) = KeptOf(r)
        BY <4>5 DEF Entry
      <4>8. Logged[i] = Entry(i)
        BY <4>1 DEF Logged
      <4> QED
        BY <3>2, <4>6, <4>7, <4>8
    <3> QED
      BY <3>1, <3>2
  <2>5. Logged' = [i \in 1..(Size + 1) |-> Entry(i)']
    BY <2>3 DEF Logged
  <2> QED
    BY <2>3, <2>4, <2>5
<1>3. \A e \in Entries : pc[e] = "insert" /\ table' = Upsert(Row(e)) => KeptOf(Row(e)) \in Kept
  <2> SUFFICES ASSUME NEW e \in Entries, pc[e] = "insert", table' = Upsert(Row(e))
               PROVE  KeptOf(Row(e)) \in Kept
    OBVIOUS
  <2>1. tsMonth[e] \in Months
    BY DEF RepositoryInv, CallsInv
  <2> QED
    BY <2>1 DEF Row, KeptOf, Kept
<1>4. CASE UNCHANGED repositoryVars
  BY <1>1, <1>4 DEF repositoryVars
<1>5. CASE RepositoryNext
  BY <1>1, <1>2, <1>3, <1>5 DEF RepositoryNext, Start, Select, Insert, Fail, MonthPasses, Tamper
<1> QED
  BY <1>4, <1>5

LEMMA LoggedIsSeq ==
    ASSUME RepositoryInv
    PROVE  Logged \in Seq(Kept) /\ Len(Logged) = Size
<1>2. Size \in Nat /\ Logged \in [1..Size -> Kept] /\ DOMAIN Logged = 1..Size
  BY EntryIsKept, Numbers DEF Logged
<1>3. Logged \in Seq(Kept)
  BY <1>2, SeqDef
<1> QED
  BY <1>2, <1>3, LenProperties

LEMMA LoggedAppend ==
    ASSUME RepositoryInv, NEW e \in Kept
    PROVE  Append(Logged, e) = [i \in 1..(Size + 1) |-> IF i = Size + 1 THEN e ELSE Logged[i]]
<1>1. Logged \in Seq(Kept) /\ Len(Logged) = Size /\ Size \in Nat
  BY LoggedIsSeq, Numbers
<1> HIDE DEF Logged
<1>2. /\ Append(Logged, e) \in Seq(Kept) /\ Len(Append(Logged, e)) = Size + 1
      /\ \A i \in 1..Size : Append(Logged, e)[i] = Logged[i]
      /\ Append(Logged, e)[Size + 1] = e
  BY <1>1, AppendProperties
<1>3. Append(Logged, e) = [i \in 1..(Size + 1) |-> Append(Logged, e)[i]]
  BY <1>1, <1>2, LenProperties
<1>4. \A i \in 1..(Size + 1) : Append(Logged, e)[i] = IF i = Size + 1 THEN e ELSE Logged[i]
  BY <1>1, <1>2
<1> QED
  BY <1>3, <1>4

(* If nobody else writes to it, the table is the immutable log of  *)
(* its rows: an INSERT that arrives adds one at its end, and no statement, *)
(* whichever fails, moves, replaces, changes or loses one.                 *)
THEOREM RepositoryImplementation ==
    ASSUME Careful, NoneIsNoRow
    PROVE  RepositorySpec => RepositoryImplementsAuditLog
<1> DEFINE log == [t \in {None} |-> IF tampering THEN <<>> ELSE Logged]
<1>1. RepositoryInit => RepositoryLog!Init
  <2> SUFFICES ASSUME RepositoryInit PROVE Logged = <<>>
    BY DEF RepositoryLog!Init, Logged, Entry, KeptOf, Size
  <2>1. RepositoryInv
    BY RepositoryInitInv
  <2>2. Size = 0
    BY FS_EmptySet DEF RepositoryInit, Size
  <2>3. Logged \in Seq(Kept) /\ Len(Logged) = 0
    BY <2>1, <2>2, LoggedIsSeq
  <2> QED
    BY <2>3, EmptySeq
<1>2. RepositoryInv /\ RepositoryInv' /\ [RepositoryNext]_repositoryVars => [RepositoryLog!Next]_log
  <2> SUFFICES ASSUME RepositoryInv, RepositoryInv', [RepositoryNext]_repositoryVars, log' # log
               PROVE  \E e \in Kept : log' = [log EXCEPT ![None] = Append(@, e)]
    BY DEF RepositoryLog!Next, RepositoryLog!Record, Logged, Entry, KeptOf, Kept, Size
  <2>1. tampering' = tampering
    BY DEF RepositoryNext, repositoryVars
  <2>2. ~tampering /\ Logged' # Logged
    BY <2>1
  <2>3. PICK e \in Kept :
            Logged' = [i \in 1..(Size + 1) |-> IF i = Size + 1 THEN e ELSE Logged[i]]
    BY <2>2, LogStep
  <2>4. Logged' = Append(Logged, e)
    BY <2>3, LoggedAppend
  <2> HIDE DEF Logged
  <2>5. log' = [log EXCEPT ![None] = Append(@, e)]
    BY <2>1, <2>2, <2>4
  <2> QED
    BY <2>5
<1>3. log = [t \in {None} |-> IF tampering THEN <<>> ELSE [i \in 1..Cardinality(table) |->
          LET row == CHOOSE r \in table : r.seq = i - 1
          IN  [id |-> row.id, payload |-> row.payload, month |-> row.month]]]
  BY DEF Logged, Entry, KeptOf, Size
<1>4. RepositoryInv /\ [RepositoryNext]_repositoryVars => RepositoryInv'
  BY RepositoryNextInv
<1> QED
  BY <1>1, <1>2, <1>3, <1>4, RepositoryInitInv, PTL
     DEF RepositorySpec, RepositoryImplementsAuditLog, RepositoryLog!Spec, Logged, Entry, KeptOf, Kept, Size

-----------------------------------------------------------------------------
(* The two ledgers side by side: what one does is no step of the other.    *)
LEMMA LedgersMoveAlone ==
    [LedgersNext]_<<part, vars, repositoryVars>> => [Next]_vars /\ [RepositoryNext]_repositoryVars
  BY DEF LedgersNext

LEMMA EachIsALedger == LedgersSpec => Spec /\ RepositorySpec
<1>1. LedgersInit => Init /\ RepositoryInit
  BY DEF LedgersInit
<1> QED
  BY <1>1, LedgersMoveAlone, PTL DEF LedgersSpec, Spec, RepositorySpec

(* Whatever is appended, altered and verified, every variable of both      *)
(* ledgers keeps the type that the code gives it.                          *)
THEOREM LedgersTypeCorrect ==
    ASSUME Careful, NoneIsNoRow
    PROVE  LedgersSpec => []LedgersTypeOK
<1>1. Spec => []TypeOK
  BY TypeCorrect
<1>2. RepositorySpec => []RepositoryTypeOK
  BY RepositoryTypeCorrect
<1>3. TypeOK /\ RepositoryTypeOK => LedgersTypeOK
  BY DEF LedgersTypeOK
<1> QED
  BY <1>1, <1>2, <1>3, EachIsALedger, PTL
=============================================================================
