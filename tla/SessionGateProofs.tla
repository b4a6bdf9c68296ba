-------------------------- MODULE SessionGateProofs --------------------------
(***************************************************************************)
(* What the session gate promises for any grants, policies, clocks and     *)
(* cache limit.  What depends on the wall clock never being set back has   *)
(* SetBack = FALSE as an assumption of its theorem.                        *)
(***************************************************************************)
EXTENDS SessionGate, FiniteSetTheorems, TLAPS

\* Whole seconds: what \div keeps and what it drops.
LEMMA WholeSeconds ==
    ASSUME NEW a \in Nat, NEW k \in Nat \ {0}
    PROVE  /\ a \div k \in Nat
           /\ (a \div k) * k <= a
           /\ a < (a \div k + 1) * k
BY SMTT(30)

LEMMA SecondsInOrder ==
    ASSUME NEW x \in Nat, NEW y \in Nat, NEW k \in Nat \ {0}, x * k < (y + 1) * k
    PROVE  x <= y
BY SMTT(30)

\* The wall clock's second never goes back unless the clock is set back.
LEMMA LaterSecond ==
    ASSUME NEW a \in Nat, NEW b \in Nat, NEW k \in Nat \ {0}, a <= b
    PROVE  a \div k <= b \div k
<1>1. /\ a \div k \in Nat /\ b \div k \in Nat
      /\ (a \div k) * k <= a /\ b < (b \div k + 1) * k
  BY WholeSeconds
<1>2. (a \div k) * k < (b \div k + 1) * k
  <2> DEFINE p == (a \div k) * k
             q == (b \div k + 1) * k
  <2>1. p \in Int /\ q \in Int
    BY <1>1
  <2>2. p <= a /\ b < q
    BY <1>1
  <2> HIDE DEF p, q
  <2> QED BY <2>1, <2>2
<1> QED BY <1>1, <1>2, SecondsInOrder

LEMMA SignedFields ==
    ASSUME GateAssumption, signed \in [Jti -> Signable], NEW j \in Jti
    PROVE  /\ signed[j].issued \in Nat /\ signed[j].expires \in Nat
           /\ signed[j].capabilities \subseteq Capability
           /\ signed[j].epoch \in Epoch
BY DEF GateAssumption, Grant

\* Purging only forgets.
LEMMA PurgingForgets ==
    ASSUME GateAssumption, TypeOK
    PROVE  /\ Retained \in [Jti -> Nat]
           /\ \A j \in Jti : Retained[j] \in {0, replay[j]}
           /\ IsFiniteSet(Remembered(Retained))
           /\ Cardinality(Remembered(Retained)) \in Nat
           /\ Cardinality(Remembered(Retained)) <= CacheLimit
<1>1. Retained \in [Jti -> Nat] /\ \A j \in Jti : Retained[j] \in {0, replay[j]}
  BY DEF Retained, TypeOK
<1>2. Remembered(Retained) \subseteq Remembered(replay)
  BY <1>1 DEF Remembered
<1>3. IsFiniteSet(Remembered(replay))
  BY FS_Subset DEF Remembered, GateAssumption
<1>4. /\ IsFiniteSet(Remembered(Retained))
      /\ Cardinality(Remembered(Retained)) <= Cardinality(Remembered(replay))
  BY <1>2, <1>3, FS_Subset
<1>5. Cardinality(Remembered(Retained)) \in Nat /\ Cardinality(Remembered(replay)) \in Nat
  BY <1>3, <1>4, FS_CardinalityType
<1>6. Cardinality(Remembered(replay)) <= CacheLimit /\ CacheLimit \in Nat
  BY DEF TypeOK, GateAssumption
<1> QED BY <1>1, <1>4, <1>5, <1>6

\* What an accepted grant is known to have passed.
LEMMA AcceptedFacts ==
    ASSUME GateAssumption, TypeOK, NEW j \in Jti, NEW scoped, NEW policy,
           NEW envelope \in {"message", "signature", "sound"},
           Preliminary(j, envelope, scoped) = "ok", Judged(j, policy) = "ok"
    PROVE  /\ WallSeconds \in Nat
           /\ signed[j].issued <= WallSeconds /\ WallSeconds < signed[j].expires
           /\ signed[j].expires - signed[j].issued <= MaxLease
           /\ j \notin Remembered(Retained)
           /\ Cardinality(Remembered(Retained)) < CacheLimit
<1>1. ~OutOfTime(signed[j])
  BY DEF Preliminary
<1>2. WallSeconds \in Nat
  BY WholeSeconds DEF TypeOK, GateAssumption, WallSeconds
<1>3. j \notin Remembered(Retained) /\ ~(Cardinality(Remembered(Retained)) >= CacheLimit)
  BY DEF Judged
<1>4. Cardinality(Remembered(Retained)) \in Nat /\ CacheLimit \in Nat /\ MaxLease \in Nat
  BY PurgingForgets DEF GateAssumption
<1>5. signed[j].issued \in Nat /\ signed[j].expires \in Nat
  BY SignedFields DEF TypeOK
<1>6. /\ signed[j].issued <= WallSeconds /\ WallSeconds < signed[j].expires
      /\ signed[j].expires - signed[j].issued <= MaxLease
  BY <1>1, <1>2, <1>4, <1>5 DEF OutOfTime
<1>7. Cardinality(Remembered(Retained)) < CacheLimit
  BY <1>3, <1>4
<1> QED BY <1>2, <1>3, <1>6, <1>7

------------------------------------------------------------------------------
(* Types *)

LEMMA NewGateType ==
    ASSUME GateAssumption, TypeOK, NEW j \in Jti, NEW policy,
           WallSeconds \in Nat, WallSeconds < signed[j].expires
    PROVE  NewGate(signed[j], policy) \in Gate
<1>1. signed[j].expires \in Nat /\ signed[j].capabilities \subseteq Capability
  BY SignedFields DEF TypeOK
<1>2. TicksPerSecond \in Nat /\ MaxSequence \in Nat \ {0} /\ mono \in Nat /\ wall \in Nat
  BY DEF GateAssumption, TypeOK
<1>3. signed[j].expires - WallSeconds \in Nat
  BY <1>1
<1>4. DeadlineOf(signed[j]) \in Nat
  <2> DEFINE n == signed[j].expires - WallSeconds
  <2>1. n \in Nat
    BY <1>3
  <2>2. DeadlineOf(signed[j]) = mono + n * TicksPerSecond
    BY DEF DeadlineOf
  <2> HIDE DEF n
  <2>3. n * TicksPerSecond \in Nat
    BY <2>1, <1>2
  <2> QED BY <2>2, <2>3, <1>2
<1>5. Allowed(signed[j], policy) \in SUBSET Capability
  BY <1>1 DEF Allowed
<1>6. [c \in Channel |-> 0] \in [Channel -> 0 .. MaxSequence]
  BY <1>2
<1> QED BY <1>2, <1>4, <1>5, <1>6 DEF NewGate, Gate

\* The cache of an accepted grant: one more is remembered, within the limit.
LEMMA RememberedOneMore ==
    ASSUME GateAssumption, TypeOK, NEW j \in Jti,
           j \notin Remembered(Retained), Cardinality(Remembered(Retained)) < CacheLimit,
           NEW expires \in Nat \ {0}
    PROVE  /\ [Retained EXCEPT ![j] = expires] \in [Jti -> Nat]
           /\ Cardinality(Remembered([Retained EXCEPT ![j] = expires])) <= CacheLimit
<1> DEFINE cache == [Retained EXCEPT ![j] = expires]
<1>1. Retained \in [Jti -> Nat] /\ IsFiniteSet(Remembered(Retained))
      /\ Cardinality(Remembered(Retained)) \in Nat
  BY PurgingForgets
<1>2. cache \in [Jti -> Nat] /\ cache[j] = expires /\ \A i \in Jti : i # j => cache[i] = Retained[i]
  BY <1>1
<1> HIDE DEF cache
<1>3. Remembered(cache) = Remembered(Retained) \cup {j}
  BY <1>2 DEF Remembered
<1>4. Cardinality(Remembered(cache)) = Cardinality(Remembered(Retained)) + 1
  BY <1>1, <1>3, FS_AddElement
<1>5. CacheLimit \in Nat
  BY DEF GateAssumption
<1>6. Cardinality(Remembered(cache)) <= CacheLimit
  BY <1>1, <1>4, <1>5
<1> QED BY <1>2, <1>6 DEF cache

LEMMA TypesFromInit == ASSUME GateAssumption, Init PROVE TypeOK
<1>1. Remembered(replay) = {}
  BY DEF Init, Remembered
<1>2. Cardinality(Remembered(replay)) = 0
  BY <1>1, FS_EmptySet
<1>3. CacheLimit \in Nat /\ MaxTime \in Nat /\ MaxSequence \in Nat \ {0}
  BY DEF GateAssumption
<1>4. Cardinality(Remembered(replay)) <= CacheLimit
  BY <1>2, <1>3
<1>5. NoGate \in Gate
  <2>1. [c \in Channel |-> 0] \in [Channel -> 0 .. MaxSequence]
    BY <1>3
  <2> QED BY <2>1 DEF NoGate, Gate
<1>6. gate \in [Jti -> Gate]
  BY <1>5 DEF Init
<1>7. answer.verdict \in Verdict
  BY DEF Init, Verdict
<1>8. wall \in 0 .. MaxTime /\ mono \in 0 .. MaxTime
  BY <1>3 DEF Init
<1> QED BY <1>4, <1>6, <1>7, <1>8 DEF Init, TypeOK

LEMMA TypesPreserved ==
    ASSUME GateAssumption, TypeOK, [Next]_vars
    PROVE  TypeOK'
<1>1. ASSUME NEW j \in Jti, NEW envelope \in {"message", "signature", "sound"},
             NEW scoped \in BOOLEAN, NEW policy \in PolicyScopes,
             Verify(j, envelope, scoped, policy)
      PROVE  TypeOK'
  <2> USE <1>1
  <2>1. UNCHANGED <<signed, wall, mono, entered>>
    BY DEF Verify
  <2>2. CASE /\ Preliminary(j, envelope, scoped) # "ok"
             /\ Says("verify", j, Preliminary(j, envelope, scoped))
             /\ UNCHANGED <<replay, gate, accepted>>
    <3>1. answer'.verdict \in Verdict
      BY <2>2 DEF Says, Preliminary, Verdict
    <3> QED BY <2>1, <2>2, <3>1 DEF TypeOK, Remembered
  <2>3. CASE /\ Preliminary(j, envelope, scoped) = "ok" /\ Judged(j, policy) # "ok"
             /\ Says("verify", j, Judged(j, policy))
             /\ replay' = Retained
             /\ UNCHANGED <<gate, accepted>>
    <3>1. answer'.verdict \in Verdict
      BY <2>3 DEF Says, Judged, Verdict
    <3>2. replay' \in [Jti -> Nat] /\ Cardinality(Remembered(replay')) <= CacheLimit
      BY <2>3, PurgingForgets
    <3> QED BY <2>1, <2>3, <3>1, <3>2 DEF TypeOK, Remembered
  <2>4. CASE /\ Preliminary(j, envelope, scoped) = "ok" /\ Judged(j, policy) = "ok"
             /\ Says("verify", j, "ok")
             /\ replay' = [Retained EXCEPT ![j] = signed[j].expires]
             /\ gate' = [gate EXCEPT ![j] = NewGate(signed[j], policy)]
             /\ accepted' = [accepted EXCEPT ![j] = @ + 1]
    <3>1. answer'.verdict \in Verdict
      BY <2>4 DEF Says, Verdict
    <3>2. /\ WallSeconds \in Nat /\ WallSeconds < signed[j].expires
          /\ j \notin Remembered(Retained)
          /\ Cardinality(Remembered(Retained)) < CacheLimit
      BY <2>4, AcceptedFacts
    <3>3. signed[j].expires \in Nat \ {0}
      BY <3>2, SignedFields DEF TypeOK
    <3>4. replay' \in [Jti -> Nat] /\ Cardinality(Remembered(replay')) <= CacheLimit
      BY <2>4, <3>2, <3>3, RememberedOneMore
    <3>5. gate' \in [Jti -> Gate]
      BY <2>4, <3>2, NewGateType DEF TypeOK
    <3>6. accepted' \in [Jti -> Nat]
      BY <2>4 DEF TypeOK
    <3> QED BY <2>1, <3>1, <3>4, <3>5, <3>6 DEF TypeOK, Remembered
  <2> QED BY <2>2, <2>3, <2>4 DEF Verify
<1>2. ASSUME NEW j \in Jti, NEW capability \in Capability, Check(j, capability)
      PROVE  TypeOK'
  <2>1. answer'.verdict \in Verdict
    BY <1>2 DEF Check, Says, Checked, Verdict
  <2> QED BY <1>2, <2>1 DEF Check, TypeOK, Remembered
<1>3. ASSUME NEW j \in Jti, Revoke(j) PROVE TypeOK'
  <2>1. answer'.verdict \in Verdict
    BY <1>3 DEF Revoke, Says, Verdict
  <2>2. gate' \in [Jti -> Gate]
    BY <1>3 DEF Revoke, TypeOK, Gate
  <2> QED BY <1>3, <2>1, <2>2 DEF Revoke, TypeOK, Remembered
<1>4. ASSUME NEW j \in Jti, NEW packet \in Packet, NEW wellFormed \in BOOLEAN,
             ValidateInput(j, packet, wellFormed)
      PROVE  TypeOK'
  <2>1. answer'.verdict \in Verdict
    BY <1>4 DEF ValidateInput, InputVerdict, Checked, Says, Verdict
  <2>2. packet.channel \in Channel /\ packet.sequence \in 0 .. MaxSequence
    BY DEF Packet, GateAssumption
  <2>3. gate' \in [Jti -> Gate]
    <3> DEFINE last == [gate[j].last EXCEPT ![packet.channel] = packet.sequence]
               g == [gate[j] EXCEPT !.last = last]
    <3>1. gate[j] \in Gate /\ gate \in [Jti -> Gate]
      BY DEF TypeOK
    <3>2. last \in [Channel -> 0 .. MaxSequence]
      BY <2>2, <3>1 DEF Gate
    <3>3. g \in Gate
      BY <3>1, <3>2 DEF Gate
    <3>4. gate' = gate \/ gate' = [gate EXCEPT ![j] = g]
      BY <1>4 DEF ValidateInput
    <3> HIDE DEF g
    <3> QED BY <3>1, <3>3, <3>4
  <2>4. entered' \subseteq Entry
    BY <1>4 DEF ValidateInput, TypeOK, Entry
  <2> QED BY <1>4, <2>1, <2>3, <2>4 DEF ValidateInput, TypeOK, Remembered
<1>5. ASSUME Tick PROVE TypeOK'
  BY <1>5 DEF Tick, Says, Verdict, TypeOK, GateAssumption, Remembered
<1>6. ASSUME NEW t \in 0 .. MaxTime, SetClock(t) PROVE TypeOK'
  BY <1>6 DEF SetClock, Says, Verdict, TypeOK, Remembered
<1>7. CASE UNCHANGED vars
  BY <1>7 DEF vars, TypeOK, Remembered
<1> QED BY <1>1, <1>2, <1>3, <1>4, <1>5, <1>6, <1>7 DEF Next

\* Every variable of the gate has its type, and the replay cache never holds
\* more than CacheLimit grants.
THEOREM GateTypeCorrect == Spec => []TypeOK
<1>1. Init => TypeOK
  BY TypesFromInit, GateAssumption
<1>2. TypeOK /\ [Next]_vars => TypeOK'
  BY TypesPreserved, GateAssumption
<1> QED BY <1>1, <1>2, PTL DEF Spec

------------------------------------------------------------------------------
(* Leases *)

\* The arithmetic of one lease: n whole seconds from second w of the wall clock,
\* which stood at tick a, to second e, of k ticks each.
LEMMA LeaseArithmetic ==
    ASSUME NEW a \in Nat, NEW k \in Nat \ {0}, NEW e \in Nat, NEW i \in Nat, NEW most \in Nat,
           i <= a \div k, a \div k < e, e - i <= most
    PROVE  /\ (e - (a \div k)) * k < (e + 1) * k - a
           /\ (e - (a \div k)) * k <= most * k
<1> DEFINE w == a \div k
<1>1. w \in Nat /\ w * k <= a /\ a < (w + 1) * k
  BY WholeSeconds
<1>2. i <= w /\ w < e
  OBVIOUS
<1> HIDE DEF w
<1>3. (e - w) * k = e * k - w * k /\ (w + 1) * k = w * k + k /\ (e + 1) * k = e * k + k
  BY <1>1
<1>4. e * k \in Nat /\ w * k \in Nat
  BY <1>1
<1>5. (e - w) * k < (e + 1) * k - a
  <2> DEFINE p == e * k
             q == w * k
  <2>1. p \in Nat /\ q \in Nat /\ a < q + k
    BY <1>1, <1>3, <1>4
  <2>2. p - q < p + k - a
    <3> HIDE DEF p, q
    <3> QED BY <2>1
  <2> QED BY <1>3, <2>2
<1>6. (e - w) * k <= most * k
  <2> DEFINE n == e - w
             d == most - n
  <2>1. n \in Nat /\ d \in Nat /\ most = n + d
    BY <1>1, <1>2
  <2> HIDE DEF n, d
  <2>2. most * k = n * k + d * k /\ d * k \in Nat /\ n * k \in Nat
    BY <2>1
  <2>3. n * k <= most * k
    <3> DEFINE x == n * k
               y == d * k
               z == most * k
    <3>1. z = x + y /\ x \in Nat /\ y \in Nat
      BY <2>2
    <3> HIDE DEF x, y, z
    <3>2. x <= z
      BY <3>1
    <3> QED BY <3>2 DEF x, z
  <2> QED BY <2>3 DEF n
<1> QED BY <1>5, <1>6 DEF w

LeaseOfGate(g, grant) ==
    /\ g.deadline - g.openedMono < (grant.expires + 1) * TicksPerSecond - g.openedWall
    /\ g.deadline - g.openedMono <= MaxLease * TicksPerSecond

LEMMA NewLease ==
    ASSUME GateAssumption, TypeOK, NEW j \in Jti, NEW scoped, NEW policy,
           NEW envelope \in {"message", "signature", "sound"},
           Preliminary(j, envelope, scoped) = "ok", Judged(j, policy) = "ok"
    PROVE  LeaseOfGate(NewGate(signed[j], policy), signed[j])
<1> DEFINE g == NewGate(signed[j], policy)
           lease == (signed[j].expires - WallSeconds) * TicksPerSecond
<1>1. /\ WallSeconds \in Nat
      /\ signed[j].issued <= WallSeconds /\ WallSeconds < signed[j].expires
      /\ signed[j].expires - signed[j].issued <= MaxLease
  BY AcceptedFacts
<1>2. /\ signed[j].issued \in Nat /\ signed[j].expires \in Nat
      /\ TicksPerSecond \in Nat \ {0} /\ MaxLease \in Nat /\ wall \in Nat /\ mono \in Nat
  BY SignedFields DEF TypeOK, GateAssumption
<1>3. /\ lease < (signed[j].expires + 1) * TicksPerSecond - wall
      /\ lease <= MaxLease * TicksPerSecond
  BY <1>1, <1>2, LeaseArithmetic DEF WallSeconds
<1>4. g.deadline = mono + lease /\ g.openedMono = mono /\ g.openedWall = wall
  BY DEF NewGate, DeadlineOf
<1>5. lease \in Int
  <2>1. signed[j].expires - WallSeconds \in Int
    BY <1>1, <1>2
  <2> QED BY <2>1, <1>2
<1>6. g.deadline - g.openedMono = lease
  <2> HIDE DEF lease, g
  <2> QED BY <1>2, <1>4, <1>5
<1> HIDE DEF g, lease
<1> QED BY <1>3, <1>4, <1>6 DEF LeaseOfGate, g

LeasesHold == \A j \in Jti : accepted[j] > 0 => LeaseOfGate(gate[j], signed[j])

\* What any call leaves of a gate it does not open: its instants, its grant, and
\* a revocation.
GateKept(j) ==
    /\ gate'[j].deadline = gate[j].deadline
    /\ gate'[j].openedMono = gate[j].openedMono /\ gate'[j].openedWall = gate[j].openedWall
    /\ gate[j].revoked => gate'[j].revoked
    /\ accepted'[j] = accepted[j]

\* What it is to open one.
GateOpened(j) ==
    \E envelope \in {"message", "signature", "sound"}, scoped \in BOOLEAN, policy \in PolicyScopes :
        /\ Preliminary(j, envelope, scoped) = "ok" /\ Judged(j, policy) = "ok"
        /\ gate' = [gate EXCEPT ![j] = NewGate(signed[j], policy)]
        /\ accepted' = [accepted EXCEPT ![j] = @ + 1]
        /\ replay' = [Retained EXCEPT ![j] = signed[j].expires]
        /\ UNCHANGED <<signed, wall, mono, entered>>

\* Every step opens one gate or keeps them all.
LEMMA OpensOrKeeps ==
    ASSUME GateAssumption, TypeOK, [Next]_vars
    PROVE  /\ signed' = signed
           /\ \/ \E j \in Jti : GateOpened(j)
              \/ \A j \in Jti : GateKept(j)
<1>1. ASSUME NEW j \in Jti, NEW envelope \in {"message", "signature", "sound"},
             NEW scoped \in BOOLEAN, NEW policy \in PolicyScopes,
             Verify(j, envelope, scoped, policy)
      PROVE  signed' = signed /\ (GateOpened(j) \/ UNCHANGED <<gate, accepted>>)
  BY <1>1 DEF Verify, GateOpened
<1>2. ASSUME NEW j \in Jti, Revoke(j) PROVE signed' = signed /\ \A i \in Jti : GateKept(i)
  <2>1. gate' = [gate EXCEPT ![j] = [gate[j] EXCEPT !.revoked = TRUE]]
        /\ signed' = signed /\ accepted' = accepted
    BY <1>2 DEF Revoke
  <2> QED BY <2>1 DEF GateKept, TypeOK, Gate
<1>3. ASSUME NEW j \in Jti, NEW packet \in Packet, NEW wellFormed \in BOOLEAN,
             ValidateInput(j, packet, wellFormed)
      PROVE  signed' = signed /\ \A i \in Jti : GateKept(i)
  <2> DEFINE last == [gate[j].last EXCEPT ![packet.channel] = packet.sequence]
  <2>1. gate' = gate \/ gate' = [gate EXCEPT ![j] = [gate[j] EXCEPT !.last = last]]
    BY <1>3 DEF ValidateInput
  <2>2. signed' = signed /\ accepted' = accepted
    BY <1>3 DEF ValidateInput
  <2>3. gate \in [Jti -> Gate]
    BY DEF TypeOK
  <2>4. ASSUME NEW i \in Jti
        PROVE  /\ gate'[i].deadline = gate[i].deadline /\ gate'[i].revoked = gate[i].revoked
               /\ gate'[i].openedMono = gate[i].openedMono
               /\ gate'[i].openedWall = gate[i].openedWall
    <3> DEFINE g == [gate[j] EXCEPT !.last = last]
    <3>1. gate[j] \in Gate
      BY <2>3
    <3>2. /\ g.deadline = gate[j].deadline /\ g.revoked = gate[j].revoked
          /\ g.openedMono = gate[j].openedMono /\ g.openedWall = gate[j].openedWall
      BY <3>1 DEF Gate
    <3> HIDE DEF g
    <3>3. gate' = gate \/ gate' = [gate EXCEPT ![j] = g]
      BY <2>1 DEF g
    <3> QED BY <2>3, <3>2, <3>3
  <2> QED BY <2>2, <2>4 DEF GateKept
<1>4. ASSUME UNCHANGED <<gate, accepted>> PROVE \A i \in Jti : GateKept(i)
  BY <1>4 DEF GateKept
<1>5. ASSUME \/ Tick \/ \E t \in 0 .. MaxTime : SetClock(t)
             \/ \E j \in Jti, capability \in Capability : Check(j, capability)
             \/ UNCHANGED vars
      PROVE  signed' = signed /\ UNCHANGED <<gate, accepted>>
  BY <1>5 DEF Tick, SetClock, Check, vars
<1> QED BY <1>1, <1>2, <1>3, <1>4, <1>5 DEF Next

\* A gate that was opened has a lease of its grant's.
THEOREM LeasesAreBounded == Spec => []LeaseIsTheGrants
<1>1. TypeOK /\ LeasesHold => LeaseIsTheGrants
  BY DEF LeasesHold, LeaseOfGate, LeaseIsTheGrants
<1>2. Init => LeasesHold
  BY DEF Init, LeasesHold
<1>3. ASSUME TypeOK, LeasesHold, [Next]_vars PROVE LeasesHold'
  <2>1. signed' = signed /\ ((\E j \in Jti : GateOpened(j)) \/ \A j \in Jti : GateKept(j))
    BY <1>3, OpensOrKeeps, GateAssumption
  <2>2. CASE \A j \in Jti : GateKept(j)
    BY <1>3, <2>1, <2>2 DEF LeasesHold, LeaseOfGate, GateKept
  <2>3. ASSUME NEW j \in Jti, GateOpened(j) PROVE LeasesHold'
    <3>1. PICK envelope \in {"message", "signature", "sound"}, scoped \in BOOLEAN,
               policy \in PolicyScopes :
             /\ Preliminary(j, envelope, scoped) = "ok" /\ Judged(j, policy) = "ok"
             /\ gate' = [gate EXCEPT ![j] = NewGate(signed[j], policy)]
             /\ accepted' = [accepted EXCEPT ![j] = @ + 1]
      BY <2>3 DEF GateOpened
    <3>2. LeaseOfGate(NewGate(signed[j], policy), signed[j])
      BY <1>3, <3>1, NewLease, GateAssumption
    <3>3. /\ gate'[j] = NewGate(signed[j], policy)
          /\ \A i \in Jti : i # j => gate'[i] = gate[i] /\ accepted'[i] = accepted[i]
      BY <1>3, <3>1 DEF TypeOK
    <3> QED BY <1>3, <2>1, <3>2, <3>3 DEF LeasesHold, LeaseOfGate
  <2> QED BY <2>1, <2>2, <2>3
<1> QED BY <1>1, <1>2, <1>3, GateTypeCorrect, PTL DEF Spec

------------------------------------------------------------------------------
(* One acceptance *)

\* An accepted grant is remembered for as long as it could be accepted again.
Accounted(j) ==
    /\ accepted[j] \in {0, 1}
    /\ accepted[j] = 1 => replay[j] = signed[j].expires \/ signed[j].expires <= WallSeconds

AllAccounted == \A j \in Jti : Accounted(j)

\* The cache only changes by being purged, or by remembering a new gate's grant.
LEMMA CacheMoves ==
    ASSUME [Next]_vars
    PROVE  /\ signed' = signed
           /\ \/ \E j \in Jti : GateOpened(j)
              \/ accepted' = accepted /\ replay' \in {replay, Retained}
<1>1. ASSUME NEW j \in Jti, NEW envelope \in {"message", "signature", "sound"},
             NEW scoped \in BOOLEAN, NEW policy \in PolicyScopes,
             Verify(j, envelope, scoped, policy)
      PROVE  /\ signed' = signed
             /\ GateOpened(j) \/ (accepted' = accepted /\ replay' \in {replay, Retained})
  BY <1>1 DEF Verify, GateOpened
<1>2. ASSUME \/ Tick \/ \E t \in 0 .. MaxTime : SetClock(t)
             \/ \E j \in Jti : Revoke(j) \/ (\E capability \in Capability : Check(j, capability))
             \/ UNCHANGED vars
             \/ \E j \in Jti, packet \in Packet, wellFormed \in BOOLEAN :
                    ValidateInput(j, packet, wellFormed)
      PROVE  signed' = signed /\ accepted' = accepted /\ replay' = replay
  BY <1>2 DEF Tick, SetClock, Revoke, Check, ValidateInput, vars
<1> QED BY <1>1, <1>2 DEF Next

\* Unless the wall clock is set back, its second only moves on.
LEMMA WallMovesOn ==
    ASSUME GateAssumption, TypeOK, SetBack = FALSE, [Next]_vars
    PROVE  WallSeconds \in Nat /\ WallSeconds' \in Nat /\ WallSeconds <= WallSeconds'
<1>1. wall \in Nat /\ wall' \in Nat /\ TicksPerSecond \in Nat \ {0}
  BY TypesPreserved DEF TypeOK, GateAssumption
<1>2. wall <= wall'
  <2>1. CASE \E t \in 0 .. MaxTime : SetClock(t)
    BY <2>1, <1>1 DEF SetClock
  <2>2. CASE Tick
    BY <2>2, <1>1 DEF Tick
  <2>3. CASE wall' = wall
    BY <2>3, <1>1
  <2> QED BY <2>1, <2>2, <2>3 DEF Next, Verify, Check, Revoke, ValidateInput, vars
<1> QED BY <1>1, <1>2, WholeSeconds, LaterSecond DEF WallSeconds

\* A grant that opens a gate was never accepted before: it would be in the cache.
LEMMA OnlyFreshGrantsOpen ==
    ASSUME GateAssumption, TypeOK, AllAccounted, NEW j \in Jti, GateOpened(j)
    PROVE  accepted[j] = 0
<1>1. PICK envelope \in {"message", "signature", "sound"}, scoped \in BOOLEAN,
           policy \in PolicyScopes :
         Preliminary(j, envelope, scoped) = "ok" /\ Judged(j, policy) = "ok"
  BY DEF GateOpened
<1>2. WallSeconds \in Nat /\ WallSeconds < signed[j].expires /\ j \notin Remembered(Retained)
  BY <1>1, AcceptedFacts
<1>3. signed[j].expires \in Nat /\ replay[j] \in Nat
  BY SignedFields DEF TypeOK
<1>4. replay[j] # signed[j].expires
  BY <1>2, <1>3 DEF Remembered, Retained, Kept
<1>5. ~(signed[j].expires <= WallSeconds)
  BY <1>2, <1>3
<1>6. Accounted(j)
  BY DEF AllAccounted
<1> QED BY <1>4, <1>5, <1>6 DEF Accounted

LEMMA AccountedStep ==
    ASSUME GateAssumption, TypeOK, SetBack = FALSE, AllAccounted, [Next]_vars
    PROVE  AllAccounted'
<1>1. /\ signed' = signed
      /\ WallSeconds \in Nat /\ WallSeconds' \in Nat /\ WallSeconds <= WallSeconds'
  BY CacheMoves, WallMovesOn
<1>2. \A i \in Jti : signed[i].expires \in Nat /\ replay[i] \in Nat
  BY SignedFields DEF TypeOK
<1>3. ASSUME NEW i \in Jti, accepted'[i] = accepted[i],
             replay'[i] = replay[i] \/ replay'[i] = Retained[i]
      PROVE  Accounted(i)'
  <2>1. Accounted(i)
    BY DEF AllAccounted
  <2>2. replay[i] > WallSeconds => Retained[i] = replay[i]
    BY DEF Retained, Kept
  <2>3. accepted[i] = 1 => \/ replay'[i] = signed[i].expires
                          \/ signed[i].expires <= WallSeconds
    <3>1. CASE replay[i] > WallSeconds
      BY <1>3, <2>1, <2>2, <3>1 DEF Accounted
    <3>2. CASE ~(replay[i] > WallSeconds)
      BY <1>1, <1>2, <2>1, <3>2 DEF Accounted
    <3> QED BY <3>1, <3>2
  <2>4. signed[i].expires <= WallSeconds => signed[i].expires <= WallSeconds'
    BY <1>1, <1>2
  <2> QED BY <1>1, <1>3, <2>1, <2>3, <2>4 DEF Accounted
<1>4. CASE accepted' = accepted /\ replay' \in {replay, Retained}
  BY <1>3, <1>4 DEF AllAccounted
<1>5. ASSUME NEW j \in Jti, GateOpened(j) PROVE AllAccounted'
  <2>3. accepted[j] = 0
    BY <1>5, OnlyFreshGrantsOpen
  <2>4. /\ accepted' = [accepted EXCEPT ![j] = @ + 1]
        /\ replay' = [Retained EXCEPT ![j] = signed[j].expires]
    BY <1>5 DEF GateOpened
  <2>5. accepted'[j] = 1 /\ replay'[j] = signed[j].expires
    BY <2>3, <2>4, PurgingForgets DEF TypeOK
  <2>6. \A i \in Jti : i # j => accepted'[i] = accepted[i] /\ replay'[i] = Retained[i]
    BY <2>4, PurgingForgets DEF TypeOK
  <2>7. Accounted(j)'
    BY <1>1, <2>5 DEF Accounted
  <2> QED BY <1>3, <2>6, <2>7 DEF AllAccounted
<1> QED BY <1>4, <1>5, CacheMoves

LEMMA AlwaysAccounted == ASSUME SetBack = FALSE PROVE Spec => []AllAccounted
<1>1. Init => AllAccounted
  BY DEF Init, AllAccounted, Accounted
<1>2. TypeOK /\ AllAccounted /\ [Next]_vars => AllAccounted'
  BY AccountedStep, GateAssumption
<1> QED BY <1>1, <1>2, GateTypeCorrect, PTL DEF Spec

\* With a wall clock that is never set back, no grant is accepted twice, however
\* small or full the cache and wherever the clock jumps ahead.
THEOREM GrantsAreAcceptedOnce ==
    ASSUME SetBack = FALSE
    PROVE  Spec => []GrantAcceptedOnce
<1>1. AllAccounted => GrantAcceptedOnce
  BY DEF AllAccounted, Accounted, GrantAcceptedOnce
<1> QED BY <1>1, AlwaysAccounted, PTL

------------------------------------------------------------------------------
(* Closed gates *)

\* A gate whose grant was accepted is not opened by any later call.
LEMMA AcceptedIsKept ==
    ASSUME GateAssumption, TypeOK, AllAccounted, [Next]_vars, NEW j \in Jti, accepted[j] > 0
    PROVE  GateKept(j)
<1>1. CASE \A i \in Jti : GateKept(i)
  BY <1>1
<1>2. ASSUME NEW i \in Jti, GateOpened(i) PROVE GateKept(j)
  <2>1. accepted[i] = 0
    BY <1>2, OnlyFreshGrantsOpen
  <2>2. i # j
    BY <2>1
  <2>3. gate'[j] = gate[j] /\ accepted'[j] = accepted[j]
    BY <1>2, <2>2 DEF GateOpened, TypeOK
  <2> QED BY <2>3 DEF GateKept
<1> QED BY <1>1, <1>2, OpensOrKeeps

LEMMA MonotonicClock ==
    ASSUME GateAssumption, TypeOK, [Next]_vars
    PROVE  mono \in Nat /\ mono' \in Nat /\ mono <= mono'
<1>1. mono \in Nat /\ mono' \in Nat
  BY TypesPreserved DEF TypeOK
<1>2. CASE Tick
  BY <1>1, <1>2 DEF Tick
<1>3. CASE mono' = mono
  BY <1>1, <1>3
<1> QED BY <1>1, <1>2, <1>3 DEF Next, SetClock, Verify, Check, Revoke, ValidateInput, vars

\* Calls on a gate that is over are refused.
LEMMA OverRefuses ==
    ASSUME Next, NEW j \in Jti, Over(j)
    PROVE  /\ answer'.op = "check" /\ answer'.subject = j => answer'.verdict # "ok"
           /\ answer'.op = "input" /\ answer'.subject.grant = j => answer'.verdict # "ok"
<1>1. \A c \in Capability : Checked(gate[j], c) = "expired"
  BY DEF Over, Checked, Closed
<1>2. Checked(gate[j], ControlInput) = "expired"
  BY DEF Over, Checked, Closed
<1>3. ASSUME NEW i \in Jti, NEW c \in Capability, Check(i, c)
      PROVE  answer' = [op |-> "check", subject |-> i, verdict |-> Checked(gate[i], c)]
  BY <1>3 DEF Check, Says
<1>4. ASSUME NEW i \in Jti, NEW packet \in Packet, NEW wellFormed \in BOOLEAN,
             ValidateInput(i, packet, wellFormed)
      PROVE  answer' = [op |-> "input", subject |-> [grant |-> i, packet |-> packet],
                        verdict |-> InputVerdict(i, packet, wellFormed)]
  BY <1>4 DEF ValidateInput, Says
<1>5. ASSUME \/ Tick \/ \E t \in 0 .. MaxTime : SetClock(t)
             \/ \E i \in Jti : Revoke(i)
             \/ \E i \in Jti, envelope \in {"message", "signature", "sound"}, scoped \in BOOLEAN,
                   policy \in PolicyScopes : Verify(i, envelope, scoped, policy)
      PROVE  answer'.op \notin {"check", "input"}
  BY <1>5 DEF Tick, SetClock, Revoke, Verify, Says
<1>6. \A packet, wellFormed : InputVerdict(j, packet, wellFormed) # "ok"
  BY <1>2 DEF InputVerdict
<1> QED BY <1>1, <1>3, <1>4, <1>5, <1>6 DEF Next

\* With a wall clock that is never set back, a revoked, disconnected or expired
\* gate admits nothing ever again: its own grant cannot reopen it.
THEOREM ClosedGatesStayClosed ==
    ASSUME SetBack = FALSE
    PROVE  Spec => ClosedStaysClosed
<1> DEFINE Stays == \A j \in Jti :
              accepted[j] > 0 /\ Over(j) =>
                  /\ Over(j)'
                  /\ answer'.op = "check" /\ answer'.subject = j => answer'.verdict # "ok"
                  /\ answer'.op = "input" /\ answer'.subject.grant = j => answer'.verdict # "ok"
<1>1. TypeOK /\ AllAccounted /\ [Next]_vars => [Stays]_vars
  <2> SUFFICES ASSUME TypeOK, AllAccounted, Next, NEW j \in Jti, accepted[j] > 0, Over(j)
               PROVE  /\ Over(j)'
                      /\ answer'.op = "check" /\ answer'.subject = j => answer'.verdict # "ok"
                      /\ answer'.op = "input" /\ answer'.subject.grant = j
                            => answer'.verdict # "ok"
    OBVIOUS
  <2>1. GateKept(j)
    BY AcceptedIsKept, GateAssumption
  <2>2. gate[j].deadline \in Nat /\ mono \in Nat /\ mono' \in Nat /\ mono <= mono'
    BY MonotonicClock, GateAssumption DEF TypeOK, Gate
  <2>3. Over(j)'
    BY <2>1, <2>2 DEF GateKept, Over
  <2> QED BY <2>3, OverRefuses
<1> QED BY <1>1, GateTypeCorrect, AlwaysAccounted, PTL DEF Spec, ClosedStaysClosed

------------------------------------------------------------------------------
(* Input *)

\* A gate that was never opened is revoked; what entered through a gate has its
\* epoch and is counted in its sequences.
InputsAccounted ==
    /\ \A j \in Jti : accepted[j] = 0 => gate[j].revoked
    /\ \A entry \in entered :
          /\ accepted[entry.grant] > 0
          /\ entry.packet.epoch = signed[entry.grant].epoch
          /\ entry.packet.sequence <= gate[entry.grant].last[entry.packet.channel]

\* What an accepted packet is, and what it leaves: it is later than anything its
\* gate had seen on the channel, and no other gate or channel is touched.
LEMMA InputSteps ==
    ASSUME GateAssumption, TypeOK, NEW j \in Jti, NEW packet \in Packet, NEW wellFormed \in BOOLEAN,
           ValidateInput(j, packet, wellFormed), InputVerdict(j, packet, wellFormed) = "ok"
    PROVE  /\ ~gate[j].revoked
           /\ packet.epoch = signed[j].epoch
           /\ packet.channel \in Channel /\ packet.sequence \in Nat
           /\ gate[j].last[packet.channel] < packet.sequence
           /\ entered' = entered \cup {[grant |-> j, packet |-> packet]}
           /\ gate'[j].last[packet.channel] = packet.sequence
           /\ \A c \in Channel : c # packet.channel => gate'[j].last[c] = gate[j].last[c]
           /\ \A i \in Jti : i # j => gate'[i] = gate[i]
<1> DEFINE last == [gate[j].last EXCEPT ![packet.channel] = packet.sequence]
           g == [gate[j] EXCEPT !.last = last]
<1>1. gate \in [Jti -> Gate] /\ gate[j] \in Gate
  BY DEF TypeOK
<1>2. packet.channel \in Channel /\ packet.sequence \in Nat /\ MaxSequence \in Nat
  BY DEF Packet, GateAssumption
<1>3. gate[j].last \in [Channel -> 0 .. MaxSequence]
  BY <1>1 DEF Gate
<1>4. ~gate[j].revoked /\ packet.epoch = signed[j].epoch /\ ~(packet.sequence <= gate[j].last[packet.channel])
  BY DEF InputVerdict, Checked, Closed, OtherEpoch, Stale
<1>5. gate' = [gate EXCEPT ![j] = g] /\ entered' = entered \cup {[grant |-> j, packet |-> packet]}
  BY DEF ValidateInput
<1>6. g.last = last
  BY <1>1 DEF Gate
<1>7. last[packet.channel] = packet.sequence
      /\ \A c \in Channel : c # packet.channel => last[c] = gate[j].last[c]
  BY <1>2, <1>3
<1> HIDE DEF g, last
<1>8. gate'[j] = g /\ \A i \in Jti : i # j => gate'[i] = gate[i]
  BY <1>1, <1>5
<1>9. gate[j].last[packet.channel] \in Nat
  BY <1>2, <1>3
<1> QED BY <1>2, <1>4, <1>5, <1>6, <1>7, <1>8, <1>9

LEMMA InputsAccountedStep ==
    ASSUME GateAssumption, TypeOK, AllAccounted, InputsAccounted, [Next]_vars
    PROVE  InputsAccounted'
<1> USE DEF InputsAccounted
<1>1. signed' = signed /\ TypeOK'
  BY OpensOrKeeps, TypesPreserved
<1>2. ASSUME \A i \in Jti : \/ gate'[i] = gate[i]
                             \/ (gate'[i].revoked /\ gate'[i].last = gate[i].last),
             UNCHANGED <<accepted, entered>>
      PROVE  InputsAccounted'
  BY <1>1, <1>2 DEF TypeOK, Entry
<1>3. ASSUME NEW j \in Jti, NEW envelope \in {"message", "signature", "sound"},
             NEW scoped \in BOOLEAN, NEW policy \in PolicyScopes,
             Verify(j, envelope, scoped, policy)
      PROVE  InputsAccounted'
  <2>1. GateOpened(j) \/ UNCHANGED <<gate, accepted, entered>>
    BY <1>3 DEF Verify, GateOpened
  <2>2. CASE GateOpened(j)
    <3>1. accepted[j] = 0 /\ accepted' = [accepted EXCEPT ![j] = @ + 1] /\ entered' = entered
      BY <2>2, OnlyFreshGrantsOpen DEF GateOpened
    <3>2. accepted'[j] = 1 /\ \A i \in Jti : i # j => accepted'[i] = accepted[i]
      BY <3>1 DEF TypeOK
    <3>3. \A i \in Jti : i # j => gate'[i] = gate[i]
      BY <2>2 DEF GateOpened, TypeOK
    <3>4. \A entry \in entered : entry.grant \in Jti /\ entry.grant # j
      BY <3>1 DEF TypeOK, Entry
    <3> QED BY <1>1, <3>1, <3>2, <3>3, <3>4
  <2>3. CASE UNCHANGED <<gate, accepted, entered>>
    BY <1>2, <2>3
  <2> QED BY <2>1, <2>2, <2>3
<1>4. ASSUME NEW j \in Jti, Revoke(j) PROVE InputsAccounted'
  <2> DEFINE g == [gate[j] EXCEPT !.revoked = TRUE]
  <2>1. gate' = [gate EXCEPT ![j] = g] /\ UNCHANGED <<accepted, entered>>
    BY <1>4 DEF Revoke
  <2>2. g.revoked /\ g.last = gate[j].last
    BY DEF TypeOK, Gate
  <2> HIDE DEF g
  <2>3. gate'[j] = g /\ \A i \in Jti : i # j => gate'[i] = gate[i]
    BY <2>1 DEF TypeOK
  <2> QED BY <1>2, <2>1, <2>2, <2>3
<1>5. ASSUME NEW j \in Jti, NEW packet \in Packet, NEW wellFormed \in BOOLEAN,
             ValidateInput(j, packet, wellFormed)
      PROVE  InputsAccounted'
  <2>1. CASE InputVerdict(j, packet, wellFormed) # "ok"
    <3>1. UNCHANGED <<gate, accepted, entered>>
      BY <1>5, <2>1 DEF ValidateInput
    <3> QED BY <1>2, <3>1
  <2>2. CASE InputVerdict(j, packet, wellFormed) = "ok"
    <3>1. /\ ~gate[j].revoked
          /\ packet.epoch = signed[j].epoch
          /\ packet.channel \in Channel /\ packet.sequence \in Nat
          /\ gate[j].last[packet.channel] < packet.sequence
          /\ entered' = entered \cup {[grant |-> j, packet |-> packet]}
          /\ gate'[j].last[packet.channel] = packet.sequence
          /\ \A c \in Channel : c # packet.channel => gate'[j].last[c] = gate[j].last[c]
          /\ \A i \in Jti : i # j => gate'[i] = gate[i]
      BY <1>5, <2>2, InputSteps
    <3>2. accepted' = accepted /\ accepted[j] \in Nat /\ accepted[j] # 0
      BY <1>5, <3>1 DEF ValidateInput, TypeOK
    <3>3. \A i \in Jti : accepted'[i] = 0 => gate'[i].revoked
      BY <3>1, <3>2
    <3>4. ASSUME NEW entry \in entered
          PROVE  /\ accepted'[entry.grant] > 0
                 /\ entry.packet.epoch = signed'[entry.grant].epoch
                 /\ entry.packet.sequence <= gate'[entry.grant].last[entry.packet.channel]
      <4>1. /\ entry.grant \in Jti /\ entry.packet.channel \in Channel
            /\ entry.packet.sequence \in Nat
        BY DEF TypeOK, Entry, Packet, GateAssumption
      <4>2. gate[j].last[packet.channel] \in Nat
        BY <3>1 DEF TypeOK, Gate
      <4>3. CASE entry.grant = j /\ entry.packet.channel = packet.channel
        BY <1>1, <3>1, <3>2, <4>1, <4>2, <4>3
      <4>4. CASE entry.grant # j \/ entry.packet.channel # packet.channel
        BY <1>1, <3>1, <3>2, <4>1, <4>4
      <4> QED BY <4>3, <4>4
    <3>5. \A entry \in entered' : \/ entry \in entered
                                  \/ (entry.grant = j /\ entry.packet = packet)
      BY <3>1
    <3>6. packet.sequence <= gate'[j].last[packet.channel] /\ accepted'[j] > 0
      BY <3>1, <3>2
    <3> QED BY <1>1, <3>1, <3>3, <3>4, <3>5, <3>6
  <2> QED BY <2>1, <2>2
<1>6. ASSUME \/ Tick \/ \E t \in 0 .. MaxTime : SetClock(t)
             \/ \E j \in Jti, capability \in Capability : Check(j, capability)
             \/ UNCHANGED vars
      PROVE  InputsAccounted'
  <2>1. UNCHANGED <<gate, accepted, entered>>
    BY <1>6 DEF Tick, SetClock, Check, vars
  <2> QED BY <1>2, <2>1
<1> QED BY <1>3, <1>4, <1>5, <1>6 DEF Next

\* With a wall clock that is never set back, no packet enters twice through the
\* gate of a grant, nor after it through the gate of a grant of another epoch.
THEOREM InputsAreEnteredOnce ==
    ASSUME SetBack = FALSE
    PROVE  Spec => InputsEnterOnce
<1> DEFINE Once == answer'.op = "input" /\ answer'.verdict = "ok" =>
              \A entry \in entered :
                 entry.packet = answer'.subject.packet =>
                     /\ entry.grant # answer'.subject.grant
                     /\ signed[entry.grant].epoch = signed[answer'.subject.grant].epoch
<1>1. Init => InputsAccounted
  BY DEF Init, InputsAccounted, NoGate
<1>2. TypeOK /\ AllAccounted /\ InputsAccounted /\ [Next]_vars => InputsAccounted'
  BY InputsAccountedStep, GateAssumption
<1>3. TypeOK /\ InputsAccounted /\ [Next]_vars => [Once]_vars
  <2> SUFFICES ASSUME TypeOK, InputsAccounted, Next, answer'.op = "input", answer'.verdict = "ok",
                      NEW entry \in entered, entry.packet = answer'.subject.packet
               PROVE  /\ entry.grant # answer'.subject.grant
                      /\ signed[entry.grant].epoch = signed[answer'.subject.grant].epoch
    OBVIOUS
  <2>1. PICK j \in Jti, packet \in Packet, wellFormed \in BOOLEAN :
           ValidateInput(j, packet, wellFormed)
    BY DEF Next, Tick, SetClock, Revoke, Verify, Check, Says
  <2>2. answer' = [op |-> "input", subject |-> [grant |-> j, packet |-> packet],
                   verdict |-> InputVerdict(j, packet, wellFormed)]
    BY <2>1 DEF ValidateInput, Says
  <2>3. /\ packet.epoch = signed[j].epoch
        /\ packet.sequence \in Nat
        /\ packet.channel \in Channel
        /\ gate[j].last[packet.channel] < packet.sequence
    BY <2>1, <2>2, InputSteps, GateAssumption
  <2>4. /\ entry.packet.epoch = signed[entry.grant].epoch
        /\ entry.packet.sequence <= gate[entry.grant].last[entry.packet.channel]
    BY DEF InputsAccounted
  <2>5. answer'.subject.grant = j /\ entry.packet = packet
    BY <2>2
  <2>6. gate[j].last[packet.channel] \in Nat
    BY <2>3 DEF TypeOK, Gate
  <2> QED BY <2>3, <2>4, <2>5, <2>6
<1> QED BY <1>1, <1>2, <1>3, GateTypeCorrect, AlwaysAccounted, PTL DEF Spec, InputsEnterOnce

------------------------------------------------------------------------------
(* A full cache refuses, and recovers *)

\* What the cache remembers was accepted, and is remembered until it expires.
\* This holds whichever way the wall clock is set.
Deserved(j) == replay[j] # 0 => accepted[j] > 0 /\ replay[j] = signed[j].expires

AllDeserved == \A j \in Jti : Deserved(j)

LEMMA DeservedStep ==
    ASSUME GateAssumption, TypeOK, AllDeserved, [Next]_vars
    PROVE  AllDeserved'
<1>1. signed' = signed /\ \A i \in Jti : Retained[i] \in {0, replay[i]}
  BY CacheMoves, PurgingForgets
<1>2. ASSUME NEW i \in Jti, accepted'[i] = accepted[i],
             replay'[i] = replay[i] \/ replay'[i] = Retained[i]
      PROVE  Deserved(i)'
  BY <1>1, <1>2 DEF AllDeserved, Deserved
<1>3. CASE accepted' = accepted /\ replay' \in {replay, Retained}
  BY <1>2, <1>3 DEF AllDeserved
<1>4. ASSUME NEW j \in Jti, GateOpened(j) PROVE AllDeserved'
  <2>1. /\ accepted' = [accepted EXCEPT ![j] = @ + 1]
        /\ replay' = [Retained EXCEPT ![j] = signed[j].expires]
    BY <1>4 DEF GateOpened
  <2>2. /\ accepted'[j] = accepted[j] + 1 /\ accepted[j] \in Nat
        /\ replay'[j] = signed[j].expires
    BY <2>1, PurgingForgets DEF TypeOK
  <2>3. \A i \in Jti : i # j => accepted'[i] = accepted[i] /\ replay'[i] = Retained[i]
    BY <2>1, PurgingForgets DEF TypeOK
  <2>4. Deserved(j)'
    BY <1>1, <2>2 DEF Deserved
  <2> QED BY <1>2, <2>3, <2>4 DEF AllDeserved
<1> QED BY <1>3, <1>4, CacheMoves

\* A grant that counts against the limit was accepted and is not over.
LEMMA RememberedAreLive ==
    ASSUME GateAssumption, TypeOK, AllDeserved
    PROVE  Remembered(Retained) \subseteq
               {j \in Jti : accepted[j] > 0 /\ signed[j].expires > WallSeconds}
<1> SUFFICES ASSUME NEW j \in Jti, Retained[j] # 0
             PROVE  accepted[j] > 0 /\ signed[j].expires > WallSeconds
  BY DEF Remembered
<1>1. replay[j] > WallSeconds /\ replay[j] # 0
  BY DEF Retained, Kept
<1> QED BY <1>1 DEF AllDeserved, Deserved

\* However the clocks run, a grant is refused as replayed only if it was accepted
\* before or CacheLimit accepted grants are still unexpired.
THEOREM ReplayRefusalsAreAlwaysDeserved == Spec => ReplayRefusalsAreDeserved
<1> DEFINE live == {j \in Jti : accepted[j] > 0 /\ signed[j].expires > WallSeconds}
           Fair == answer'.op = "verify" /\ answer'.verdict = "replay" =>
                     accepted[answer'.subject] > 0 \/ Cardinality(live) >= CacheLimit
<1>1. Init => AllDeserved
  BY DEF Init, AllDeserved, Deserved
<1>2. TypeOK /\ AllDeserved /\ [Next]_vars => AllDeserved'
  BY DeservedStep, GateAssumption
<1>3. TypeOK /\ AllDeserved /\ [Next]_vars => [Fair]_vars
  <2> SUFFICES ASSUME TypeOK, AllDeserved, Next,
                      answer'.op = "verify", answer'.verdict = "replay"
               PROVE  accepted[answer'.subject] > 0 \/ Cardinality(live) >= CacheLimit
    OBVIOUS
  <2>1. PICK j \in Jti, envelope \in {"message", "signature", "sound"}, scoped \in BOOLEAN,
             policy \in PolicyScopes : Verify(j, envelope, scoped, policy)
    BY DEF Next, Tick, SetClock, Revoke, ValidateInput, Check, Says
  <2>2. Preliminary(j, envelope, scoped) # "replay"
    BY DEF Preliminary
  <2>3. answer'.subject = j /\ Judged(j, policy) = "replay"
    BY <2>1, <2>2 DEF Verify, Says
  <2>4. Remembered(Retained) \subseteq live
    BY RememberedAreLive, GateAssumption
  <2>5. CASE j \in Remembered(Retained)
    BY <2>3, <2>4, <2>5
  <2>6. CASE Cardinality(Remembered(Retained)) >= CacheLimit
    <3>1. IsFiniteSet(live)
      BY GateAssumption, FS_Subset DEF GateAssumption
    <3> HIDE DEF live
    <3>2. /\ Cardinality(Remembered(Retained)) <= Cardinality(live)
          /\ Cardinality(Remembered(Retained)) \in Nat /\ Cardinality(live) \in Nat
      BY <2>4, <3>1, FS_Subset, FS_CardinalityType
    <3>3. CacheLimit \in Nat
      BY GateAssumption DEF GateAssumption
    <3> QED BY <2>6, <3>2, <3>3
  <2> QED BY <2>3, <2>5, <2>6 DEF Judged
<1> QED BY <1>1, <1>2, <1>3, GateTypeCorrect, PTL DEF Spec, ReplayRefusalsAreDeserved
==============================================================================
