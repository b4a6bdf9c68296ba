------------------------- MODULE DomainKernelProofs --------------------------
(***************************************************************************)
(* The kernel's promises for any tokens, tenants, callers, capacity, times *)
(* and clocks: the token vault's on its own, the support session's beside  *)
(* it, and the vault's again in the kernel that holds both.                *)
(***************************************************************************)
EXTENDS DomainKernel, FiniteSetTheorems, TLAPS

\* What ties the vault to its history: a record is marked when it was taken,
\* and only issued tokens were.
MarksTellTakers ==
    /\ \A t \in DOMAIN records : records[t].consumed <=> taker[t] # NoTaker
    /\ \A t \in Token : taker[t] # NoTaker => until[t] > 0

VaultInv == TypeOK /\ VaultBounded /\ GoodTokensAreKept /\ MarksTellTakers

\* A purge keeps what the vault held, and finitely much of it.
LEMMA PurgeKeepsTokens ==
    ASSUME VaultAssumption, TypeOK, VaultBounded, NEW now
    PROVE  /\ Unexpired(now) \subseteq DOMAIN records
           /\ Unexpired(now) \subseteq Token
           /\ IsFiniteSet(Unexpired(now))
           /\ Cardinality(Unexpired(now)) \in Nat
           /\ Cardinality(Unexpired(now)) <= Capacity
<1>1. Unexpired(now) \subseteq DOMAIN records
  BY DEF Unexpired
<1>2. DOMAIN records \subseteq Token
  BY DEF TypeOK
<1>3. IsFiniteSet(DOMAIN records)
  BY <1>2, FS_Subset DEF VaultAssumption
<1>4. /\ IsFiniteSet(Unexpired(now))
      /\ Cardinality(Unexpired(now)) <= Cardinality(DOMAIN records)
  BY <1>1, <1>3, FS_Subset
<1>5. Cardinality(Unexpired(now)) \in Nat /\ Cardinality(DOMAIN records) \in Nat
  BY <1>3, <1>4, FS_CardinalityType
<1> QED BY <1>1, <1>2, <1>4, <1>5 DEF VaultBounded, VaultAssumption

\* Issue, whether there is room or not, keeps every promise at once.
LEMMA IssueKeepsInv ==
    ASSUME VaultAssumption, VaultInv, NEW t \in Token, NEW tenant \in Tenant,
           NEW now \in 0 .. clock, NEW ttl \in 1 .. MaxTtl,
           Issue(t, tenant, now, ttl)
    PROVE  VaultInv'
<1> DEFINE held == Unexpired(now)
           fresh == [tenant |-> tenant, expires |-> now + ttl, consumed |-> FALSE]
<1>1. /\ until[t] = 0 /\ clock' = clock /\ taker' = taker
      /\ \/ /\ HasRoom(held)
            /\ records' = [u \in held \cup {t} |-> IF u = t THEN fresh ELSE records[u]]
            /\ until' = [until EXCEPT ![t] = now + ttl]
         \/ records' = [u \in held |-> records[u]] /\ UNCHANGED until
  BY DEF Issue
<1>2. /\ held \subseteq DOMAIN records /\ held \subseteq Token
      /\ IsFiniteSet(held)
      /\ Cardinality(held) \in Nat /\ Cardinality(held) <= Capacity
  BY PurgeKeepsTokens DEF VaultInv
<1>3. /\ clock \in Nat /\ until \in [Token -> Nat]
      /\ taker \in [Token -> Caller \cup {NoTaker}]
      /\ now \in Nat /\ now <= clock /\ ttl \in Nat /\ ttl > 0 /\ Capacity \in Nat
  BY DEF VaultInv, TypeOK, VaultAssumption
<1>4. /\ fresh \in Record /\ fresh.expires = now + ttl /\ fresh.consumed = FALSE
  BY <1>3 DEF Record
<1>5. t \notin held /\ taker[t] = NoTaker
  BY <1>1, <1>2, <1>3 DEF VaultInv, TypeOK, MarksTellTakers
<1>6. \A u \in held : /\ records[u] \in Record /\ records[u].expires = until[u]
                      /\ until[u] > 0
                      /\ records[u].consumed <=> taker[u] # NoTaker
  BY <1>2 DEF VaultInv, TypeOK, MarksTellTakers
\* A token that is still good survives the purge: its expiry is after now.
<1>7. ASSUME NEW u \in Token, clock < until[u], taker[u] = NoTaker
      PROVE  u \in held /\ ~records[u].consumed
  <2>1. u \in DOMAIN records /\ ~records[u].consumed
    BY <1>7 DEF VaultInv, GoodTokensAreKept
  <2>2. records[u].expires = until[u] /\ until[u] \in Nat
    BY <2>1, <1>3 DEF VaultInv, TypeOK
  <2> QED BY <2>1, <2>2, <1>3, <1>7 DEF Unexpired
<1>8. MarksTellTakers
  BY DEF VaultInv
<1> HIDE DEF held, fresh
<1>9. CASE /\ HasRoom(held)
           /\ records' = [u \in held \cup {t} |-> IF u = t THEN fresh ELSE records[u]]
           /\ until' = [until EXCEPT ![t] = now + ttl]
  <2>1. DOMAIN records' = held \cup {t}
    BY <1>9
  <2>2. records'[t] = fresh /\ \A u \in held : records'[u] = records[u]
    BY <1>9, <1>5
  <2>3. /\ until' \in [Token -> Nat] /\ until'[t] = now + ttl /\ until'[t] > 0
        /\ \A u \in Token : u # t => until'[u] = until[u]
    BY <1>9, <1>3
  <2>4. TypeOK'
    BY <1>1, <1>2, <1>3, <1>4, <1>5, <1>6, <2>1, <2>2, <2>3 DEF TypeOK
  <2>5. VaultBounded'
    <3>1. Cardinality(held \cup {t}) = Cardinality(held) + 1
      BY <1>2, <1>5, FS_AddElement
    <3> QED BY <3>1, <2>1, <1>2, <1>3, <1>9 DEF VaultBounded, HasRoom
  <2>6. GoodTokensAreKept'
    BY <1>1, <1>4, <1>5, <1>7, <2>1, <2>2, <2>3 DEF GoodTokensAreKept
  <2>7. MarksTellTakers'
    BY <1>1, <1>4, <1>5, <1>6, <1>8, <2>1, <2>2, <2>3 DEF MarksTellTakers
  <2> QED BY <2>4, <2>5, <2>6, <2>7 DEF VaultInv
<1>10. CASE records' = [u \in held |-> records[u]] /\ UNCHANGED until
  <2>1. DOMAIN records' = held /\ \A u \in held : records'[u] = records[u]
    BY <1>10
  <2>2. TypeOK'
    BY <1>1, <1>2, <1>3, <1>6, <1>10, <2>1 DEF TypeOK
  <2>3. VaultBounded'
    BY <1>2, <2>1 DEF VaultBounded
  <2>4. GoodTokensAreKept'
    BY <1>1, <1>7, <1>10, <2>1 DEF GoodTokensAreKept
  <2>5. MarksTellTakers'
    BY <1>1, <1>6, <1>8, <1>10, <2>1 DEF MarksTellTakers
  <2> QED BY <2>2, <2>3, <2>4, <2>5 DEF VaultInv
<1> QED BY <1>1, <1>9, <1>10

\* Consume marks one record and nothing else.
LEMMA ConsumeKeepsInv ==
    ASSUME VaultAssumption, VaultInv, NEW c \in Caller, NEW t \in Token,
           NEW tenant \in Tenant, NEW now, Consume(c, t, tenant, now)
    PROVE  VaultInv'
<1> DEFINE spent == [tenant |-> tenant, expires |-> records[t].expires, consumed |-> TRUE]
<1>1. /\ t \in DOMAIN records
      /\ records' = [records EXCEPT ![t] = spent]
      /\ taker' = [taker EXCEPT ![t] = c]
      /\ clock' = clock /\ until' = until
  BY DEF Consume, Redeemable
<1>2. records[t] \in Record /\ records[t].expires = until[t] /\ until[t] > 0
  BY <1>1 DEF VaultInv, TypeOK
<1>3. spent \in Record /\ spent.expires = until[t] /\ spent.consumed = TRUE
  BY <1>2 DEF Record
<1>4. c # NoTaker
  BY DEF VaultAssumption, NoTaker
<1> HIDE DEF spent
<1>5. /\ DOMAIN records' = DOMAIN records
      /\ records'[t] = spent
      /\ \A u \in DOMAIN records : u # t => records'[u] = records[u]
  BY <1>1
<1>6. /\ taker' \in [Token -> Caller \cup {NoTaker}] /\ taker'[t] = c
      /\ \A u \in Token : u # t => taker'[u] = taker[u]
  BY <1>1 DEF VaultInv, TypeOK
<1>7. TypeOK'
  BY <1>1, <1>3, <1>5, <1>6 DEF VaultInv, TypeOK
<1>8. VaultBounded'
  BY <1>5 DEF VaultInv, VaultBounded
<1>9. GoodTokensAreKept'
  BY <1>1, <1>4, <1>5, <1>6 DEF VaultInv, GoodTokensAreKept
<1>10. MarksTellTakers'
  <2>1. DOMAIN records \subseteq Token
    BY DEF VaultInv, TypeOK
  <2> QED BY <2>1, <1>1, <1>2, <1>3, <1>4, <1>5, <1>6 DEF VaultInv, MarksTellTakers
<1> QED BY <1>7, <1>8, <1>9, <1>10 DEF VaultInv

\* Time passing makes no token good again.
LEMMA TickKeepsInv ==
    ASSUME VaultInv, Tick
    PROVE  VaultInv'
BY DEF VaultInv, Tick, TypeOK, VaultBounded, GoodTokensAreKept, MarksTellTakers

\* The inductive invariant.
THEOREM VaultInvariant == Spec => []VaultInv
<1> USE VaultAssumption
<1>1. Init => VaultInv
  <2> SUFFICES ASSUME Init PROVE VaultInv
    OBVIOUS
  <2>1. DOMAIN records = {}
    BY DEF Init
  <2>2. Cardinality(DOMAIN records) = 0
    BY <2>1, FS_EmptySet
  <2> QED BY <2>1, <2>2 DEF Init, VaultInv, TypeOK, VaultBounded, GoodTokensAreKept,
             MarksTellTakers, VaultAssumption
<1>2. VaultInv /\ [Next]_vars => VaultInv'
  <2> SUFFICES ASSUME VaultInv, [Next]_vars PROVE VaultInv'
    OBVIOUS
  <2>1. CASE UNCHANGED vars
    BY <2>1 DEF vars, VaultInv, TypeOK, VaultBounded, GoodTokensAreKept, MarksTellTakers
  <2> QED BY <2>1, TickKeepsInv, IssueKeepsInv, ConsumeKeepsInv DEF Next
<1> QED BY <1>1, <1>2, PTL DEF Spec

\* For every capacity and any number of tokens the vault never exceeds it.
THEOREM VaultIsBounded == Spec => []VaultBounded
BY VaultInvariant, PTL DEF VaultInv

\* No purge, at whatever instant its caller read, loses a token still good.
THEOREM GoodTokensStay == Spec => []GoodTokensAreKept
BY VaultInvariant, PTL DEF VaultInv

------------------------------------------------------------------------------
(* Refinement *)

LEMMA FateStarts ==
    ASSUME Init
    PROVE  Promise!Init
BY DEF Init, Promise!Init, Fate

\* Issue lapses what it purges unused and makes at most its own token good.
LEMMA IssueIsAChange ==
    ASSUME VaultAssumption, VaultInv, NEW t \in Token, NEW tenant \in Tenant,
           NEW now \in 0 .. clock, NEW ttl \in 1 .. MaxTtl,
           Issue(t, tenant, now, ttl)
    PROVE  \E old \in SUBSET Token, new \in SUBSET Token : Promise!Change(old, new)
<1> DEFINE held == Unexpired(now)
           old  == {u \in DOMAIN records : u \notin held /\ taker[u] = NoTaker}
           new  == {u \in {t} : until'[t] > 0}
<1>1. /\ until[t] = 0 /\ taker' = taker
      /\ \/ DOMAIN records' = held \cup {t} /\ until' = [until EXCEPT ![t] = now + ttl]
         \/ DOMAIN records' = held /\ until' = until
  BY DEF Issue
<1>2. /\ held \subseteq DOMAIN records /\ DOMAIN records \subseteq Token
      /\ t \notin DOMAIN records /\ taker[t] = NoTaker
      /\ until \in [Token -> Nat] /\ now + ttl \in Nat /\ now + ttl > 0
  BY <1>1 DEF Unexpired, VaultInv, TypeOK, MarksTellTakers
<1>3. \A u \in DOMAIN records : until[u] # 0
  BY DEF VaultInv, TypeOK
<1>4. \A u \in Token : u # t => until'[u] = until[u]
  BY <1>1, <1>2
<1>5. \/ until'[t] > 0 /\ until'[t] # 0 /\ DOMAIN records' = held \cup {t}
      \/ until'[t] = 0 /\ DOMAIN records' = held
  BY <1>1, <1>2
<1> HIDE DEF held
<1>6. old \in SUBSET Token /\ new \in SUBSET Token
  BY <1>2
<1>7. old \subseteq Promise!Good
  BY <1>2, <1>3 DEF Promise!Good, Fate
<1>8. new \subseteq {u \in Token : Fate[u] = "none"}
  BY <1>1 DEF Fate
<1>9. ASSUME NEW u \in Token
      PROVE  Fate'[u] = IF u \in old THEN "lapsed" ELSE IF u \in new THEN "good" ELSE Fate[u]
  <2>1. CASE u = t
    BY <2>1, <1>1, <1>2, <1>5 DEF Fate
  <2>2. CASE u # t
    BY <2>2, <1>1, <1>2, <1>3, <1>4, <1>5 DEF Fate
  <2> QED BY <2>1, <2>2
<1>10. Fate' = [u \in Token |-> IF u \in old THEN "lapsed"
                               ELSE IF u \in new THEN "good" ELSE Fate[u]]
  BY <1>9 DEF Fate
<1>11. Promise!Change(old, new)
  BY <1>7, <1>8, <1>10 DEF Promise!Change
<1> QED BY <1>6, <1>11

\* A successful Consume takes a good token.
LEMMA ConsumeIsATake ==
    ASSUME VaultAssumption, VaultInv, NEW c \in Caller, NEW t \in Token,
           NEW tenant \in Tenant, NEW now, Consume(c, t, tenant, now)
    PROVE  Promise!Take(t, c)
<1>1. /\ t \in DOMAIN records /\ ~records[t].consumed
      /\ DOMAIN records' = DOMAIN records
      /\ taker' = [taker EXCEPT ![t] = c] /\ until' = until
  BY DEF Consume, Redeemable
<1>2. /\ taker \in [Token -> Caller \cup {NoTaker}] /\ taker[t] = NoTaker
      /\ until[t] # 0 /\ c # NoTaker
  BY <1>1 DEF VaultInv, TypeOK, MarksTellTakers, VaultAssumption, NoTaker
<1>3. Fate[t] = "good"
  BY <1>1, <1>2 DEF Fate
<1>4. ASSUME NEW u \in Token
      PROVE  Fate'[u] = IF u = t THEN c ELSE Fate[u]
  BY <1>1, <1>2 DEF Fate
<1>5. Fate' = [Fate EXCEPT ![t] = c]
  BY <1>4 DEF Fate
<1> QED BY <1>3, <1>5 DEF Promise!Take

\* The vault implements OneUseToken: for any tokens, callers and clocks a token
\* has one taker, and none once it has lapsed.
THEOREM VaultKeepsItsPromise == Spec => OneTaker
<1> USE VaultAssumption
<1>1. Init => Promise!Init
  BY FateStarts
<1>2. VaultInv /\ [Next]_vars => [Promise!Next]_Fate
  <2> SUFFICES ASSUME VaultInv, [Next]_vars PROVE [Promise!Next]_Fate
    OBVIOUS
  <2>1. CASE UNCHANGED vars \/ Tick
    BY <2>1 DEF vars, Tick, Fate
  <2>2. ASSUME NEW t \in Token, NEW tenant \in Tenant, NEW now \in 0 .. clock,
               NEW ttl \in 1 .. MaxTtl, Issue(t, tenant, now, ttl)
        PROVE  Promise!Next
    BY <2>2, IssueIsAChange DEF Promise!Next
  <2>3. ASSUME NEW t \in Token, NEW tenant \in Tenant, NEW now \in 0 .. clock,
               NEW c \in Caller, Consume(c, t, tenant, now)
        PROVE  Promise!Next
    BY <2>3, ConsumeIsATake DEF Promise!Next
  <2> QED BY <2>1, <2>2, <2>3 DEF Next
<1> QED BY <1>1, <1>2, VaultInvariant, PTL DEF Spec, OneTaker, Promise!Spec

------------------------------------------------------------------------------
(* The support session, and the kernel that holds both *)

\* The session has a state of the table, and instants for times.
SessionTyped == state \in Support!State /\ {clock, deadline} \subseteq Nat

SessionInv == SessionTyped /\ SessionAuthorityBounded

\* A call on the session, by whoever and with a clock however old, keeps both.
LEMMA SessionStepKeepsInv ==
    ASSUME KernelAssumption, SessionInv, Support!Next
    PROVE  SessionInv' /\ clock' = clock
<1> USE DEF SessionInv, SessionTyped, SessionAuthorityBounded, Support!AuthorityBounded,
            Support!State
<1>1. CASE Support!Revoke
  BY <1>1 DEF Support!Revoke
<1>2. ASSUME NEW now \in 0 .. clock, NEW accepted \in BOOLEAN, Support!Consent(accepted, now)
      PROVE  SessionInv' /\ clock' = clock
  BY <1>2 DEF Support!Consent, KernelAssumption
<1>3. ASSUME NEW now \in 0 .. clock, NEW seconds \in 1 .. LeaseTime, Support!Renew(seconds, now)
      PROVE  SessionInv' /\ clock' = clock
  BY <1>3 DEF Support!Renew, KernelAssumption
<1> QED BY <1>1, <1>2, <1>3 DEF Support!Next

\* Of the vault's steps the session sees only that time passes.
LEMMA VaultStepKeepsSession ==
    ASSUME KernelAssumption, SessionInv, Next, UNCHANGED session
    PROVE  SessionInv'
<1>1. clock' = clock \/ clock' = clock + 1
  BY DEF Next, Tick, Issue, Consume
<1> QED BY <1>1 DEF SessionInv, SessionTyped, SessionAuthorityBounded, Support!AuthorityBounded,
                   session, KernelAssumption

\* The session's inductive invariant.
THEOREM SessionInvariant == KernelSpec => []SessionInv
<1> USE KernelAssumption
<1>1. KernelInit => SessionInv
  BY DEF KernelInit, Init, Support!Init, SessionInv, SessionTyped, SessionAuthorityBounded,
         Support!AuthorityBounded, Support!State, KernelAssumption
<1>2. SessionInv /\ [KernelNext]_kernel => SessionInv'
  <2>1. SessionInv /\ UNCHANGED kernel => SessionInv'
    BY DEF kernel, vars, session, SessionInv, SessionTyped, SessionAuthorityBounded,
           Support!AuthorityBounded
  <2> QED BY <2>1, SessionStepKeepsInv, VaultStepKeepsSession DEF KernelNext
<1> QED BY <1>1, <1>2, PTL DEF KernelSpec

\* For any consent, setup and lease times and callers however late, a cancelled
\* session stays ended and an active one is never leased for longer than one
\* lease from the present.
THEOREM SessionAuthorityStaysBounded == KernelSpec => []SessionAuthorityBounded
BY SessionInvariant, PTL DEF SessionInv

\* Every call takes the session along the table CanTransition, that none of them
\* consults, or cancels a failed one.
THEOREM SessionsFollowTheTable == KernelSpec => StepsFollowTheTable
<1> DEFINE Allowed == state' # state =>
              \/ Support!CanTransition(state, state')
              \/ (state = "failed" /\ state' = "ended" /\ cancelled')
<1>1. SessionInv /\ [KernelNext]_kernel => [Allowed]_(Support!vars)
  <2> SUFFICES ASSUME SessionInv, [KernelNext]_kernel, state' # state
               PROVE  \/ Support!CanTransition(state, state')
                      \/ (state = "failed" /\ state' = "ended" /\ cancelled')
    OBVIOUS
  <2>1. Support!Next
    BY DEF KernelNext, kernel, session
  <2>2. state \in Support!State
    BY DEF SessionInv, SessionTyped
  <2> QED BY <2>1, <2>2 DEF Support!Next, Support!Revoke, Support!Consent, Support!Renew,
             Support!CanTransition, Support!State, Support!Terminal, Support!Successor
<1> QED BY <1>1, SessionInvariant, PTL DEF KernelSpec, StepsFollowTheTable,
           Support!StepsFollowTheTable

\* In the kernel the vault behaves as it does alone: a session's step is none of
\* the vault's.
LEMMA KernelRunsTheVault == KernelSpec => Spec
<1>1. KernelInit => Init
  BY DEF KernelInit
<1>2. [KernelNext]_kernel => [Next]_vars
  <2>1. Support!Next => clock' = clock
    BY DEF Support!Next, Support!Revoke, Support!Consent, Support!Renew
  <2> QED BY <2>1 DEF KernelNext, kernel, vars
<1> QED BY <1>1, <1>2, PTL DEF KernelSpec, Spec

\* Nor does a purge lose a good token while sessions are consented to, renewed
\* and cancelled.
THEOREM KernelKeepsGoodTokens == KernelSpec => []GoodTokensAreKept
BY KernelRunsTheVault, GoodTokensStay, PTL

\* The kernel, whatever its sessions do, implements OneUseToken.
THEOREM KernelKeepsItsPromise == KernelSpec => OneTaker
BY KernelRunsTheVault, VaultKeepsItsPromise, PTL

==============================================================================
