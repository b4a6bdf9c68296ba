------------------------ MODULE RequestPipelineProofs ------------------------
(***************************************************************************)
(* Upload slots and the room lock for any number of requests and slots, and *)
(* what a fixed window admits in any stretch of time.                      *)
(***************************************************************************)
EXTENDS RequestPipeline, FiniteSetTheorems, TLAPS

\* What is known of stage, uploads and lock
PlaceOK ==
    /\ stage \in [Request -> Stage]
    /\ uploads \in 0 .. Slots
    /\ lock \in Request \cup {Nobody}

\* Nothing is under way in a process that is not there.
GoneIsEmpty ==
    process = "gone" =>
        /\ \A r \in Request : stage[r] \in {"idle", "cut"}
        /\ uploads = 0 /\ lock = Nobody

PipelineInv == PlaceOK /\ GoneIsEmpty /\ SlotsOnlyWhileReading /\ LockedOnlyInside

\* Where a request goes tells which bodies are being read.
LEMMA ReadingFollows ==
    ASSUME PipelineAssumption, PipelineInv, NEW r \in Request, NEW to \in Stage, Goes(r, to)
    PROVE  /\ stage' \in [Request -> Stage]
           /\ stage'[r] = to
           /\ \A q \in Request : q # r => stage'[q] = stage[q]
           /\ Cardinality(Reading') =
                uploads + (IF to = "reading" THEN 1 ELSE 0)
                        - (IF stage[r] = "reading" THEN 1 ELSE 0)
<1>1. /\ stage \in [Request -> Stage] /\ stage' = [stage EXCEPT ![r] = to]
      /\ uploads \in Nat
  BY DEF PipelineInv, PlaceOK, Goes, PipelineAssumption
<1>2. /\ stage' \in [Request -> Stage] /\ stage'[r] = to
      /\ \A q \in Request : q # r => stage'[q] = stage[q]
  BY <1>1
<1>3. IsFiniteSet(Reading) /\ Cardinality(Reading) = uploads
  BY FS_Subset DEF Reading, PipelineInv, SlotsOnlyWhileReading, PipelineAssumption
<1>4. CASE to = "reading" /\ stage[r] # "reading"
  <2>1. Reading' = Reading \cup {r} /\ r \notin Reading
    BY <1>2, <1>4 DEF Reading
  <2>2. Cardinality(Reading \cup {r}) = Cardinality(Reading) + 1
    BY <2>1, <1>3, FS_AddElement
  <2> QED BY <2>1, <2>2, <1>1, <1>2, <1>3, <1>4
<1>5. CASE to # "reading" /\ stage[r] = "reading"
  <2>1. Reading' = Reading \ {r} /\ r \in Reading
    BY <1>2, <1>5 DEF Reading
  <2>2. Cardinality(Reading \ {r}) = Cardinality(Reading) - 1
    BY <2>1, <1>3, FS_RemoveElement
  <2> QED BY <2>1, <2>2, <1>1, <1>2, <1>3, <1>5
<1>6. CASE (to = "reading") <=> (stage[r] = "reading")
  <2>1. Reading' = Reading
    BY <1>2, <1>6 DEF Reading
  <2> QED BY <2>1, <1>1, <1>2, <1>3, <1>6
<1> QED BY <1>4, <1>5, <1>6

\* One step per way a request moves.
LEMMA PipelineInvIsKept ==
    ASSUME PipelineAssumption, PipelineInv, [Next]_vars
    PROVE  PipelineInv'
<1>0. CASE UNCHANGED vars \/ Tick \/ Signal
  BY <1>0 DEF vars, Tick, Signal, PipelineInv, PlaceOK, GoneIsEmpty, SlotsOnlyWhileReading,
              LockedOnlyInside, Reading
<1>1. \A r \in Request : stage[r] \notin {"idle", "cut"} => process # "gone"
  BY DEF PipelineInv, GoneIsEmpty
<1>2. /\ uploads \in Nat /\ uploads <= Slots /\ Slots \in Nat
      /\ uploads = Cardinality(Reading)
      /\ lock \in Request \cup {Nobody} /\ Nobody \notin Request
      /\ stage \in [Request -> Stage]
      /\ \A q \in Request : lock = q <=> stage[q] = "inside"
      /\ process = "gone" => uploads = 0 /\ lock = Nobody
      /\ process = "gone" => \A q \in Request : stage[q] \in {"idle", "cut"}
  BY DEF PipelineInv, PlaceOK, GoneIsEmpty, SlotsOnlyWhileReading, LockedOnlyInside,
         PipelineAssumption
<1>3. ASSUME NEW r \in Request, Forbidden(r) \/ Upload(r) \/ Bodiless(r) \/ Replied(r)
      PROVE  PipelineInv'
  <2>1. PICK to \in {"replying", "reading", "waiting", "idle"} :
          /\ Goes(r, to) /\ stage[r] \in {"idle", "replying"} /\ lock' = lock
          /\ uploads' = uploads + (IF to = "reading" THEN 1 ELSE 0)
          /\ to = "reading" => uploads < Slots
          /\ process' = process /\ process # "gone"
    BY <1>1, <1>2, <1>3 DEF Forbidden, Upload, Bodiless, Replied, Arrives
  <2>2. /\ stage' \in [Request -> Stage] /\ stage'[r] = to
        /\ \A q \in Request : q # r => stage'[q] = stage[q]
        /\ Cardinality(Reading') = uploads + (IF to = "reading" THEN 1 ELSE 0)
    BY <2>1, <1>2, ReadingFollows DEF Stage
  <2> QED BY <1>2, <2>1, <2>2 DEF PipelineInv, PlaceOK, GoneIsEmpty, SlotsOnlyWhileReading,
                                  LockedOnlyInside
<1>4. ASSUME NEW r \in Request, BodyRead(r) \/ BodyFails(r) \/ ReadTimeout(r)
      PROVE  PipelineInv'
  <2>1. PICK to \in {"replying", "waiting"} :
          /\ Goes(r, to) /\ stage[r] = "reading" /\ lock' = lock
          /\ uploads' = uploads - 1
          /\ process' = process /\ process # "gone"
    BY <1>1, <1>4 DEF BodyRead, BodyFails, ReadTimeout
  <2>2. /\ stage' \in [Request -> Stage] /\ stage'[r] = to
        /\ \A q \in Request : q # r => stage'[q] = stage[q]
        /\ Cardinality(Reading') = uploads - 1
    BY <2>1, <1>2, ReadingFollows DEF Stage
  \* The slot given back was taken: this body is one of those counted.
  <2>3. uploads > 0
    <3>1. r \in Reading /\ IsFiniteSet(Reading)
      BY <2>1, FS_Subset DEF Reading, PipelineAssumption
    <3>2. Cardinality(Reading) # 0
      BY <3>1, FS_EmptySet
    <3> QED BY <3>2, <1>2
  <2> QED BY <1>2, <2>1, <2>2, <2>3 DEF PipelineInv, PlaceOK, GoneIsEmpty, SlotsOnlyWhileReading,
                                  LockedOnlyInside
<1>5. ASSUME NEW r \in Request, Lock(r)
      PROVE  PipelineInv'
  <2>1. /\ Goes(r, "inside") /\ stage[r] = "waiting" /\ lock = Nobody /\ lock' = r
        /\ uploads' = uploads
        /\ process' = process /\ process # "gone"
    BY <1>1, <1>5 DEF Lock
  <2>2. /\ stage' \in [Request -> Stage] /\ stage'[r] = "inside"
        /\ \A q \in Request : q # r => stage'[q] = stage[q]
        /\ Cardinality(Reading') = uploads
    BY <2>1, <1>2, ReadingFollows DEF Stage
  <2> QED BY <1>2, <2>1, <2>2 DEF PipelineInv, PlaceOK, GoneIsEmpty, SlotsOnlyWhileReading,
                                  LockedOnlyInside
<1>6. ASSUME NEW r \in Request, Handle(r)
      PROVE  PipelineInv'
  <2>1. /\ Goes(r, "replying") /\ stage[r] = "inside" /\ lock = r /\ lock' = Nobody
        /\ uploads' = uploads
        /\ process' = process /\ process # "gone"
    BY <1>1, <1>6, <1>2 DEF Handle
  <2>2. /\ stage' \in [Request -> Stage] /\ stage'[r] = "replying"
        /\ \A q \in Request : q # r => stage'[q] = stage[q]
        /\ Cardinality(Reading') = uploads
    BY <2>1, <1>2, ReadingFollows DEF Stage
  <2> QED BY <1>2, <2>1, <2>2 DEF PipelineInv, PlaceOK, GoneIsEmpty, SlotsOnlyWhileReading,
                                  LockedOnlyInside
<1>7. ASSUME Exit \/ Start
      PROVE  PipelineInv'
  <2>1. /\ stage' \in [Request -> {"idle", "cut"}]
        /\ uploads' = 0 /\ lock' = Nobody
    BY <1>2, <1>7 DEF Exit, Start
  <2>2. Reading' = {}
    BY <2>1 DEF Reading
  <2>3. Cardinality(Reading') = 0
    BY <2>2, FS_EmptySet
  <2>4. stage' \in [Request -> Stage]
    BY <2>1 DEF Stage
  <2> QED BY <1>2, <2>1, <2>3, <2>4
          DEF PipelineInv, PlaceOK, GoneIsEmpty, SlotsOnlyWhileReading, LockedOnlyInside
<1> QED BY <1>0, <1>3, <1>4, <1>5, <1>6, <1>7 DEF Next

\* The inductive invariant of the requests' places.
LEMMA PipelineInvariant == Spec => []PipelineInv
<1> USE PipelineAssumption
<1>1. Init => PipelineInv
  <2> SUFFICES ASSUME Init PROVE PipelineInv
    OBVIOUS
  <2>1. Reading = {}
    BY DEF Init, Reading
  <2>2. Cardinality(Reading) = 0
    BY <2>1, FS_EmptySet
  <2> QED BY <2>2 DEF Init, PipelineInv, PlaceOK, GoneIsEmpty, Stage, SlotsOnlyWhileReading,
             LockedOnlyInside, PipelineAssumption
<1>2. PipelineInv /\ [Next]_vars => PipelineInv'
  BY PipelineInvIsKept
<1> QED BY <1>1, <1>2, PTL DEF Spec

------------------------------------------------------------------------------
(* The budget *)

\* The last joins.used requests were admitted in the current window, which the first
\* of them opened, the Limit before them (at most) in the one before, and all others
\* a whole window ago, the opener of the one before among them.
BudgetInv ==
    /\ process \in {"serving", "stopping", "gone"}
    /\ now \in Nat \ {0}
    /\ joins \in Budget(Limit) /\ joins.start <= now
    /\ admitted \in Seq(Nat) /\ joins.used <= Len(admitted)
    /\ joins.start = Never => admitted = <<>>
    /\ joins.start # Never => joins.used > 0
    /\ \A i \in 1 .. Len(admitted) : admitted[i] <= now
    /\ \A i \in 1 .. Len(admitted) :
          i <= Len(admitted) - joins.used + 1 => admitted[i] <= joins.start
    /\ \A i \in 1 .. Len(admitted) - joins.used - (Limit - 1) :
          admitted[i] + Window <= joins.start
    /\ BurstsAreBounded

\* Whichever budget a request is charged to, the invariant holds of it when it
\* is opened.
LEMMA OpenedKeepsOrder ==
    ASSUME PipelineAssumption, WindowAssumption, BudgetInv
    PROVE  LET b == Opened(joins, now) IN
           /\ b \in Budget(Limit) /\ b.start <= now /\ b.start # Never
           /\ b.used <= Len(admitted)
           /\ b.used = 0 => b.start = now
           /\ \A i \in 1 .. Len(admitted) :
                 i <= Len(admitted) - b.used + 1 => admitted[i] <= b.start
           /\ \A i \in 1 .. Len(admitted) - b.used - (Limit - 1) :
                 admitted[i] + Window <= b.start
<1>1. /\ now \in Nat \ {0} /\ Window \in Nat \ {0} /\ Limit \in Nat \ {0}
      /\ joins.start \in Nat /\ joins.used \in Nat /\ joins.used <= Limit
      /\ admitted \in Seq(Nat) /\ Len(admitted) \in Nat
      /\ \A i \in 1 .. Len(admitted) : admitted[i] \in Nat
  BY DEF PipelineAssumption, WindowAssumption, BudgetInv, Budget
<1>2. CASE joins.start = Never \/ now - joins.start >= Window
  <2>1. Opened(joins, now) = [start |-> now, used |-> 0]
    BY <1>2 DEF Opened
  <2>2. \A i \in 1 .. Len(admitted) - (Limit - 1) : admitted[i] + Window <= now
    <3> SUFFICES ASSUME NEW i \in 1 .. Len(admitted) - (Limit - 1)
                 PROVE  admitted[i] + Window <= now
      OBVIOUS
    <3>0. i \in 1 .. Len(admitted)
      BY <1>1
    <3>1. joins.start # Never
      BY <1>1, <3>0 DEF BudgetInv
    <3>2. i <= Len(admitted) - joins.used + 1 /\ admitted[i] \in Nat
      BY <1>1, <3>0
    <3>3. admitted[i] <= joins.start
      BY <3>0, <3>2 DEF BudgetInv
    <3> QED BY <1>1, <1>2, <3>1, <3>2, <3>3
  <2>3. [start |-> now, used |-> 0] \in Budget(Limit)
    BY <1>1 DEF Budget
  <2> QED BY <1>1, <2>1, <2>2, <2>3 DEF BudgetInv, Never
<1>3. CASE ~(joins.start = Never \/ now - joins.start >= Window)
  BY <1>1, <1>3 DEF Opened, BudgetInv
<1> QED BY <1>2, <1>3

LEMMA ChargeKeepsOrder ==
    ASSUME PipelineAssumption, WindowAssumption, BudgetInv, Charge,
           process' = process, now' = now
    PROVE  BudgetInv'
<1> DEFINE b == Opened(joins, now)
           n == Len(admitted)
<1>1. /\ now \in Nat \ {0} /\ Window \in Nat \ {0} /\ Limit \in Nat \ {0}
      /\ admitted \in Seq(Nat) /\ n \in Nat
      /\ \A i \in 1 .. n : admitted[i] \in Nat /\ admitted[i] <= now
  BY DEF PipelineAssumption, WindowAssumption, BudgetInv
<1>2. /\ b \in Budget(Limit) /\ b.start <= now /\ b.start # Never /\ b.used <= n
      /\ b.used = 0 => b.start = now
      /\ \A i \in 1 .. n : i <= n - b.used + 1 => admitted[i] <= b.start
      /\ \A i \in 1 .. n - b.used - (Limit - 1) : admitted[i] + Window <= b.start
  BY OpenedKeepsOrder
<1>3. /\ b.start \in Nat /\ b.used \in Nat /\ b.used <= Limit
      /\ b = [start |-> b.start, used |-> b.used]
  BY <1>2, <1>1 DEF Budget
<1> HIDE DEF b, n
<1>4. CASE b.used < Limit
  <2>1. /\ joins' = [start |-> b.start, used |-> b.used + 1]
        /\ admitted' = Append(admitted, now)
    BY <1>3, <1>4 DEF Charge, Spent, Admits, b
  <2>2. /\ admitted' \in Seq(Nat) /\ Len(admitted') = n + 1
        /\ admitted'[n + 1] = now
        /\ \A i \in 1 .. n : admitted'[i] = admitted[i]
    BY <1>1, <2>1 DEF n
  <2>3. joins' \in Budget(Limit) /\ joins'.start = b.start /\ joins'.used = b.used + 1
    BY <1>1, <1>3, <1>4, <2>1 DEF Budget
  <2>4. \A i \in 1 .. n + 1 : admitted'[i] <= now
    <3> SUFFICES ASSUME NEW i \in 1 .. n + 1 PROVE admitted'[i] <= now
      OBVIOUS
    <3>1. i \in 1 .. n \/ i = n + 1
      BY <1>1
    <3>2. now <= now
      BY <1>1
    <3> QED BY <1>1, <2>2, <3>1, <3>2
  <2>5. (n + 1) - (b.used + 1) = n - b.used
    BY <1>1, <1>3
  <2>6. \A i \in 1 .. n + 1 : i <= n - b.used + 1 => admitted'[i] <= b.start
    <3> SUFFICES ASSUME NEW i \in 1 .. n + 1, i <= n - b.used + 1
                 PROVE  admitted'[i] <= b.start
      OBVIOUS
    <3>1. CASE i \in 1 .. n
      BY <1>2, <2>2, <3>1
    <3>2. CASE i = n + 1
      <4>1. b.used = 0
        BY <1>1, <1>3, <3>2
      <4>2. b.start = now /\ now <= now
        BY <1>1, <1>2, <4>1
      <4> QED BY <2>2, <3>2, <4>2
    <3> QED BY <1>1, <3>1, <3>2
  <2>7. \A i \in 1 .. n - b.used - (Limit - 1) : admitted'[i] + Window <= b.start
    <3> SUFFICES ASSUME NEW i \in 1 .. n - b.used - (Limit - 1)
                 PROVE  admitted'[i] + Window <= b.start
      OBVIOUS
    <3>1. i \in 1 .. n
      BY <1>1, <1>3
    <3> QED BY <1>2, <2>2, <3>1
  \* The request that is 2 * Limit - 1 before the new one is a whole window older.
  <2>8. \A i \in 1 .. (n + 1) - (2 * Limit - 1) :
           admitted'[i + (2 * Limit - 1)] - admitted'[i] >= Window
    <3> DEFINE m == 2 * Limit - 1
    <3>0. m \in Nat /\ m + 1 = Limit + Limit /\ m > 0
      BY <1>1
    <3> HIDE DEF m
    <3>1. SUFFICES ASSUME NEW i \in 1 .. (n + 1) - m
                   PROVE  admitted'[i + m] - admitted'[i] >= Window
      BY <3>1 DEF m
    <3>2. i \in 1 .. n /\ i + m \in 1 .. n + 1
      BY <1>1, <3>0
    <3>3. CASE i + m <= n
      <4>1. i \in 1 .. n - m
        BY <1>1, <3>0, <3>3
      <4>2. admitted[i + m] - admitted[i] >= Window
        BY <4>1 DEF BudgetInv, BurstsAreBounded, n, m
      <4> QED BY <1>1, <2>2, <3>0, <3>2, <3>3, <4>2
    <3>4. CASE i + m = n + 1
      <4>1. i \in 1 .. n - b.used - (Limit - 1)
        <5>1. b.used \in Nat /\ Limit \in Nat /\ b.used + 1 <= Limit
          BY <1>1, <1>3, <1>4
        <5>2. n \in Nat /\ m + 1 = Limit + Limit /\ i + m = n + 1 /\ i \in Nat /\ i >= 1
          BY <1>1, <3>0, <3>2, <3>4
        <5> QED BY <3>0, <5>1, <5>2
      <4>2. /\ admitted[i] + Window <= b.start /\ admitted[i] \in Nat
            /\ admitted'[i] = admitted[i] /\ admitted'[i + m] = now
        BY <1>1, <1>2, <2>2, <3>2, <3>4, <4>1
      <4>3. now \in Nat /\ b.start \in Nat /\ b.start <= now /\ Window \in Nat
        BY <1>1, <1>2, <1>3
      <4> QED BY <4>2, <4>3
    <3> QED BY <1>1, <3>0, <3>2, <3>3, <3>4
  <2>9. BurstsAreBounded'
    BY <2>2, <2>8 DEF BurstsAreBounded
  <2>a. /\ Len(admitted') - joins'.used = n - b.used
        /\ joins'.used <= Len(admitted') /\ joins'.start <= now /\ joins'.start # Never
        /\ joins'.used > 0
    BY <1>1, <1>2, <1>3, <2>2, <2>3, <2>5
  <2>b. process' \in {"serving", "stopping", "gone"} /\ now' = now
    BY DEF BudgetInv
  <2> QED BY <1>1, <2>2, <2>3, <2>4, <2>6, <2>7, <2>9, <2>a, <2>b DEF BudgetInv
<1>5. CASE ~(b.used < Limit)
  <2>1. joins' = b /\ admitted' = admitted
    BY <1>5 DEF Charge, Spent, Admits, b
  <2>2. b.used > 0
    BY <1>1, <1>3, <1>5
  <2> QED BY <1>1, <1>2, <1>3, <2>1, <2>2 DEF BudgetInv, BurstsAreBounded, n
<1> QED BY <1>4, <1>5

LEMMA BudgetInvariant == Spec => [](BudgetInv /\ PipelineInv)
<1> USE PipelineAssumption, WindowAssumption
<1>1. Init => BudgetInv
  BY DEF Init, BudgetInv, Budget, Untouched, Never, PipelineAssumption,
            BurstsAreBounded
<1>2. BudgetInv /\ [Next]_vars => BudgetInv'
  <2> SUFFICES ASSUME BudgetInv, [Next]_vars PROVE BudgetInv'
    OBVIOUS
  <2>1. ASSUME process' \in {"serving", "stopping", "gone"}, UNCHANGED memory
        PROVE  BudgetInv'
    BY <2>1 DEF memory, BudgetInv, BurstsAreBounded
  <2>2. CASE Tick
    <3>1. /\ now' = now + 1 /\ now \in Nat \ {0} /\ joins.start \in Nat
          /\ \A i \in 1 .. Len(admitted) : admitted[i] \in Nat
          /\ process' = process /\ joins' = joins /\ admitted' = admitted
      BY <2>2 DEF Tick, BudgetInv, Budget
    <3> QED BY <3>1 DEF BudgetInv, BurstsAreBounded
  <2>3. CASE Exit
    <3>1. /\ now' = now /\ process' = "gone" /\ joins' = [start |-> 0, used |-> 0]
          /\ admitted' = <<>>
      BY <2>3 DEF Exit, Untouched, Never
    <3> QED BY <3>1 DEF BudgetInv, Budget, PipelineAssumption, Never,
                         BurstsAreBounded
  <2>4. CASE \E r \in Request : Handle(r)
    <3>1. process' = process /\ now' = now /\ (Charge \/ UNCHANGED <<joins, admitted>>)
      BY <2>4 DEF Handle
    <3>2. CASE Charge
      BY <3>1, <3>2, ChargeKeepsOrder
    <3>3. CASE UNCHANGED <<joins, admitted>>
      BY <3>1, <3>3, <2>1 DEF memory, BudgetInv, BurstsAreBounded
    <3> QED BY <3>1, <3>2, <3>3
  <2>5. CASE UNCHANGED vars
    BY <2>1, <2>5 DEF vars, BudgetInv
  <2>6. CASE Signal \/ Start
    BY <2>1, <2>6 DEF Signal, Start
  <2>7. ASSUME NEW r \in Request,
               \/ Forbidden(r) \/ Upload(r) \/ Bodiless(r) \/ Replied(r)
               \/ BodyRead(r) \/ BodyFails(r) \/ ReadTimeout(r) \/ Lock(r)
        PROVE  BudgetInv'
    <3>1. process' = process /\ UNCHANGED memory
      BY <2>7 DEF Forbidden, Upload, Bodiless, Replied, BodyRead, BodyFails, ReadTimeout, Lock
    <3> QED BY <2>1, <3>1 DEF BudgetInv
  <2> QED BY <2>2, <2>3, <2>4, <2>5, <2>6, <2>7 DEF Next
<1> QED BY <1>1, <1>2, PipelineInvariant, PTL DEF Spec

------------------------------------------------------------------------------
(* The theorems *)

\* Every variable has its type, and no more than Slots bodies are read at once,
\* whatever the clients do.
THEOREM PipelineTypeCorrect == Spec => []TypeOK
<1>1. BudgetInv /\ PipelineInv => TypeOK
  BY DEF BudgetInv, PipelineInv, PlaceOK, TypeOK
<1> QED BY <1>1, BudgetInvariant, PTL

\* A slot belongs to a body being read, and to nothing else.
THEOREM SlotsFollowBodies == Spec => []SlotsOnlyWhileReading
BY PipelineInvariant, PTL DEF PipelineInv

\* The room lock is never held across a body or a reply.
THEOREM LockIsNeverHeldOutside == Spec => []LockedOnlyInside
BY PipelineInvariant, PTL DEF PipelineInv

\* For every limit and length of window: no stretch of time shorter than a window
\* admits two limits' worth.
THEOREM BurstsAreAlwaysBounded == Spec => []BurstsAreBounded
<1>1. BudgetInv => BurstsAreBounded
  BY DEF BudgetInv
<1> QED BY <1>1, BudgetInvariant, PTL

==============================================================================
