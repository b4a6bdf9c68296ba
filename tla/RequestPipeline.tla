--------------------------- MODULE RequestPipeline ---------------------------
(***************************************************************************)
(* How a request passes through the attended-sharing server (Handler in    *)
(* services/api/internal/pilot/server.go, boundedBody and bufferedResponse *)
(* in security.go, the timeouts of cmd/api/main.go): a bounded number of   *)
(* bodies is read at once, the room lock is taken once the body is there   *)
(* and released before the reply is sent.  What a handler does under the   *)
(* lock is PilotServer, but for its charge to one of the budgets that all  *)
(* clients share (joins, failed authentications, guest rooms).             *)
(*                                                                         *)
(* Connections are kept open, so a request's place is used again.  A reply *)
(* leaves its place when the client has read it, has gone away, or the     *)
(* write deadline has passed.  A signal to stop closes the listener, on    *)
(* which main returns at once: the five seconds that Shutdown would wait   *)
(* for the requests under way are cut short with the process.              *)
(***************************************************************************)
EXTENDS FixedWindow, FiniteSets, Sequences

CONSTANTS
    Request,   \* requests that may be under way at once
    Post,      \* those with a body
    Slots,     \* bodies read at once, 16
    Limit,     \* requests the budget admits per window, 6 to 30
    MaxTime,   \* bound on the clock
    Nobody

ASSUME PipelineAssumption ==
    /\ IsFiniteSet(Request) /\ Post \subseteq Request /\ Nobody \notin Request
    /\ {Slots, Limit} \subseteq Nat \ {0} /\ MaxTime \in Nat

VARIABLES
    process,   \* whether the process serves, is told to stop, or is not there
    stage,     \* Request -> where it is
    uploads,   \* how full Server.uploads is
    lock,      \* who holds Server.mu
    now,       \* Server.now
    joins,     \* the budget
    admitted   \* history: when this process admitted each request it charged

memory == <<now, joins, admitted>>
vars   == <<process, stage, uploads, lock, memory>>

Stage == {"idle", "reading", "waiting", "inside", "replying", "cut"}

------------------------------------------------------------------------------
Goes(r, to) == stage' = [stage EXCEPT ![r] = to]

\* Shutdown takes no new connection and closes those that are idle.
Arrives(r) == process = "serving" /\ stage[r] = "idle"

\* A request with an Origin or a query is turned away at once.
Forbidden(r) ==
    /\ Arrives(r)
    /\ Goes(r, "replying")
    /\ UNCHANGED <<process, uploads, lock, memory>>

\* A body waits for nobody: with every slot taken it is server_busy.
Upload(r) ==
    /\ Arrives(r) /\ r \in Post
    /\ IF uploads < Slots
         THEN Goes(r, "reading") /\ uploads' = uploads + 1
         ELSE Goes(r, "replying") /\ UNCHANGED uploads
    /\ UNCHANGED <<process, lock, memory>>

Bodiless(r) ==
    /\ Arrives(r) /\ r \notin Post
    /\ Goes(r, "waiting")
    /\ UNCHANGED <<process, uploads, lock, memory>>

BodyRead(r) ==
    /\ stage[r] = "reading"
    /\ Goes(r, "waiting") /\ uploads' = uploads - 1
    /\ UNCHANGED <<process, lock, memory>>

\* Mutant: the slot is given back only when the body was read.
BodyFails_KeepsSlot(r) ==
    /\ stage[r] = "reading"
    /\ Goes(r, "replying")
    /\ UNCHANGED <<process, uploads, lock, memory>>

\* The body is too long, or the client has gone away.
BodyFails(r) ==
    /\ stage[r] = "reading"
    /\ Goes(r, "replying") /\ uploads' = uploads - 1
    /\ UNCHANGED <<process, lock, memory>>

ReadTimeout(r) == BodyFails(r)

\* Mutant: the lock is not given out while bodies are read.
Lock_AfterBodies(r) ==
    /\ stage[r] = "waiting" /\ lock = Nobody /\ uploads = 0
    /\ Goes(r, "inside") /\ lock' = r
    /\ UNCHANGED <<process, uploads, memory>>

Lock(r) ==
    /\ stage[r] = "waiting" /\ lock = Nobody
    /\ Goes(r, "inside") /\ lock' = r
    /\ UNCHANGED <<process, uploads, memory>>

Charge ==
    /\ joins' = Spent(joins, now, Limit)
    /\ admitted' = IF Admits(joins, now, Limit) THEN Append(admitted, now) ELSE admitted

\* The whole of a handler, into a buffer; a request over the limit is answered.
Handle(r) ==
    /\ stage[r] = "inside"
    /\ Goes(r, "replying") /\ lock' = Nobody
    /\ Charge \/ UNCHANGED <<joins, admitted>>
    /\ UNCHANGED <<process, uploads, now>>

Replied(r) ==
    /\ stage[r] = "replying"
    /\ Goes(r, "idle")
    /\ UNCHANGED <<process, uploads, lock, memory>>

Tick ==
    /\ now < MaxTime
    /\ now' = now + 1
    /\ UNCHANGED <<process, stage, uploads, lock, joins, admitted>>

Signal ==
    /\ process = "serving"
    /\ process' = "stopping"
    /\ UNCHANGED <<stage, uploads, lock, memory>>

\* main returns, or the process is killed: what is under way is cut, and all the
\* server knew was in its memory.
Exit ==
    /\ process # "gone"
    /\ process' = "gone"
    /\ stage' = [r \in Request |-> IF stage[r] = "idle" THEN "idle" ELSE "cut"]
    /\ uploads' = 0 /\ lock' = Nobody
    /\ joins' = Untouched /\ admitted' = <<>>
    /\ UNCHANGED now

Start ==
    /\ process = "gone"
    /\ process' = "serving"
    /\ stage' = [r \in Request |-> "idle"]
    /\ UNCHANGED <<uploads, lock, memory>>

Init ==
    /\ process = "serving"
    /\ stage = [r \in Request |-> "idle"]
    /\ uploads = 0
    /\ lock = Nobody
    /\ now = 1 /\ joins = Untouched /\ admitted = <<>>

Next ==
    \/ Tick \/ Signal \/ Exit \/ Start
    \/ \E r \in Request :
          \/ Forbidden(r) \/ Upload(r) \/ Bodiless(r)
          \/ BodyRead(r) \/ BodyFails(r) \/ ReadTimeout(r)
          \/ Lock(r) \/ Handle(r) \/ Replied(r)

Spec == Init /\ [][Next]_vars

\* Go's mutex starves nobody, a handler does not block, and a body is read for
\* 10 s at most.  Of the clients nothing is assumed: a body may take until the
\* timeout, and a reply may never be read.
FairSpec ==
    /\ Spec
    /\ \A r \in Request :
         SF_vars(Lock(r)) /\ WF_vars(Handle(r)) /\ WF_vars(ReadTimeout(r))

------------------------------------------------------------------------------
(* Properties *)

Reading == {r \in Request : stage[r] = "reading"}

\* Every variable has its type; no more bodies are read than there are slots.
TypeOK ==
    /\ process \in {"serving", "stopping", "gone"}
    /\ stage \in [Request -> Stage]
    /\ uploads \in 0 .. Slots
    /\ lock \in Request \cup {Nobody}
    /\ now \in Nat
    /\ joins \in Budget(Limit)
    /\ admitted \in Seq(Nat)

\* A slot is taken exactly while its body is read: neither a failed body nor a
\* wait for the lock or for a slow reader of the reply uses one up.
SlotsOnlyWhileReading == uploads = Cardinality(Reading)

\* The lock is held only by a request that waits for nothing outside the
\* process, and every request inside holds it.
LockedOnlyInside == \A r \in Request : lock = r <=> stage[r] = "inside"

\* A request that was let in comes to its reply, though its own body may stall
\* and every other client be slow for ever in sending its body or in reading its
\* reply; unless the process ends first.
RequestsAreAnswered ==
    \A r \in Request :
        stage[r] \in {"reading", "waiting"} ~> stage[r] \in {"replying", "cut"}

\* A budget limits what passes in any stretch of time, not only in its own
\* windows: a window is opened by a request that counts in it, so around a boundary
\* at most one less than two limits' worth is admitted within a window's length.
BurstsAreBounded ==
    \A i \in 1 .. Len(admitted) - (2 * Limit - 1) :
        admitted[i + (2 * Limit - 1)] - admitted[i] >= Window

==============================================================================
