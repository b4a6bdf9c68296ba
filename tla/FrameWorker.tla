----------------------------- MODULE FrameWorker -----------------------------
(***************************************************************************)
(* The Windows half of native/transport/src/remote.rs: stream_windows, the *)
(* worker thread it starts and the queue of encoded frames between them,   *)
(* with the platform code the worker calls (capture.rs, encoder.rs).       *)
(*                                                                         *)
(* Three actors: the worker, on a thread of its own and blocking; the      *)
(* stream, a task that may be aborted at any await; and the host session,  *)
(* which starts the stream, stores later deadlines, sets the stop channel  *)
(* and aborts.  A tick is the stream's 100 ms ticker.  The deadline is     *)
(* kept as the ticks left until it.                                        *)
(***************************************************************************)
EXTENDS Pixels, Sequences

CONSTANTS
    Screen,        \* sizes the monitor may have, as <<columns, rows>>
    NoScreen,
    Depth,         \* encoded frames the queue holds, 2
    MaxOutputs,    \* access units one call of encode returns at most, 16
    Life,          \* ticks of lease a grant is worth at most
    WriteLimit     \* ticks a write may take (250 ms)

ASSUME WorkerAssumption ==
    /\ Screen \subseteq (Nat \ {0}) \X (Nat \ {0}) /\ NoScreen \notin Screen
    /\ {Depth, MaxOutputs, Life, WriteLimit} \subseteq Nat \ {0}

VARIABLES
    stop,      \* the session's stop channel
    lease,     \* ticks until the deadline
    live,      \* the flag WorkerGuard clears
    queue,     \* what the channel holds
    open,      \* whether its receiver is alive
    worker,    \* the worker thread
    stream,    \* the task
    lapsed,    \* history: the stream has been without authority
    overdue    \* history: ticks since it has been

workerVars == <<stop, lease, live, queue, open, worker, stream, lapsed, overdue>>

WorkerPc == {"off", "queued", "opening", "looping", "holding", "sending", "blocked",
             "failing", "gone"}
StreamPc == {"off", "selecting", "writing", "closing", "done"}

Worker == [pc      : WorkerPc,
           frame   : Screen \cup {NoScreen},    \* size of the latest real frame
           coded   : Screen \cup {NoScreen},    \* size the encoder was opened for
           pending : 0 .. MaxOutputs]

Stream == [pc : StreamPc, age : 0 .. WriteLimit, result : {"none", "ok", "failed", "aborted"}]

Streaming == stream.pc \in {"selecting", "writing"}

Authorised == ~stop /\ lease > 0

------------------------------------------------------------------------------
(* The worker *)

\* `valid`, asked before and after every step that may take long.
Valid == live /\ Authorised

Works(changed) == worker' = changed /\ UNCHANGED <<stop, lease, live, queue, open, stream, lapsed, overdue>>

NoWorker == [pc |-> "off", frame |-> NoScreen, coded |-> NoScreen, pending |-> 0]

At(pc) == [worker EXCEPT !.pc = pc]

\* The closure has returned, and its frame and encoder are dropped.
Left(pc) == [NoWorker EXCEPT !.pc = pc]

BeginWork ==
    /\ worker.pc = "queued"
    /\ Works(IF Valid THEN At("opening") ELSE Left("gone"))

\* Runtime::start and Capture::open, each of which may fail.
OpenScreen ==
    /\ worker.pc = "opening"
    /\ Works(At("looping")) \/ Works(Left("failing"))

\* The head of the loop: a new frame, none within 16 ms, or any other error.
Grab ==
    /\ worker.pc = "looping"
    /\ IF Valid
         THEN \/ \E s \in Screen : Works([worker EXCEPT !.pc = "holding", !.frame = s])
              \/ Works(At("holding"))
              \/ Works(Left("failing"))
         ELSE Works(Left("gone"))

\* A size Encoder::new and nv12 take, and the one the encoder was opened for.
Fits(size) ==
    /\ \E d \in Dimensions(size[1], size[2]) : Accepted(d)
    /\ worker.coded \in {NoScreen, size}

\* Encoder::new and encode may fail; encode returns what is ready by now, and
\* none of it if it fails in the middle.
Encode ==
    \/ Works(Left("failing"))
    \/ \E n \in 0 .. MaxOutputs :
          /\ Fits(worker.frame)
          /\ Works([pc |-> IF n = 0 THEN "looping" ELSE "sending",
                    frame |-> worker.frame, coded |-> worker.frame, pending |-> n])

\* The rest of the loop: out of authority, without a frame yet (for 10 seconds
\* at most), or with the latest one.
Process ==
    /\ worker.pc = "holding"
    /\ \/ ~Valid /\ Works(Left("gone"))
       \/ /\ Valid /\ worker.frame = NoScreen
          /\ Works(At("looping")) \/ Works(Left("failing"))
       \/ Valid /\ worker.frame # NoScreen /\ Encode

CheckOutput ==
    /\ worker.pc = "sending"
    /\ Works(IF Valid THEN At("blocked") ELSE Left("gone"))

Puts(item, changed) ==
    /\ open /\ Len(queue) < Depth
    /\ queue' = Append(queue, item) /\ worker' = changed
    /\ UNCHANGED <<stop, lease, live, open, stream, lapsed, overdue>>

\* blocking_send: waits for room, and fails once the receiver is gone.
SendOutput ==
    /\ worker.pc = "blocked"
    /\ \/ ~open /\ Works(Left("gone"))
       \/ Puts("frame", [pc |-> IF worker.pending = 1 THEN "looping" ELSE "sending",
                         frame |-> worker.frame, coded |-> worker.coded,
                         pending |-> worker.pending - 1])

\* Mutant: the error is dropped with the worker.
Report_Nothing ==
    /\ worker.pc = "failing"
    /\ Works(Left("gone"))

\* Mutant: the error is sent again until the stream has taken it.
Report_Insists ==
    /\ worker.pc = "failing"
    /\ Puts("error", Left("gone"))

\* The error goes the way of the frames.
Report ==
    /\ worker.pc = "failing"
    /\ (~open /\ Works(Left("gone"))) \/ Puts("error", Left("gone"))

WorkerSteps == BeginWork \/ OpenScreen \/ Grab \/ Process \/ CheckOutput \/ SendOutput \/ Report

------------------------------------------------------------------------------
(* The stream *)

\* The loop is left: the flag is cleared and the receiver dropped.
Ends(pc, result) ==
    /\ stream' = [pc |-> pc, age |-> 0, result |-> result]
    /\ live' = FALSE /\ open' = FALSE /\ queue' = <<>>
    /\ UNCHANGED <<stop, lease, worker, lapsed, overdue>>

StreamIs(pc) == stream' = [pc |-> pc, age |-> 0, result |-> stream.result]

\* Mutant: a frame is written without another look at the stop channel.
Receive_Deaf ==
    /\ stream.pc = "selecting" /\ queue # <<>>
    /\ \/ Head(queue) = "error" /\ Ends("closing", "failed")
       \/ Head(queue) = "frame" /\ lease = 0 /\ Ends("closing", "ok")
       \/ /\ Head(queue) = "frame" /\ lease > 0
          /\ StreamIs("writing") /\ queue' = Tail(queue)
          /\ UNCHANGED <<stop, lease, live, open, worker, lapsed, overdue>>

Receive ==
    /\ stream.pc = "selecting" /\ queue # <<>>
    /\ \/ Head(queue) = "error" /\ Ends("closing", "failed")
       \/ Head(queue) = "frame" /\ ~Authorised /\ Ends("closing", "ok")
       \/ /\ Head(queue) = "frame" /\ Authorised
          /\ StreamIs("writing") /\ queue' = Tail(queue)
          /\ UNCHANGED <<stop, lease, live, open, worker, lapsed, overdue>>

\* The worker is gone and so is its sender.
Drained ==
    /\ stream.pc = "selecting" /\ queue = <<>> /\ worker.pc = "gone"
    /\ Ends("closing", "ok")

\* stop.changed() and the ticker.
LookUp ==
    /\ stream.pc = "selecting" /\ ~Authorised
    /\ Ends("closing", "ok")

Written ==
    /\ stream.pc = "writing"
    /\ StreamIs("selecting")
    /\ UNCHANGED <<stop, lease, live, queue, open, worker, lapsed, overdue>>

\* The write fails, or takes its 250 ms.
WriteFails ==
    /\ stream.pc = "writing"
    /\ Ends("closing", "failed")

\* The peer connection is closed and the result returned.
Closed ==
    /\ stream.pc = "closing"
    /\ StreamIs("done")
    /\ UNCHANGED <<stop, lease, live, queue, open, worker, lapsed, overdue>>

StreamSteps == Receive \/ Drained \/ LookUp \/ Written \/ WriteFails \/ Closed

------------------------------------------------------------------------------
(* The host session, as far as the stream can tell, and time *)

Start(ticks) ==
    /\ stream.pc = "off"
    /\ lease' = ticks /\ live' = TRUE /\ open' = TRUE
    /\ worker' = At("queued") /\ StreamIs("selecting")
    /\ lapsed' = (stop \/ ticks = 0)
    /\ UNCHANGED <<stop, queue, overdue>>

Renew(ticks) ==
    /\ stream.pc # "off"
    /\ lease' = ticks
    /\ lapsed' = (lapsed \/ ticks = 0)
    /\ overdue' = IF stop \/ ticks = 0 THEN overdue ELSE 0
    /\ UNCHANGED <<stop, live, queue, open, worker, stream>>

Stop ==
    /\ ~stop
    /\ stop' = TRUE /\ lapsed' = TRUE
    /\ UNCHANGED <<lease, live, queue, open, worker, stream, overdue>>

\* AbortOnDrop: the future is dropped at its await, WorkerGuard with it.
Abort ==
    /\ Streaming \/ stream.pc = "closing"
    /\ Ends("done", IF stream.result = "none" THEN "aborted" ELSE stream.result)

\* Before a tick passes the ticker has had its look, and an overlong write
\* has been given up.
Tick ==
    /\ stream.pc = "selecting" => Authorised
    /\ stream.pc = "writing" => stream.age < WriteLimit
    /\ lease' = IF lease > 0 THEN lease - 1 ELSE 0
    /\ lapsed' = (lapsed \/ (stream.pc # "off" /\ lease <= 1))
    /\ overdue' = IF Streaming /\ ~Authorised THEN overdue + 1 ELSE 0
    /\ stream' = [stream EXCEPT !.age = IF stream.pc = "writing" THEN @ + 1 ELSE @]
    /\ UNCHANGED <<stop, live, queue, open, worker>>

Init ==
    /\ stop = FALSE /\ lease = 0 /\ live = FALSE /\ open = FALSE /\ queue = <<>>
    /\ worker = NoWorker
    /\ stream = [pc |-> "off", age |-> 0, result |-> "none"]
    /\ lapsed = FALSE /\ overdue = 0

Next ==
    \/ WorkerSteps \/ StreamSteps
    \/ \E ticks \in 0 .. Life : Start(ticks) \/ Renew(ticks)
    \/ Stop \/ Abort \/ Tick

Spec == Init /\ [][Next]_workerVars

------------------------------------------------------------------------------
(* Properties *)

\* Every variable has its type, and the queue its depth.
TypeOK ==
    /\ {stop, live, open, lapsed} \subseteq BOOLEAN
    /\ lease \in 0 .. Life
    /\ queue \in Seq({"frame", "error"}) /\ Len(queue) <= Depth
    /\ worker \in Worker
    /\ stream \in Stream
    /\ overdue \in Nat

\* A stop, or the end of the lease, is obeyed within the time of one write,
\* whatever the network does and however full the queue is: "Bound a stuck
\* network send so local revocation stays responsive."
RevocationIsPrompt == Streaming => overdue <= WriteLimit

\* A stream ends quietly only if it was stopped or out of lease at some time:
\* a capture that breaks while it is authorised comes out as a failure, through
\* the queue and behind the frames still in it.
QuietEndsAreDeserved == stream.result = "ok" => lapsed

\* The encoder and the conversion take every size that a frame of a supported
\* screen is scaled to, odd ones, extreme shapes and the float's rounding included.
SupportedScreensFit ==
    LET s == worker.frame IN
    s # NoScreen /\ Supported(s[1], s[2]) =>
        /\ Dimensions(s[1], s[2]) # {}
        /\ \A d \in Dimensions(s[1], s[2]) : Accepted(d)
==============================================================================
