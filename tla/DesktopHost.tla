---------------------------- MODULE DesktopHost ------------------------------
(***************************************************************************)
(* The desktop application's native side of attended sharing               *)
(* (apps/desktop/src-tauri/src/pilot.rs) with the streaming half of        *)
(* native/transport/src/remote.rs: one connection slot behind an async     *)
(* mutex, the commands the window invokes, and the task that each          *)
(* accepted session spawns, from the WebRTC offer to the screen capture    *)
(* and its renewed lease.  Every HTTP request may be served and answered,  *)
(* served and its answer lost, or not served at all.                       *)
(*                                                                         *)
(* Instants are kept as the ticks left until them.  A grant expires on a   *)
(* whole second of the wall clock while leases run on the monotonic one,   *)
(* so the wall clock's fraction of a second is kept too.  Of the server    *)
(* this module knows a room's phase only (PilotServer has the rest); a     *)
(* room the server has deleted answers nothing, like a lost reply.         *)
(***************************************************************************)
EXTENDS Integers

CONSTANTS
    Session,          \* rooms this device opens, as host or as viewer
    NoSession,
    PolicyScopes,     \* policy scopes the application passes to verify
    RequiredScopes,   \* policy scopes SessionGate::verify asks for
    TicksPerSecond,
    GrantLife,        \* seconds a fresh grant lasts, 45
    LeaseCap,         \* seconds of lease at most, 40
    Patience,         \* ticks the task waits for the room to become active, 90 s
    AnswerDelay       \* ticks host.answer may take

ASSUME SessionAssumption == NoSession \notin Session

ASSUME ScopeAssumption == {PolicyScopes, RequiredScopes} \subseteq Nat

ASSUME TimeAssumption ==
    /\ {TicksPerSecond, GrantLife, LeaseCap, Patience} \subseteq Nat \ {0}
    /\ AnswerDelay \in Nat

VARIABLES
    fraction,   \* ticks into the current wall-clock second
    slot,       \* PilotState.connection
    mutex,      \* which command holds the slot's mutex across a request
    role,       \* Session -> our role in it
    stop,       \* Session -> the stop channel's value
    accepting,  \* sessions whose accept request is in flight
    task,       \* Session -> the accepted session's task
    room,       \* Session -> what the server holds
    title,      \* the window's title
    vouched     \* history: Session -> ticks left of the best grant verified

vars == <<fraction, slot, mutex, role, stop, accepting, task, room, title, vouched>>

------------------------------------------------------------------------------
(* Types *)

Phase == {"free", "waiting", "awaiting_consent", "negotiating", "active", "ended"}
Pc    == {"idle", "preparing", "offering", "polling", "answering", "streaming",
          "closing", "ending", "done"}
Ticks == 0 .. GrantLife * TicksPerSecond

\* The stream of a session: "new" until it has looked at the stop channel and the
\* deadline, "starting" from that look until the capture is open.
Capture == {"off", "new", "starting", "on", "over"}

\* What a GET of the room brought back, or is bringing; "lost" for any failure.
Mail    == [phase : Phase \cup {"none", "lost"}, left : Ticks]
NoMail  == [phase |-> "none", left |-> 0]
Failure == [phase |-> "lost", left |-> 0]

Task == [pc      : Pc,
         capture : Capture,
         lease   : 0 .. LeaseCap * TicksPerSecond,
         wait    : Nat,
         mail    : Mail]

NoTask == [pc |-> "idle", capture |-> "off", lease |-> 0, wait |-> 0, mail |-> NoMail]

Holder == [op : {"create", "join", "stop"}, session : Session]
Free   == [op |-> "none", session |-> NoSession]

Lesser(a, b)  == IF a < b THEN a ELSE b
Greater(a, b) == IF a < b THEN b ELSE a
Down(n)       == Greater(n - 1, 0)

------------------------------------------------------------------------------
(* The server, as the requests of this device and of the viewer move it *)

CanAccept(s) == room[s].phase = "awaiting_consent"
CanOffer(s)  == room[s].phase = "negotiating" /\ ~room[s].offered
EndedRoom    == [phase |-> "ended", offered |-> FALSE]

\* The reply to a GET: an active room comes with a grant that expires on a
\* whole second, GrantLife after now or earlier if the room expires first.
Snapshots(s) ==
    IF room[s].phase = "active"
    THEN {[phase |-> "active", left |-> sec * TicksPerSecond - fraction] : sec \in 1 .. GrantLife}
    ELSE {[phase |-> room[s].phase, left |-> 0]}

Replies(s) == Snapshots(s) \cup {Failure}

ViewerJoins(s) ==
    /\ role[s] = "host" /\ room[s].phase = "waiting"
    /\ room' = [room EXCEPT ![s].phase = "awaiting_consent"]
    /\ UNCHANGED <<fraction, slot, mutex, role, stop, accepting, task, title, vouched>>

ViewerAnswers(s) ==
    /\ role[s] = "host" /\ room[s].phase = "negotiating" /\ room[s].offered
    /\ room' = [room EXCEPT ![s].phase = "active"]
    /\ UNCHANGED <<fraction, slot, mutex, role, stop, accepting, task, title, vouched>>

\* The other end stops, or a timer of the server does.
RoomEnds(s) ==
    /\ room[s].phase \notin {"free", "ended"}
    /\ room' = [room EXCEPT ![s] = EndedRoom]
    /\ UNCHANGED <<fraction, slot, mutex, role, stop, accepting, task, title, vouched>>

------------------------------------------------------------------------------
(* The commands *)

\* pilot_create and pilot_join hold the mutex from the test of the slot until
\* the reply is stored.
BeginOpen(s, op) ==
    /\ mutex = Free /\ slot = NoSession /\ room[s].phase = "free"
    /\ mutex' = [op |-> op, session |-> s]
    /\ UNCHANGED <<fraction, slot, role, stop, accepting, task, room, title, vouched>>

Opened(s, op) ==
    [room EXCEPT ![s].phase = IF op = "create" THEN "waiting" ELSE "awaiting_consent"]

FinishOpen(s, op) ==
    /\ mutex = [op |-> op, session |-> s]
    /\ mutex' = Free
    /\ \/ room' = Opened(s, op) /\ slot' = s
          /\ role' = [role EXCEPT ![s] = IF op = "create" THEN "host" ELSE "viewer"]
       \/ room' = Opened(s, op) /\ UNCHANGED <<slot, role>>     \* its reply is lost
       \/ UNCHANGED <<room, slot, role>>                          \* not served
    /\ UNCHANGED <<fraction, stop, accepting, task, title, vouched>>

\* Mutant: the connection is forgotten, and nobody tells its task.
BeginStop_Silent(s) ==
    /\ mutex = Free /\ slot = s
    /\ slot' = NoSession
    /\ mutex' = [op |-> "stop", session |-> s]
    /\ UNCHANGED <<fraction, role, stop, accepting, task, room, title, vouched>>

\* pilot_stop takes the connection and still holds the mutex while it tells
\* the server: the guard of an `if let` lives to the end of its block.
BeginStop(s) ==
    /\ mutex = Free /\ slot = s
    /\ slot' = NoSession
    /\ stop' = [stop EXCEPT ![s] = TRUE]
    /\ mutex' = [op |-> "stop", session |-> s]
    /\ UNCHANGED <<fraction, role, accepting, task, room, title, vouched>>

FinishStop(s) ==
    /\ mutex = [op |-> "stop", session |-> s]
    /\ mutex' = Free
    /\ room' \in {room, [room EXCEPT ![s] = EndedRoom]}
    /\ UNCHANGED <<fraction, slot, role, stop, accepting, task, title, vouched>>

\* The window closes: close only tries the lock, and leaves the slot as it is.
Close(s) ==
    /\ mutex = Free /\ slot = s
    /\ stop' = [stop EXCEPT ![s] = TRUE]
    /\ UNCHANGED <<fraction, slot, mutex, role, accepting, task, room, title, vouched>>

\* pilot_accept works on a clone of the connection, outside the mutex.
BeginAccept(s) ==
    /\ mutex = Free /\ slot = s /\ role[s] = "host" /\ s \notin accepting
    /\ accepting' = accepting \cup {s}
    /\ UNCHANGED <<fraction, slot, mutex, role, stop, task, room, title, vouched>>

FinishAccept(s) ==
    /\ s \in accepting
    /\ accepting' = accepting \ {s}
    /\ \/ /\ CanAccept(s)
          /\ room' = [room EXCEPT ![s].phase = "negotiating"]
          /\ \/ /\ task' = [task EXCEPT ![s].pc = "preparing"]
                /\ title' = "sharing"
             \/ UNCHANGED <<task, title>>     \* its reply is lost or unusable
       \/ UNCHANGED <<room, task, title>>     \* refused, or not served
    /\ UNCHANGED <<fraction, slot, mutex, role, stop, vouched>>

------------------------------------------------------------------------------
(* The task of an accepted session *)

Goes(s, pc) == task' = [task EXCEPT ![s].pc = pc]

\* Host::prepare; its failure skips the close of the connection, and the stop.
Prepare(s) ==
    /\ task[s].pc = "preparing"
    /\ Goes(s, "offering") \/ Goes(s, "ending")
    /\ UNCHANGED <<fraction, slot, mutex, role, stop, accepting, room, title, vouched>>

Offer(s) ==
    /\ task[s].pc = "offering"
    /\ \/ /\ CanOffer(s)
          /\ room' = [room EXCEPT ![s].offered = TRUE]
          /\ \/ task' = [task EXCEPT ![s].pc = "polling", ![s].wait = Patience]
             \/ Goes(s, "closing")            \* its reply is lost
       \/ UNCHANGED room /\ Goes(s, "closing")
    /\ UNCHANGED <<fraction, slot, mutex, role, stop, accepting, title, vouched>>

\* Mutant: the loop asks without looking at the stop channel or its patience.
PollRoom_Endless(s) ==
    /\ task[s].pc = "polling" /\ task[s].mail = NoMail
    /\ \E reply \in Replies(s) \ {Failure} : task' = [task EXCEPT ![s].mail = reply]
    /\ UNCHANGED <<fraction, slot, mutex, role, stop, accepting, room, title, vouched>>

\* The top of the polling loop, and its sleep: stop and patience come first.
PollRoom(s) ==
    /\ task[s].pc = "polling" /\ task[s].mail = NoMail
    /\ IF stop[s] \/ task[s].wait = 0
       THEN Goes(s, "closing")
       ELSE \E reply \in Replies(s) : task' = [task EXCEPT ![s].mail = reply]
    /\ UNCHANGED <<fraction, slot, mutex, role, stop, accepting, room, title, vouched>>

\* Connection::verify, of a snapshot that says active and carries the server's grant
\* for this session, as every snapshot here does: its fingerprints and its signature
\* are right and the clocks agree (what verify does with any other grant, and with
\* another clock, is SessionGate's).  What is left is the time and the scopes.
Verified(mail) == PolicyScopes = RequiredScopes /\ mail.left > 0

\* Mutant: the lease lasts as long as the grant.
LeaseOf_NoMargin(mail) ==
    Lesser((mail.left + fraction) \div TicksPerSecond, LeaseCap) * TicksPerSecond

\* Whole seconds on the wall clock, one kept back, LeaseCap at most.
LeaseOf(mail) ==
    Lesser((mail.left + fraction) \div TicksPerSecond - 1, LeaseCap) * TicksPerSecond

Vouch(s, mail) == vouched' = [vouched EXCEPT ![s] = Greater(@, mail.left)]

HearPoll(s) ==
    LET mail == task[s].mail IN
    /\ task[s].pc = "polling" /\ mail # NoMail
    /\ IF mail.phase = "active" /\ Verified(mail)
       THEN /\ task' = [task EXCEPT ![s].pc = "answering", ![s].mail = NoMail,
                                    ![s].lease = LeaseOf(mail), ![s].wait = AnswerDelay]
            /\ Vouch(s, mail)
       ELSE /\ task' = [task EXCEPT ![s].mail = NoMail,
                                    ![s].pc = IF mail.phase \in {"lost", "ended", "active"}
                                              THEN "closing" ELSE @]
            /\ UNCHANGED vouched
    /\ UNCHANGED <<fraction, slot, mutex, role, stop, accepting, room, title>>

\* host.answer; the clock that the lease is counted on starts only after it.
AnswerHost(s) ==
    /\ task[s].pc = "answering"
    /\ \/ task' = [task EXCEPT ![s].pc = "streaming", ![s].capture = "new"]
       \/ Goes(s, "closing")
    /\ UNCHANGED <<fraction, slot, mutex, role, stop, accepting, room, title, vouched>>

\* Mutant: the stream starts without looking at the stop channel.
MayCapture_Deaf(s) == task[s].lease > 0

\* Mutant: nothing enforces the deadline.
MayCapture_NoDeadline(s) == ~stop[s]

MayCapture(s) == ~stop[s] /\ task[s].lease > 0

\* Stopped, out of lease, or aborted because the task has left its loop.
MustStop(s) == ~MayCapture(s) \/ task[s].pc # "streaming"

Films(s, capture) == task' = [task EXCEPT ![s].capture = capture]

\* The stream's one look at the stop channel and the deadline before it starts.  An
\* abort before the stream has run at all ends it as well.
BeginCapture(s) ==
    /\ task[s].capture = "new"
    /\ \/ MayCapture(s) /\ Films(s, "starting")
       \/ MustStop(s) /\ Films(s, "over")
    /\ UNCHANGED <<fraction, slot, mutex, role, stop, accepting, room, title, vouched>>

\* The helper is spawned, or the worker's thread opens the screen, or neither can:
\* whatever has become of the stop channel and the deadline since that look.
StartCapture(s) ==
    /\ task[s].capture = "starting"
    /\ Films(s, "on") \/ Films(s, "over")
    /\ UNCHANGED <<fraction, slot, mutex, role, stop, accepting, room, title, vouched>>

\* The stream also ends by itself, on any error of the capture or the network.
StopCapture(s) ==
    /\ task[s].capture = "on"
    /\ Films(s, "over")
    /\ UNCHANGED <<fraction, slot, mutex, role, stop, accepting, room, title, vouched>>

\* Every 5 seconds the loop asks for a fresh grant; until the reply it listens
\* neither to the stop channel nor to the end of the stream.
Renew(s) ==
    /\ task[s].pc = "streaming" /\ task[s].mail = NoMail
    /\ \E reply \in Replies(s) : task' = [task EXCEPT ![s].mail = reply]
    /\ UNCHANGED <<fraction, slot, mutex, role, stop, accepting, room, title, vouched>>

HearRenewal(s) ==
    LET mail == task[s].mail IN
    /\ task[s].pc = "streaming" /\ mail # NoMail
    /\ IF mail.phase = "active" /\ Verified(mail)
       THEN /\ task' = [task EXCEPT ![s].mail = NoMail, ![s].lease = LeaseOf(mail)]
            /\ Vouch(s, mail)
       ELSE /\ task' = [task EXCEPT ![s].mail = NoMail,
                                    ![s].pc = IF mail.phase = "lost" THEN @ ELSE "closing"]
            /\ UNCHANGED vouched
    /\ UNCHANGED <<fraction, slot, mutex, role, stop, accepting, room, title>>

\* The stop, or the end of the stream, which gives up at the deadline even while its
\* worker is still opening the screen.
LeaveStream(s) ==
    /\ task[s].pc = "streaming" /\ task[s].mail = NoMail
    /\ task[s].capture = "over" \/ ~MayCapture(s)
    /\ Goes(s, "closing")
    /\ UNCHANGED <<fraction, slot, mutex, role, stop, accepting, room, title, vouched>>

CloseHost(s) ==
    /\ task[s].pc = "closing"
    /\ stop' = [stop EXCEPT ![s] = TRUE]
    /\ Goes(s, "ending")
    /\ UNCHANGED <<fraction, slot, mutex, role, accepting, room, title, vouched>>

\* The tail of every task: the server is told, and the title goes back.
EndTask(s) ==
    /\ task[s].pc = "ending"
    /\ Goes(s, "done")
    /\ room' \in {room, [room EXCEPT ![s] = EndedRoom]}
    /\ title' = "plain"
    /\ UNCHANGED <<fraction, slot, mutex, role, stop, accepting, vouched>>

------------------------------------------------------------------------------
(* Time: a lease runs once streaming has begun.  Before a tick passes, the
   100 ms ticker has seen the end of a lease, and host.answer has returned
   within AnswerDelay. *)

Aged(t) ==
    [pc |-> t.pc, capture |-> t.capture,
     lease |-> IF t.pc = "answering" THEN t.lease ELSE Down(t.lease),
     wait |-> Down(t.wait),
     mail |-> [phase |-> t.mail.phase, left |-> Down(t.mail.left)]]

Tick ==
    /\ \A s \in Session :
          /\ ~(task[s].capture = "on" /\ MustStop(s))
          /\ ~(task[s].pc = "answering" /\ task[s].wait = 0)
    /\ fraction' = (fraction + 1) % TicksPerSecond
    /\ task' = [s \in Session |-> Aged(task[s])]
    /\ vouched' = [s \in Session |-> Down(vouched[s])]
    /\ UNCHANGED <<slot, mutex, role, stop, accepting, room, title>>

Init ==
    /\ fraction = 0
    /\ slot = NoSession /\ mutex = Free /\ title = "plain"
    /\ role = [s \in Session |-> "none"]
    /\ stop = [s \in Session |-> FALSE]
    /\ accepting = {}
    /\ task = [s \in Session |-> NoTask]
    /\ room = [s \in Session |-> [phase |-> "free", offered |-> FALSE]]
    /\ vouched = [s \in Session |-> 0]

\* What the task and its stream do next, left to themselves.
Proceeds(s) ==
    \/ Prepare(s) \/ Offer(s) \/ PollRoom(s) \/ HearPoll(s) \/ AnswerHost(s)
    \/ HearRenewal(s) \/ LeaveStream(s) \/ CloseHost(s) \/ EndTask(s)

Next ==
    \/ Tick
    \/ \E s \in Session :
          \/ ViewerJoins(s) \/ ViewerAnswers(s) \/ RoomEnds(s)
          \/ \E op \in {"create", "join"} : BeginOpen(s, op) \/ FinishOpen(s, op)
          \/ BeginStop(s) \/ FinishStop(s) \/ Close(s)
          \/ BeginAccept(s) \/ FinishAccept(s)
          \/ Proceeds(s) \/ Renew(s)
          \/ BeginCapture(s) \/ StartCapture(s) \/ StopCapture(s)

Spec == Init /\ [][Next]_vars

\* Requests are answered or fail within 12 seconds (api()), the runtime polls
\* its tasks, the ticker fires and time passes.  The select! of the streaming
\* loop picks among the ready branches at random, so a branch that keeps being
\* ready is taken however often the renewal is (hence the strong fairness).
\* Nobody has to press anything, and neither viewer nor server has to act.
Fairness ==
    /\ WF_vars(Tick)
    /\ \A s \in Session :
          /\ WF_vars(Proceeds(s)) /\ SF_vars(LeaveStream(s))
          /\ WF_vars(BeginCapture(s)) /\ WF_vars(StartCapture(s))
          /\ WF_vars(MustStop(s) /\ StopCapture(s))
          /\ WF_vars(FinishStop(s)) /\ WF_vars(FinishAccept(s))
          /\ \A op \in {"create", "join"} : WF_vars(FinishOpen(s, op))

FairSpec == Spec /\ Fairness

------------------------------------------------------------------------------
(* What the host's own device promises *)

\* Every variable has its type, and every countdown its limit.
TypeOK ==
    /\ fraction \in 0 .. TicksPerSecond - 1
    /\ slot \in Session \cup {NoSession}
    /\ mutex \in Holder \cup {Free}
    /\ role \in [Session -> {"none", "host", "viewer"}]
    /\ stop \in [Session -> BOOLEAN]
    /\ accepting \subseteq Session
    /\ task \in [Session -> Task]
    /\ \A s \in Session : task[s].wait <= Greater(Patience, AnswerDelay)
    /\ room \in [Session -> [phase : Phase, offered : BOOLEAN]]
    /\ title \in {"plain", "sharing"}
    /\ vouched \in [Session -> Ticks]

\* A screen is captured only under authority: a lease ends before the grant it
\* was taken from, except for the time host.answer took, which runs between the
\* lease's computation and the start of its clock.
LeaseBoundedByGrant ==
    \A s \in Session :
        task[s].capture = "on" /\ task[s].lease > 0 =>
            task[s].lease < vouched[s] + AnswerDelay

\* A session that is dark for good: its capture has ended, or it was stopped before
\* the stream's look.
Final(s) == \/ task[s].capture = "over"
            \/ stop[s] /\ task[s].capture \in {"off", "new"}

\* After a stop, whoever asked for it and whichever accept, answer, renewal or
\* command was in flight, a session that has not come past its stream's look never
\* does, and no stream is ever started twice.  What a stop does not prevent is a
\* capture already "starting" (NothingHangs closes it again).
StopIsFinal ==
    [][\A s \in Session : Final(s) => Final(s)']_vars

\* One session at a time: a host task that nobody has stopped belongs to the
\* connection in the slot, where the stop command and the window can reach it.
RunningTaskIsReachable ==
    \A s \in Session :
        task[s].pc \notin {"idle", "done"} /\ ~stop[s] => slot = s

\* The title never goes on saying that the screen is shared once every task has
\* ended, whatever order their tails and the next sessions' accepts come in.
TitleGoesBack ==
    title = "sharing" => \E s \in Session : task[s].pc \notin {"idle", "done"}

\* A snapshot of an active room that carries an unexpired grant of the server
\* lets the accepted session go on to the capture.
GenuineGrantIsTaken ==
    [][\A s \in Session :
          /\ task[s].pc = "polling" /\ task'[s].pc = "closing"
          /\ task[s].mail.phase = "active" /\ task[s].mail.left > 0
          => FALSE]_vars

\* The host does not depend on being told: once its room has ended, its capture
\* goes dark for good, even if no request of this device is answered any more.
EndedRoomGoesDark ==
    \A s \in Session :
        room[s].phase = "ended" ~> [](task[s].capture # "on")

\* A stopped session's task closes its connection, tells the server and ends, and
\* its capture is off, whichever request was in flight, and the title with it
\* unless another task has it; the wait for the viewer ends by itself; and the
\* slot's mutex comes back for the next command.
NothingHangs ==
    /\ \A s \in Session :
         /\ stop[s] ~> /\ task[s].pc \in {"idle", "done"}
                       /\ task[s].capture \in {"off", "over"}
                       /\ TitleGoesBack
         /\ task[s].pc = "polling" ~> task[s].pc # "polling"
    /\ mutex # Free ~> mutex = Free
==============================================================================
