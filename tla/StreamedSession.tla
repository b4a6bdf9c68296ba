--------------------------- MODULE StreamedSession ---------------------------
(***************************************************************************)
(* A whole trial: the streaming half of a Windows host (FrameWorker under  *)
(* the session task of apps/desktop/src-tauri/src/pilot.rs), the room on   *)
(* the server, and the receiver the project verifies it with, dx-probe's   *)
(* pilot_receive (native/transport/src/main.rs), whose native helper shows *)
(* the picture and leaves after 20 seconds.                                *)
(*                                                                         *)
(* Host and receiver share nothing but the room and the media connection.  *)
(* Any request may be served and answered, served and its answer lost, or  *)
(* not served.  DesktopHost has the host's commands and the exact lease,   *)
(* PilotServer the room; here a grant is worth at most Life ticks when the *)
(* server issues it and grows old on its way; the lease taken from it does *)
(* not run while the host awaits host.answer.                              *)
(***************************************************************************)
EXTENDS FrameWorker

CONSTANTS
    Inbox,         \* access units on_track keeps for the receiver, 3
    AnswerDelay    \* ticks host.answer may take

ASSUME InboxAssumption == Inbox \in Nat \ {0}

ASSUME AnswerAssumption == AnswerDelay \in Nat

VARIABLES
    room,      \* the room's state on the server
    host,      \* the session task and the reply on its way to it
    viewer,    \* pilot_receive
    helper,    \* the process that decodes and shows
    inbox,     \* how many access units wait for the receiver
    dark       \* history: ticks since the room ended

sessionVars == <<stop, lease, live, queue, open, worker, stream, lapsed, overdue,
                 room, host, viewer, helper, inbox, dark>>

NoMail == [phase |-> "none", left |-> 0]

\* `granted` is the lease that verify has computed and whose clock has not started
\* yet, and `wait` what host.answer may still take.
Host == [pc      : {"polling", "answering", "streaming", "closing", "ending", "done"},
         mail    : [phase : {"none", "lost", "negotiating", "active", "ended"}, left : 0 .. Life],
         granted : 0 .. Life,
         wait    : 0 .. AnswerDelay]

ViewerPc == {"waiting", "answering", "receiving", "writing", "ending", "done"}

------------------------------------------------------------------------------
(* The room *)

RoomEnds ==
    /\ room # "ended"
    /\ room' = "ended"
    /\ UNCHANGED <<workerVars, host, viewer, helper, inbox, dark>>

Snapshots == {[phase |-> room, left |-> n] : n \in IF room = "active" THEN 0 .. Life ELSE {0}}

------------------------------------------------------------------------------
(* The host's session task, from the room's offer on *)

HostAt(pc) == [pc |-> pc, mail |-> NoMail, granted |-> 0, wait |-> 0]
HostIs(pc) == host' = HostAt(pc)

\* Connection::get: the next poll for the answer, or a renewal.
Ask ==
    /\ host.pc \in {"polling", "streaming"} /\ host.mail = NoMail
    /\ \E reply \in Snapshots \cup {[phase |-> "lost", left |-> 0]} :
          host' = [host EXCEPT !.mail = reply]
    /\ UNCHANGED <<workerVars, room, viewer, helper, inbox, dark>>

\* Mutant: the lease is the one the grant was issued with.
Granted_Fresh(left) == {Life}

\* What verify makes of a grant: its rest, by its own expiry.
Granted(left) == {left}

HearPoll ==
    LET mail == host.mail IN
    /\ host.pc = "polling" /\ mail # NoMail
    /\ \/ /\ mail.phase = "active"
          /\ \E ticks \in Granted(mail.left) :
                host' = [HostAt("answering") EXCEPT !.granted = ticks, !.wait = AnswerDelay]
       \/ mail.phase # "negotiating" /\ HostIs("closing")       \* or verify fails
       \/ mail.phase = "negotiating" /\ HostIs("polling")
    /\ UNCHANGED <<workerVars, room, viewer, helper, inbox, dark>>

\* host.answer is awaited, and only then the clock of the lease is started.
AnswerHost ==
    /\ host.pc = "answering"
    /\ \/ HostIs("streaming") /\ Start(host.granted)
       \/ HostIs("closing") /\ UNCHANGED workerVars
    /\ UNCHANGED <<room, viewer, helper, inbox, dark>>

\* A renewal that got no answer changes nothing.
HearRenewal ==
    LET mail == host.mail IN
    /\ host.pc = "streaming" /\ mail # NoMail
    /\ \/ /\ mail.phase = "active" /\ HostIs("streaming")
          /\ \E ticks \in Granted(mail.left) : Renew(ticks)
       \/ /\ mail.phase = "lost" /\ HostIs("streaming")
          /\ UNCHANGED workerVars
       \/ /\ \/ mail.phase \in {"negotiating", "ended"}
             \/ mail.phase = "active" /\ mail.left = 0           \* verify finds it expired
          /\ HostIs("closing") /\ UNCHANGED workerVars
    /\ UNCHANGED <<room, viewer, helper, inbox, dark>>

\* Stopped, or 90 seconds without an answer.
GiveUp ==
    /\ host.pc = "polling" /\ host.mail = NoMail
    /\ HostIs("closing")
    /\ UNCHANGED <<workerVars, room, viewer, helper, inbox, dark>>

LeaveLoop ==
    /\ host.pc = "streaming" /\ host.mail = NoMail
    /\ stop \/ stream.pc = "done"
    /\ HostIs("closing")
    /\ UNCHANGED <<workerVars, room, viewer, helper, inbox, dark>>

\* _abort is dropped with the loop.
HostAborts ==
    /\ host.pc \in {"closing", "ending", "done"}
    /\ Abort
    /\ UNCHANGED <<room, host, viewer, helper, inbox, dark>>

HostCloses ==
    /\ host.pc = "closing" /\ HostIs("ending")
    /\ IF stop THEN UNCHANGED workerVars ELSE Stop
    /\ UNCHANGED <<room, viewer, helper, inbox, dark>>

HostEnds ==
    /\ host.pc = "ending" /\ HostIs("done")
    /\ room' \in {room, "ended"}
    /\ UNCHANGED <<workerVars, viewer, helper, inbox, dark>>

\* pilot_stop, or the window closes.
UserStops ==
    /\ Stop
    /\ UNCHANGED <<room, host, viewer, helper, inbox, dark>>

HostSteps == HearPoll \/ AnswerHost \/ HearRenewal \/ GiveUp \/ HostCloses \/ HostEnds

------------------------------------------------------------------------------
(* pilot_receive *)

ViewerIs(pc) == viewer' = pc

\* The offer is there, or not yet; ended, 90 seconds and any failure end it.
AwaitOffer ==
    /\ viewer = "waiting"
    /\ (room = "negotiating" /\ ViewerIs("answering")) \/ ViewerIs("ending")
    /\ UNCHANGED <<workerVars, room, host, helper, inbox, dark>>

\* Gathering may fail, the answer be refused, its reply be lost, and the
\* helper not start.
Answer ==
    /\ viewer = "answering"
    /\ \/ ViewerIs("ending") /\ UNCHANGED <<room, helper>>
       \/ /\ room = "negotiating" /\ room' = "active"
          /\ \/ ViewerIs("receiving") /\ helper' = "running"
             \/ ViewerIs("ending") /\ UNCHANGED helper
    /\ UNCHANGED <<workerVars, host, inbox, dark>>

\* on_track: an access unit that finds no room is dropped; so may the network.
Arrives ==
    /\ Written
    /\ inbox' \in {inbox, IF viewer \in {"receiving", "writing"} /\ inbox < Inbox
                          THEN inbox + 1 ELSE inbox}
    /\ UNCHANGED <<room, host, viewer, helper, dark>>

TakeUnit ==
    /\ viewer = "receiving" /\ inbox > 0
    /\ ViewerIs("writing") /\ inbox' = inbox - 1
    /\ UNCHANGED <<workerVars, room, host, helper, dark>>

\* Writing to the helper's pipe waits for it to read.  Meanwhile neither the
\* room nor the deadline is looked at.
WriteUnit ==
    /\ viewer = "writing" /\ helper = "running"
    /\ ViewerIs("receiving")
    /\ UNCHANGED <<workerVars, room, host, helper, inbox, dark>>

WriteBreaks ==
    /\ viewer = "writing" /\ helper = "gone"
    /\ ViewerIs("ending") /\ inbox' = 0
    /\ UNCHANGED <<workerVars, room, host, helper, dark>>

HelperExits ==
    /\ helper = "running" /\ helper' = "gone"
    /\ UNCHANGED <<workerVars, room, host, viewer, inbox, dark>>

\* The room is no longer active, a request fails, or 24 seconds are over.
StopReceiving ==
    /\ viewer = "receiving"
    /\ ViewerIs("ending") /\ helper' = "gone" /\ inbox' = 0
    /\ UNCHANGED <<workerVars, room, host, dark>>

ViewerEnds ==
    /\ viewer = "ending" /\ ViewerIs("done")
    /\ room' \in {room, "ended"}
    /\ UNCHANGED <<workerVars, host, helper, inbox, dark>>

ViewerSteps == AwaitOffer \/ Answer \/ WriteBreaks \/ StopReceiving \/ ViewerEnds

------------------------------------------------------------------------------
(* The rest of the stream and of the worker, and time *)

Captures == WorkerSteps /\ UNCHANGED <<room, host, viewer, helper, inbox, dark>>

Streams ==
    /\ Receive \/ Drained \/ LookUp \/ WriteFails \/ Closed
    /\ UNCHANGED <<room, host, viewer, helper, inbox, dark>>

Forget == Life + AnswerDelay + WriteLimit     \* bound of the history

\* host.answer has returned within AnswerDelay before a tick too many passes.
Passes ==
    /\ Tick
    /\ host.pc = "answering" => host.wait > 0
    /\ host' = [host EXCEPT !.mail.left = IF @ > 0 THEN @ - 1 ELSE 0,
                            !.wait = IF @ > 0 THEN @ - 1 ELSE 0]
    /\ dark' = IF room = "ended" /\ dark < Forget THEN dark + 1 ELSE dark
    /\ UNCHANGED <<room, viewer, helper, inbox>>

SessionInit ==
    /\ Init
    /\ room = "negotiating" /\ host = HostAt("polling")
    /\ viewer = "waiting" /\ helper = "none" /\ inbox = 0 /\ dark = 0

SessionNext ==
    \/ RoomEnds
    \/ Ask \/ LeaveLoop \/ HostAborts \/ UserStops \/ HostSteps
    \/ Arrives \/ TakeUnit \/ WriteUnit \/ HelperExits \/ ViewerSteps
    \/ Captures \/ Streams \/ Passes

SessionSpec == SessionInit /\ [][SessionNext]_sessionVars

\* Both programs keep running, calls of the platform return, requests are
\* answered or fail within 12 seconds, the helper's 20 seconds pass and the
\* receiver's own limits of 24 and 90.  select! picks among the ready branches
\* at random, so one that is ready again and again is taken (the strong
\* fairness).  The server's sweep ends a room one of whose ends has fallen
\* silent.  Nobody has to press anything, no write to the helper has to end,
\* and no request has to arrive.
Fairness ==
    /\ WF_sessionVars(HostSteps) /\ SF_sessionVars(LeaveLoop) /\ WF_sessionVars(HostAborts)
    /\ WF_sessionVars(Captures) /\ WF_sessionVars(Streams \/ Arrives)
    /\ WF_sessionVars(Passes)
    /\ WF_sessionVars(AwaitOffer \/ Answer \/ WriteBreaks \/ ViewerEnds)
    /\ SF_sessionVars(StopReceiving)
    /\ WF_sessionVars(HelperExits)
    /\ WF_sessionVars(RoomEnds /\ viewer = "done")

FairSession == SessionSpec /\ Fairness

------------------------------------------------------------------------------
(* Properties *)

\* No picture is on its way to the other end longer after the room has ended
\* than the best grant of before lasted, host.answer and one write take: renewals
\* that are late, lost or answered before the end cannot prolong a share, and what
\* host.answer adds is added once.
EndedRoomsGoDarkInTime == stream.pc = "writing" => dark < Life + AnswerDelay + WriteLimit

\* Whatever is lost and however stuck the helper is, the trial comes to an end:
\* both programs have told the server, or tried, and the stream and the thread
\* that captures the screen are gone.
TheTrialEnds ==
    <>(host.pc = "done" /\ viewer = "done" /\ stream.pc \in {"off", "done"}
       /\ worker.pc \in {"off", "gone"})
==============================================================================
