---------------------------- MODULE ViewerWindow -----------------------------
(***************************************************************************)
(* The window of attended sharing (apps/desktop/src/Pilot.tsx) against the *)
(* native commands it invokes (apps/desktop/src-tauri/src/pilot.rs): the   *)
(* callbacks of one JavaScript thread, interleaved at every await, and one *)
(* native connection slot that the window cannot see.                      *)
(*                                                                         *)
(* The slot's mutex is fair, so the commands that need it wait in one      *)
(* queue; pilot_create, pilot_join and pilot_stop keep it across their     *)
(* request, the others only while they copy the connection.  The replies   *)
(* of the three that keep it reach the window in the order they were sent, *)
(* all others at any time.  React's state and effects are committed with   *)
(* the step that sets them.  Of a lease the window knows only whether      *)
(* performance.now() has passed it.  pilot_check and pilot_accept matter   *)
(* here through the busy flag alone.                                       *)
(***************************************************************************)
EXTENDS Integers, Sequences

CONSTANTS
    Session,    \* rooms of the server this window may create or join, each once
    Offer,      \* calls of viewerOffer, as many as may be under way at once
    MaxStops,   \* bound on pilot_stop calls under way when the user presses once more
    PolicyScopes,    \* policy scopes the application passes to verify
    RequiredScopes,  \* policy scopes SessionGate::verify asks for
    None

ASSUME ScopeAssumption == {PolicyScopes, RequiredScopes} \subseteq Nat

ASSUME NoneAssumption == None \notin Session \cup Offer

ASSUME StopsAssumption == MaxStops \in Nat

VARIABLES
    room,         \* React state: the room shown, NoRoom before and after
    busy,         \* React state: most buttons are disabled
    active,       \* active.current
    lease,        \* lastLease.current
    negotiating,  \* negotiating.current
    generation,   \* generation.current, as the call it still belongs to
    peer,         \* peer.current, as the call that made it
    connections,  \* peer connections not yet closed
    video,        \* the call whose stream is in media.current and is played
    offers,       \* Offer -> the call of viewerOffer
    poll,         \* the poll under way in the current effect
    clicks,       \* pilot_check and pilot_accept under way
    slot,         \* PilotState.connection
    queue,        \* commands waiting for the slot's mutex
    replies,      \* replies of pilot_create, pilot_join and pilot_stop on their way
    phase,        \* Session -> its state at the server
    viewing       \* sessions joined, the others are created

viewer == <<negotiating, generation, peer, connections, video>>
page   == <<room, busy, active, lease>>
native == <<slot, queue, replies>>
server == <<phase, viewing>>
vars   == <<page, viewer, offers, poll, clicks, native, server>>

------------------------------------------------------------------------------
(* Types *)

\* "pending" stands for waiting and awaiting_consent, and for negotiating while
\* there is no offer yet; "offered" for negotiating with one.
Live  == {"pending", "offered", "active"}
Phase == Live \cup {"unused", "asked", "ended"}

Room   == [session : Session, state : Live \cup {"ended"}]
NoRoom == [session |-> None, state |-> "none"]

Call   == [stage : {"idle", "describing", "gathering", "asking", "sent",
                    "answered", "refused"},
           session : Session \cup {None}]
NoCall == [stage |-> "idle", session |-> None]

Poll   == [stage   : {"none", "asking", "sent", "answered"},
           session : Session \cup {None},
           state   : Live \cup {"ended", "none"}]
NoPoll == [stage |-> "none", session |-> None, state |-> "none"]

Ask(op, of)       == [op |-> op, of |-> of]
Reply(op, of, ok) == [op |-> op, of |-> of, ok |-> ok]

Commands == [op : {"open", "poll", "answer", "stop"}, of : Session \cup Offer \cup {None}]

------------------------------------------------------------------------------
(* What the handlers share *)

CloseVideo ==
    /\ generation'  = None
    /\ connections' = connections \ {peer}
    /\ peer'        = None
    /\ negotiating' = FALSE
    /\ video'       = None

\* stop() up to its await; it names no session.
Stop ==
    /\ active' = FALSE
    /\ lease'  = "none"
    /\ busy'   = TRUE
    /\ queue'  = Append(queue, Ask("stop", None))
    /\ CloseVideo

\* Both intervals run while a room is shown that has not ended.
Polling(r) == r # NoRoom /\ r.state # "ended"

EffectKey(r) == <<r.session, r.state = "ended">>

\* A queue without the poll that waits in it, if one does.
WithoutPoll(q) ==
    IF \A i \in DOMAIN q : q[i].op # "poll" THEN q
    ELSE LET k == CHOOSE i \in DOMAIN q : q[i].op = "poll" IN
         [i \in 1 .. Len(q) - 1 |-> q[IF i < k THEN i ELSE i + 1]]

\* Mutant: a reply is used though its effect was cancelled.
Show_Uncancelled(r, q, p) == room' = r /\ poll' = p /\ queue' = q

\* setRoom(r), with the effect that polls: new dependencies cancel the poll p.
Show(r, q, p) ==
    /\ room' = r
    /\ IF EffectKey(r) = EffectKey(room)
         THEN poll' = p /\ queue' = q
         ELSE /\ poll'  = NoPoll
              /\ queue' = WithoutPoll(q)

IsNext(op)   == queue # <<>> /\ Head(queue).op = op
Arriving(op) == replies # <<>> /\ Head(replies).op = op
Stops(q)     == Len(SelectSeq(q, LAMBDA c : c.op = "stop"))
Stage(o, st) == offers[o].stage = st
Finish(o)    == offers' = [offers EXCEPT ![o].stage = "idle"]

------------------------------------------------------------------------------
(* Opening a session: create(), join() *)

OpenCalled(s, joining) ==
    /\ room = NoRoom /\ ~busy
    /\ phase[s] = "unused"
    /\ busy'    = TRUE
    /\ phase'   = [phase EXCEPT ![s] = "asked"]
    /\ viewing' = IF joining THEN viewing \cup {s} ELSE viewing \ {s}
    /\ queue'   = Append(queue, Ask("open", s))
    /\ UNCHANGED <<room, active, lease, viewer, offers, poll, clicks, slot, replies>>

\* Refused while a connection is held, or by the network or server; a room whose
\* reply is lost ends at the server.
OpenServed ==
    /\ IsNext("open")
    /\ queue' = Tail(queue)
    /\ LET s == Head(queue).of IN
         \/ /\ slot = None
            /\ slot'    = s
            /\ phase'   = [phase EXCEPT ![s] = "pending"]
            /\ replies' = Append(replies, Reply("open", s, TRUE))
         \/ /\ \/ phase' = [phase EXCEPT ![s] = "unused"]
               \/ slot = None /\ phase' = [phase EXCEPT ![s] = "ended"]
            /\ replies' = Append(replies, Reply("open", s, FALSE))
            /\ UNCHANGED slot
    /\ UNCHANGED <<page, viewer, offers, poll, clicks, viewing>>

OpenArrives ==
    /\ Arriving("open")
    /\ busy'    = FALSE
    /\ replies' = Tail(replies)
    /\ IF Head(replies).ok
         THEN /\ active' = TRUE
              /\ lease'  = "none"
              /\ Show([session |-> Head(replies).of, state |-> "pending"], queue, poll)
         ELSE UNCHANGED <<room, active, lease, poll, queue>>
    /\ UNCHANGED <<viewer, offers, clicks, slot, server>>

------------------------------------------------------------------------------
(* Ending it: stop() *)

\* "Paylasimi bitir" and "Yeni baglanti" are disabled while busy, "Reddet" is not.
StopPressed ==
    /\ room # NoRoom
    /\ ~busy \/ (room.session \notin viewing /\ room.state = "pending")
    /\ Stops(queue) + Stops(replies) < MaxStops
    /\ Stop
    /\ UNCHANGED <<room, offers, poll, clicks, slot, replies, server>>

LeaseStops ==
    /\ Polling(room) /\ lease = "past" /\ active
    /\ Stop
    /\ UNCHANGED <<room, offers, poll, clicks, slot, replies, server>>

\* onconnectionstatechange of the current call reports "failed".
ConnectionFails(o) ==
    /\ o \in connections /\ generation = o
    /\ Stop
    /\ UNCHANGED <<room, offers, poll, clicks, slot, replies, server>>

\* Mutant: the connection is copied, not taken.
StopServed_Copies ==
    /\ IsNext("stop")
    /\ queue'   = Tail(queue)
    /\ replies' = Append(replies, Reply("stop", None, TRUE))
    /\ \/ UNCHANGED phase
       \/ slot # None /\ phase' = [phase EXCEPT ![slot] = "ended"]
    /\ UNCHANGED <<page, viewer, offers, poll, clicks, viewing, slot>>

\* The slot is emptied whatever becomes of the request that ends the room.
StopServed ==
    /\ IsNext("stop")
    /\ queue'   = Tail(queue)
    /\ slot'    = None
    /\ replies' = Append(replies, Reply("stop", None, TRUE))
    /\ \/ UNCHANGED phase
       \/ slot # None /\ phase' = [phase EXCEPT ![slot] = "ended"]
    /\ UNCHANGED <<page, viewer, offers, poll, clicks, viewing>>

\* Mutant: the room is not cleared.
StopArrives_Keeps ==
    /\ Arriving("stop")
    /\ busy'    = FALSE
    /\ replies' = Tail(replies)
    /\ UNCHANGED <<room, active, lease, viewer, offers, poll, clicks, slot, queue, server>>

StopArrives ==
    /\ Arriving("stop")
    /\ busy'    = FALSE
    /\ replies' = Tail(replies)
    /\ Show(NoRoom, queue, poll)
    /\ UNCHANGED <<active, lease, viewer, offers, clicks, slot, server>>

------------------------------------------------------------------------------
(* Polling the room *)

PollCalled ==
    /\ Polling(room) /\ poll = NoPoll /\ active
    /\ poll'  = [NoPoll EXCEPT !.stage = "asking"]
    /\ queue' = Append(queue, Ask("poll", None))
    /\ UNCHANGED <<page, viewer, offers, clicks, slot, replies, server>>

\* The command copies the connection the slot holds by then, if any.
PollBound ==
    /\ IsNext("poll")
    /\ queue' = Tail(queue)
    /\ poll'  = IF slot = None THEN NoPoll
                ELSE [stage |-> "sent", session |-> slot, state |-> "none"]
    /\ UNCHANGED <<page, viewer, offers, clicks, slot, replies, server>>

\* A grant of the active room passes SessionGate::verify.
Verified == PolicyScopes = RequiredScopes

\* The viewer of an active room hears of it only with a verified grant.
PollServed ==
    /\ poll.stage = "sent"
    /\ \/ poll' = NoPoll
       \/ /\ phase[poll.session] = "active" /\ poll.session \in viewing => Verified
          /\ poll' = [poll EXCEPT !.stage = "answered", !.state = phase[poll.session]]
    /\ UNCHANGED <<page, viewer, offers, clicks, native, server>>

\* Mutant: only a negotiation under way is looked for.
CanStart_NoPeerTest == ~negotiating /\ active

\* viewerOffer's guard
CanStart == ~negotiating /\ peer = None /\ active

\* viewerOffer up to its first await
ViewerOffer(o, s) ==
    /\ Stage(o, "idle") /\ o \notin connections
    /\ negotiating' = TRUE
    /\ generation'  = o
    /\ peer'        = o
    /\ connections' = connections \cup {o}
    /\ offers'      = [offers EXCEPT ![o] = [stage |-> "describing", session |-> s]]
    /\ UNCHANGED video

PollArrives ==
    LET next  == [session |-> poll.session, state |-> poll.state]
        watch == next.session \in viewing IN
    /\ poll.stage = "answered"
    /\ Show(next, queue, NoPoll)
    /\ active' = (active /\ next.state # "ended")
    /\ lease'  = IF watch /\ next.state = "active" THEN "live" ELSE lease
    /\ IF next.state = "ended" THEN CloseVideo /\ UNCHANGED offers
       ELSE IF watch /\ next.state \in {"offered", "active"} /\ CanStart
         THEN \E o \in Offer : ViewerOffer(o, next.session)
         ELSE UNCHANGED <<viewer, offers>>
    /\ UNCHANGED <<busy, clicks, slot, replies, server>>

------------------------------------------------------------------------------
(* The rest of viewerOffer *)

\* ontrack, which a queued event may still reach after its connection was closed
TrackArrives(o) ==
    /\ ~Stage(o, "idle") \/ o \in connections
    /\ generation = o
    /\ video' = o
    /\ UNCHANGED <<page, negotiating, generation, peer, connections, offers, poll,
                   clicks, native, server>>

Described(o) ==
    /\ Stage(o, "describing") /\ o \in connections
    /\ offers' = [offers EXCEPT ![o].stage = "gathering"]
    /\ UNCHANGED <<page, viewer, poll, clicks, native, server>>

\* The description of a closed connection is never settled.
Forgotten(o) ==
    /\ Stage(o, "describing") /\ o \notin connections
    /\ Finish(o)
    /\ UNCHANGED <<page, viewer, poll, clicks, native, server>>

Gathered(o) ==
    /\ Stage(o, "gathering")
    /\ IF active /\ generation = o
         THEN /\ offers' = [offers EXCEPT ![o].stage = "asking"]
              /\ queue'  = Append(queue, Ask("answer", o))
              /\ UNCHANGED viewer
         ELSE /\ connections' = connections \ {o}
              /\ negotiating' = FALSE
              /\ Finish(o)
              /\ UNCHANGED <<generation, peer, video, queue>>
    /\ UNCHANGED <<page, poll, clicks, slot, replies, server>>

AnswerBound(o) ==
    /\ IsNext("answer") /\ Head(queue).of = o
    /\ queue'  = Tail(queue)
    /\ offers' = [offers EXCEPT ![o] =
                    [stage |-> IF slot \in viewing THEN "sent" ELSE "refused", session |-> slot]]
    /\ UNCHANGED <<page, viewer, poll, clicks, slot, replies, server>>

\* The server takes one answer to an offer; the reply may be lost, or its grant
\* be refused.
AnswerServed(o) ==
    LET s == offers[o].session IN
    /\ Stage(o, "sent")
    /\ \/ /\ phase[s] = "offered"
          /\ phase' = [phase EXCEPT ![s] = "active"]
          /\ \E ok \in {Verified, FALSE} :
               offers' = [offers EXCEPT ![o].stage = IF ok THEN "answered" ELSE "refused"]
       \/ /\ offers' = [offers EXCEPT ![o].stage = "refused"]
          /\ UNCHANGED phase
    /\ UNCHANGED <<page, viewer, poll, clicks, native, viewing>>

\* Mutant: the first lease is not recorded.
AnswerArrives_NoLease(o) ==
    /\ Stage(o, "answered")
    /\ negotiating' = FALSE
    /\ Finish(o)
    /\ Show([session |-> offers[o].session, state |-> "active"], queue, poll)
    /\ UNCHANGED <<busy, active, lease, generation, peer, connections, video, clicks,
                   slot, replies, server>>

AnswerArrives(o) ==
    /\ Stage(o, "answered")
    /\ lease'       = "live"
    /\ negotiating' = FALSE
    /\ Finish(o)
    /\ Show([session |-> offers[o].session, state |-> "active"], queue, poll)
    /\ UNCHANGED <<busy, active, generation, peer, connections, video, clicks, slot,
                   replies, server>>

\* catch: a description refused, candidates not gathered in 20 s, or no answer sent
OfferFails(o) ==
    /\ \/ Stage(o, "describing") \/ Stage(o, "gathering") \/ Stage(o, "refused")
    /\ Stop
    /\ Finish(o)
    /\ UNCHANGED <<room, poll, clicks, slot, replies, server>>

------------------------------------------------------------------------------
(* pilot_check, pilot_accept, the server and the clock *)

Clicked(c) ==
    /\ ~busy /\ c \notin clicks
    /\ \/ c = "check" /\ room = NoRoom
       \/ c = "accept" /\ room # NoRoom /\ room.session \notin viewing /\ room.state = "pending"
    /\ busy'   = TRUE
    /\ clicks' = clicks \cup {c}
    /\ UNCHANGED <<room, active, lease, viewer, offers, poll, native, server>>

ClickEnds(c) ==
    /\ c \in clicks
    /\ clicks' = clicks \ {c}
    /\ busy'   = FALSE
    /\ UNCHANGED <<room, active, lease, viewer, offers, poll, native, server>>

OfferPosted(s) ==
    /\ phase[s] = "pending"
    /\ phase' = [phase EXCEPT ![s] = "offered"]
    /\ UNCHANGED <<page, viewer, offers, poll, clicks, native, viewing>>

\* The other end of a room this device hosts
ViewerAnswers(s) ==
    /\ phase[s] = "offered" /\ s \notin viewing
    /\ phase' = [phase EXCEPT ![s] = "active"]
    /\ UNCHANGED <<page, viewer, offers, poll, clicks, native, viewing>>

\* The other end stops, or a time limit of the server passes.
RoomEnds(s) ==
    /\ phase[s] \in Live
    /\ phase' = [phase EXCEPT ![s] = "ended"]
    /\ UNCHANGED <<page, viewer, offers, poll, clicks, native, viewing>>

LeaseRunsOut ==
    /\ lease = "live"
    /\ lease' = "past"
    /\ UNCHANGED <<room, busy, active, viewer, offers, poll, clicks, native, server>>

------------------------------------------------------------------------------
Init ==
    /\ room = NoRoom /\ busy = FALSE /\ active = FALSE /\ lease = "none"
    /\ negotiating = FALSE /\ generation = None /\ peer = None
    /\ connections = {} /\ video = None
    /\ offers = [o \in Offer |-> NoCall]
    /\ poll = NoPoll /\ clicks = {}
    /\ slot = None /\ queue = <<>> /\ replies = <<>>
    /\ phase = [s \in Session |-> "unused"]
    /\ viewing = {}

\* The fair mutex serves the queue, each request within 12 s.
Serve == OpenServed \/ StopServed \/ PollBound \/ \E o \in Offer : AnswerBound(o)

Deliver == OpenArrives \/ StopArrives

OfferMoves(o) ==
    \/ Described(o) \/ Gathered(o)
    \/ AnswerServed(o) \/ AnswerArrives(o) \/ OfferFails(o)

Next ==
    \/ Serve \/ Deliver \/ PollServed \/ PollArrives
    \/ StopPressed \/ LeaseStops \/ PollCalled \/ LeaseRunsOut
    \/ \E s \in Session :
         \/ OpenCalled(s, TRUE) \/ OpenCalled(s, FALSE)
         \/ OfferPosted(s) \/ ViewerAnswers(s) \/ RoomEnds(s)
    \/ \E o \in Offer :
         \/ OfferMoves(o) \/ Forgotten(o)
         \/ TrackArrives(o) \/ ConnectionFails(o)
    \/ \E c \in {"check", "accept"} : Clicked(c) \/ ClickEnds(c)

Spec == Init /\ [][Next]_vars

\* Requests have timeouts, candidates are awaited for 20 s, the lease's interval
\* fires, and time passes a lease that is no longer renewed.
FairSpec ==
    /\ Spec
    /\ WF_vars(Serve) /\ WF_vars(Deliver)
    /\ WF_vars(LeaseRunsOut) /\ WF_vars(LeaseStops)
    /\ \A o \in Offer : WF_vars(OfferMoves(o))

------------------------------------------------------------------------------
(* Properties *)

\* Every variable has its type.
TypeOK ==
    /\ room \in Room \cup {NoRoom}
    /\ {busy, active, negotiating} \subseteq BOOLEAN
    /\ lease \in {"none", "live", "past"}
    /\ {generation, peer, video} \subseteq Offer \cup {None}
    /\ connections \subseteq Offer
    /\ offers \in [Offer -> Call]
    /\ poll \in Poll
    /\ clicks \subseteq {"check", "accept"}
    /\ slot \in Session \cup {None}
    /\ queue \in Seq(Commands)
    /\ replies \in Seq([op : {"open", "stop"}, of : Session \cup {None}, ok : BOOLEAN])
    /\ phase \in [Session -> Phase]
    /\ viewing \subseteq Session

\* Once the window is no longer active, by a stop, a failure or a room seen to
\* have ended, nothing is played and no peer connection is left open, whichever
\* calls of viewerOffer are still at one of their awaits.
StoppedMeansClosed == ~active => video = None /\ connections = {}

\* When no command is waiting and no reply is on its way, a connection the
\* native side holds has a room in the window, and so a button that ends it:
\* a failed offer's stop() clears the room without knowing what is open.
HeldSessionsHaveAButton ==
    slot # None /\ queue = <<>> /\ replies = <<>> => room # NoRoom

\* Every call of stop() leads back to the entry page, however many stops, polls,
\* answers and openings wait for the same mutex.
StopsReachTheEntry ==
    (\E i \in DOMAIN queue : queue[i].op = "stop") ~> (room = NoRoom)

\* A session that ended at the server is not played for ever: a poll, a failed
\* answer or the passing of its lease closes the stream.
EndedSessionsGoDark ==
    \A o \in Offer, s \in Session :
      (video = o /\ offers[o].session = s /\ phase[s] = "ended") ~> (video # o)

\* A poll that was under way when stop() returned to the entry page does not
\* bring the ended session back: a room appears only as the reply of pilot_create
\* or pilot_join, or of the answer a call of viewerOffer still awaited.
PollsRestoreNothing ==
    [][room = NoRoom /\ room' # NoRoom =>
         \/ Arriving("open") /\ replies' = Tail(replies)
         \/ \E o \in Offer : Stage(o, "answered") /\ Finish(o)]_vars

==============================================================================
