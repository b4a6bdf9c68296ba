------------------------- MODULE ViewerWindowProofs --------------------------
(***************************************************************************)
(* Why a stopped window plays nothing: the calls of viewerOffer left at    *)
(* their awaits can only touch the stream and the connections while the    *)
(* generation is theirs, and whatever ends the activity resets it.         *)
(***************************************************************************)
EXTENDS ViewerWindow, TLAPS

\* The refs agree: the one open connection is the peer's, it is the current
\* generation's, only its stream is played, and it needs an active window.
OnlyTheCurrentCall ==
    /\ generation = peer
    /\ connections = {peer} \ {None}
    /\ video \in {None, generation}
    /\ ~active => peer = None

\* closeVideo() leaves nothing of the call that was current.
LEMMA CloseVideoClosesAll ==
    ASSUME OnlyTheCurrentCall, CloseVideo
    PROVE  generation' = None /\ peer' = None /\ connections' = {} /\ video' = None
  BY DEF OnlyTheCurrentCall, CloseVideo

\* stop() re-establishes the agreement, from whichever call it comes.
LEMMA StopIsClean ==
    ASSUME OnlyTheCurrentCall, Stop
    PROVE  OnlyTheCurrentCall'
  BY CloseVideoClosesAll DEF OnlyTheCurrentCall, Stop

\* No step of the window, the native side or the server disturbs the agreement.
LEMMA OnlyTheCurrentCallIsKept ==
    ASSUME OnlyTheCurrentCall, [Next]_vars
    PROVE  OnlyTheCurrentCall'
  <1> USE NoneAssumption
  <1>1. CASE UNCHANGED vars
    BY <1>1 DEF OnlyTheCurrentCall, vars, page, viewer
  <1>2. ASSUME UNCHANGED viewer, UNCHANGED active
        PROVE  OnlyTheCurrentCall'
    BY <1>2 DEF OnlyTheCurrentCall, viewer
  <1>3. CASE Serve
    <2>1. UNCHANGED viewer /\ UNCHANGED active
      BY <1>3 DEF Serve, OpenServed, StopServed, PollBound, AnswerBound, page
    <2> QED BY <1>2, <2>1
  <1>4. CASE OpenArrives
    BY <1>4 DEF OpenArrives, OnlyTheCurrentCall, viewer
  <1>5. CASE StopArrives
    BY <1>5, <1>2 DEF StopArrives
  <1>6. CASE PollServed
    BY <1>6, <1>2 DEF PollServed, page
  <1>7. CASE PollArrives
    <2> DEFINE next  == [session |-> poll.session, state |-> poll.state]
               watch == next.session \in viewing
    <2>1. /\ active' = (active /\ next.state # "ended")
          /\ IF next.state = "ended" THEN CloseVideo /\ UNCHANGED offers
             ELSE IF watch /\ next.state \in {"offered", "active"} /\ CanStart
               THEN \E o \in Offer : ViewerOffer(o, next.session)
               ELSE UNCHANGED <<viewer, offers>>
      BY <1>7 DEF PollArrives
    <2> HIDE DEF next, watch
    <2>2. CASE next.state = "ended"
      BY <2>1, <2>2, CloseVideoClosesAll DEF OnlyTheCurrentCall
    <2>3. CASE next.state # "ended" /\ UNCHANGED viewer
      BY <2>1, <2>3 DEF OnlyTheCurrentCall, viewer
    <2>4. ASSUME next.state # "ended", CanStart,
                 NEW o \in Offer, ViewerOffer(o, next.session)
          PROVE  OnlyTheCurrentCall'
      BY <2>1, <2>4 DEF OnlyTheCurrentCall, CanStart, ViewerOffer
    <2> QED BY <2>1, <2>2, <2>3, <2>4
  <1>8. CASE StopPressed \/ LeaseStops
    BY <1>8, StopIsClean DEF StopPressed, LeaseStops
  <1>9. CASE PollCalled \/ LeaseRunsOut
    BY <1>9, <1>2 DEF PollCalled, LeaseRunsOut, page
  <1>10. ASSUME NEW s \in Session,
                \/ OpenCalled(s, TRUE) \/ OpenCalled(s, FALSE)
                \/ OfferPosted(s) \/ ViewerAnswers(s) \/ RoomEnds(s)
         PROVE  OnlyTheCurrentCall'
    BY <1>10, <1>2 DEF OpenCalled, OfferPosted, ViewerAnswers, RoomEnds, page
  <1>11. ASSUME NEW o \in Offer, OfferMoves(o)
         PROVE  OnlyTheCurrentCall'
    <2>1. CASE Described(o) \/ AnswerServed(o)
      BY <2>1, <1>2 DEF Described, AnswerServed, page
    \* A stale call closes a connection that is not the peer's.
    <2>2. CASE Gathered(o)
      <3>1. CASE active /\ generation = o
        BY <2>2, <3>1, <1>2 DEF Gathered, page
      <3>2. CASE ~(active /\ generation = o)
        <4>1. peer # o
          BY <3>2 DEF OnlyTheCurrentCall
        <4>2. /\ connections' = connections \ {o}
              /\ UNCHANGED <<generation, peer, video>> /\ UNCHANGED active
          BY <2>2, <3>2 DEF Gathered, page
        <4> QED BY <4>1, <4>2 DEF OnlyTheCurrentCall
      <3> QED BY <3>1, <3>2
    <2>3. CASE AnswerArrives(o)
      BY <2>3 DEF AnswerArrives, OnlyTheCurrentCall
    <2>4. CASE OfferFails(o)
      BY <2>4, StopIsClean DEF OfferFails
    <2> QED BY <1>11, <2>1, <2>2, <2>3, <2>4 DEF OfferMoves
  <1>12. ASSUME NEW o \in Offer, Forgotten(o)
         PROVE  OnlyTheCurrentCall'
    BY <1>12, <1>2 DEF Forgotten, page
  <1>13. ASSUME NEW o \in Offer, TrackArrives(o)
         PROVE  OnlyTheCurrentCall'
    BY <1>13 DEF TrackArrives, OnlyTheCurrentCall, page
  <1>14. ASSUME NEW o \in Offer, ConnectionFails(o)
         PROVE  OnlyTheCurrentCall'
    BY <1>14, StopIsClean DEF ConnectionFails
  <1>15. ASSUME NEW c, Clicked(c) \/ ClickEnds(c)
         PROVE  OnlyTheCurrentCall'
    BY <1>15, <1>2 DEF Clicked, ClickEnds
  <1> QED
    BY <1>1, <1>3, <1>4, <1>5, <1>6, <1>7, <1>8, <1>9, <1>10, <1>11, <1>12, <1>13,
       <1>14, <1>15 DEF Next, Deliver

\* In every behaviour, with any number of sessions and of calls under way, a
\* window that is not active plays nothing and has no connection open.
THEOREM StoppedIsClosed == Spec => []StoppedMeansClosed
  <1>1. Init => OnlyTheCurrentCall
    BY DEF Init, OnlyTheCurrentCall
  <1>2. OnlyTheCurrentCall /\ [Next]_vars => OnlyTheCurrentCall'
    BY OnlyTheCurrentCallIsKept
  <1>3. OnlyTheCurrentCall => StoppedMeansClosed
    BY NoneAssumption DEF OnlyTheCurrentCall, StoppedMeansClosed
  <1> QED BY <1>1, <1>2, <1>3, PTL DEF Spec

------------------------------------------------------------------------------
(* The queue of commands *)

\* Sessions are opened once each, and one poll waits at most, that of the effect.
OpensAsked(q, ph) ==
    \A i \in DOMAIN q : q[i].op = "open" => q[i].of \in Session /\ ph[q[i].of] = "asked"

Single(q) ==
    \A i, j \in DOMAIN q :
        i # j /\ q[i].op = q[j].op =>
            q[i].op # "poll" /\ (q[i].op = "open" => q[i].of # q[j].of)

NoPollIn(q) == \A i \in DOMAIN q : q[i].op # "poll"

NoOpenOf(q, s) == \A i \in DOMAIN q : q[i].op = "open" => q[i].of # s

QueueInv(q, ph, p) ==
    /\ OpensAsked(q, ph) /\ Single(q)
    /\ p.stage # "asking" => NoPollIn(q)

\* q2 is q without its k-th command.
Drops(q2, q, k) ==
    /\ k \in DOMAIN q
    /\ q2 \in Seq(Commands) /\ Len(q2) = Len(q) - 1
    /\ \A i \in DOMAIN q2 : q2[i] = q[IF i < k THEN i ELSE i + 1]

LEMMA TailDrops ==
    ASSUME NEW q \in Seq(Commands), q # <<>>
    PROVE  Drops(Tail(q), q, 1) /\ Head(q) = q[1]
  BY DEF Drops

LEMMA CancelDrops ==
    ASSUME NEW q \in Seq(Commands)
    PROVE  \/ NoPollIn(q) /\ WithoutPoll(q) = q
           \/ \E k \in DOMAIN q : q[k].op = "poll" /\ Drops(WithoutPoll(q), q, k)
  <1>1. CASE NoPollIn(q)
    BY <1>1 DEF NoPollIn, WithoutPoll
  <1>2. CASE ~NoPollIn(q)
    <2> DEFINE k == CHOOSE i \in DOMAIN q : q[i].op = "poll"
    <2>1. k \in DOMAIN q /\ q[k].op = "poll"
      BY <1>2 DEF NoPollIn
    <2>2. WithoutPoll(q) = [i \in 1 .. Len(q) - 1 |-> q[IF i < k THEN i ELSE i + 1]]
      BY <1>2 DEF NoPollIn, WithoutPoll
    <2> HIDE DEF k
    <2>3. Drops(WithoutPoll(q), q, k)
      <3>1. k \in 1 .. Len(q) /\ Len(q) \in Nat /\ DOMAIN q = 1 .. Len(q)
        BY <2>1
      <3>2. \A i \in 1 .. Len(q) - 1 : q[IF i < k THEN i ELSE i + 1] \in Commands
        BY <3>1
      <3> QED BY <2>2, <3>1, <3>2 DEF Drops
    <2> QED BY <2>1, <2>3
  <1> QED BY <1>1, <1>2

LEMMA DropKeeps ==
    ASSUME NEW q \in Seq(Commands), NEW q2, NEW k, Drops(q2, q, k),
           NEW ph, OpensAsked(q, ph), Single(q)
    PROVE  /\ OpensAsked(q2, ph) /\ Single(q2)
           /\ NoPollIn(q) \/ q[k].op = "poll" => NoPollIn(q2)
           /\ q[k].op = "open" => NoOpenOf(q2, q[k].of)
  <1> DEFINE from(i) == IF i < k THEN i ELSE i + 1
  <1>1. /\ DOMAIN q = 1 .. Len(q) /\ Len(q) \in Nat /\ k \in 1 .. Len(q)
        /\ DOMAIN q2 = 1 .. Len(q) - 1
    BY DEF Drops
  <1>2. \A i \in DOMAIN q2 : from(i) \in DOMAIN q /\ from(i) # k /\ q2[i] = q[from(i)]
    BY <1>1 DEF Drops
  <1>3. \A i, j \in DOMAIN q2 : i # j => from(i) # from(j)
    BY <1>1
  <1> HIDE DEF from
  <1> QED BY <1>1, <1>2, <1>3 DEF OpensAsked, Single, NoPollIn, NoOpenOf

LEMMA AppendKeeps ==
    ASSUME NEW q \in Seq(Commands), NEW c \in Commands, NEW ph, NEW p, QueueInv(q, ph, p),
           c.op = "open" => /\ c.of \in Session /\ ph[c.of] = "asked"
                            /\ NoOpenOf(q, c.of),
           c.op = "poll" => p.stage = "asking" /\ NoPollIn(q)
    PROVE  Append(q, c) \in Seq(Commands) /\ QueueInv(Append(q, c), ph, p)
  <1> DEFINE q2 == Append(q, c)
  <1>1. /\ q2 \in Seq(Commands) /\ Len(q) \in Nat
        /\ DOMAIN q2 = 1 .. Len(q) + 1 /\ DOMAIN q = 1 .. Len(q)
        /\ q2[Len(q) + 1] = c /\ \A i \in 1 .. Len(q) : q2[i] = q[i]
    OBVIOUS
  <1> HIDE DEF q2
  <1>2. OpensAsked(q2, ph)
    BY <1>1 DEF QueueInv, OpensAsked
  <1>3. Single(q2)
    BY <1>1 DEF QueueInv, Single, NoPollIn, NoOpenOf
  <1>4. p.stage # "asking" => NoPollIn(q2)
    BY <1>1 DEF QueueInv, NoPollIn
  <1> QED BY <1>1, <1>2, <1>3, <1>4 DEF QueueInv, q2

------------------------------------------------------------------------------
(* Types *)

Known == Live \cup {"ended"}

ReplyType == [op : {"open", "stop"}, of : Session \cup {None}, ok : BOOLEAN]

RepliesTyped(rs) ==
    /\ rs \in Seq(ReplyType)
    /\ \A i \in DOMAIN rs : rs[i].op = "open" => rs[i].of \in Session

PageTyped ==
    /\ room \in Room \cup {NoRoom}
    /\ {busy, active, negotiating} \subseteq BOOLEAN
    /\ lease \in {"none", "live", "past"}
    /\ {generation, peer, video} \subseteq Offer \cup {None}
    /\ connections \subseteq Offer
    /\ clicks \subseteq {"check", "accept"}

\* A call has a session from the moment its answer is sent.
CallsTyped ==
    /\ offers \in [Offer -> Call]
    /\ \A o \in Offer : Stage(o, "sent") \/ Stage(o, "answered") => offers[o].session \in Session

\* The session a poll is about is open at the server or has ended there.
PollTyped ==
    /\ poll \in Poll
    /\ poll.stage \in {"sent", "answered"} =>
           poll.session \in Session /\ phase[poll.session] \in Known
    /\ poll.stage = "answered" => poll.state \in Known

\* So is the one the slot holds.
NativeTyped ==
    /\ slot \in Session \cup {None}
    /\ slot # None => phase[slot] \in Known
    /\ RepliesTyped(replies)

ServerTyped == phase \in [Session -> Phase] /\ viewing \subseteq Session

WindowInv ==
    /\ PageTyped /\ CallsTyped /\ PollTyped /\ NativeTyped /\ ServerTyped
    /\ queue \in Seq(Commands) /\ QueueInv(queue, phase, poll)

\* What an opening or an answer leads to is a room, never the entry page.
LEMMA RoomsAreRooms ==
    ASSUME NEW s \in Session, NEW state \in Known
    PROVE  /\ [session |-> s, state |-> state] \in Room
           /\ [session |-> s, state |-> state] # NoRoom
  BY DEF Room, NoRoom, Known, Live

\* The command at the head of the queue is taken off it.
LEMMA Served ==
    ASSUME WindowInv, queue # <<>>, queue' = Tail(queue)
    PROVE  /\ queue' \in Seq(Commands) /\ Single(queue')
           /\ Head(queue) \in Commands
           /\ Head(queue).op = "open" => /\ Head(queue).of \in Session
                                         /\ phase[Head(queue).of] = "asked"
           /\ OpensAsked(queue', phase)
           /\ NoPollIn(queue) \/ Head(queue).op = "poll" => NoPollIn(queue')
           /\ Head(queue).op = "open" => NoOpenOf(queue', Head(queue).of)
  <1>1. queue \in Seq(Commands) /\ OpensAsked(queue, phase) /\ Single(queue)
    BY DEF WindowInv, QueueInv
  <1>2. PICK k : Drops(queue', queue, k) /\ Head(queue) = queue[k]
    BY <1>1, TailDrops
  <1>3. k \in DOMAIN queue /\ queue' \in Seq(Commands) /\ queue[k] \in Commands
    BY <1>1, <1>2 DEF Drops
  <1>4. /\ OpensAsked(queue', phase) /\ Single(queue')
        /\ NoPollIn(queue) \/ queue[k].op = "poll" => NoPollIn(queue')
        /\ queue[k].op = "open" => NoOpenOf(queue', queue[k].of)
    BY <1>1, <1>2, DropKeeps
  <1> QED BY <1>1, <1>2, <1>3, <1>4 DEF OpensAsked

\* No step but the opening of its room moves a session out of "asked", and none
\* takes one that is known at the server out of that.
LEMMA PhasesMoveOn ==
    ASSUME WindowInv, Next
    PROVE  /\ ServerTyped'
           /\ \A s \in Session : phase[s] \in Known => phase'[s] \in Known
           /\ \A s \in Session : phase[s] = "asked" =>
                  phase'[s] = "asked" \/ (OpenServed /\ Head(queue).of = s)
  <1> USE DEF Known, Live
  <1>1. phase \in [Session -> Phase] /\ viewing \subseteq Session
    BY DEF WindowInv, ServerTyped
  <1> DEFINE MovesOn == /\ phase' \in [Session -> Phase] /\ viewing' \subseteq Session
                        /\ \A s \in Session : phase[s] \in Known => phase'[s] \in Known
                        /\ \A s \in Session : phase[s] = "asked" =>
                               phase'[s] = "asked" \/ (OpenServed /\ Head(queue).of = s)
  <1> SUFFICES MovesOn
    BY DEF ServerTyped
  <1> HIDE DEF MovesOn
  <1>2. ASSUME UNCHANGED server PROVE MovesOn
    BY <1>1, <1>2 DEF MovesOn, server
  <1>3. ASSUME NEW s \in Session, phase[s] \in Known, NEW st \in Known,
               phase' = [phase EXCEPT ![s] = st], viewing' = viewing
        PROVE  MovesOn
    BY <1>1, <1>3 DEF MovesOn, Phase
  <1>4. CASE OpenServed
    <2>1. Head(queue).of \in Session /\ phase[Head(queue).of] = "asked"
      BY <1>4, TailDrops DEF OpenServed, IsNext, WindowInv, QueueInv, OpensAsked, Drops
    <2> DEFINE s == Head(queue).of
    <2>2. PICK st \in {"unused", "pending", "ended"} : phase' = [phase EXCEPT ![s] = st]
      BY <1>4 DEF OpenServed
    <2>3. viewing' = viewing
      BY <1>4 DEF OpenServed
    <2> HIDE DEF s
    <2> QED BY <1>1, <1>4, <2>1, <2>2, <2>3 DEF MovesOn, Phase, s
  <1>5. CASE StopServed
    <2>1. slot # None => slot \in Session /\ phase[slot] \in Known
      BY DEF WindowInv, NativeTyped
    <2> QED BY <1>2, <1>3, <1>5, <2>1 DEF StopServed, server
  <1>6. ASSUME NEW s \in Session, OpenCalled(s, TRUE) \/ OpenCalled(s, FALSE)
        PROVE  MovesOn
    BY <1>1, <1>6 DEF OpenCalled, MovesOn, Phase
  <1>7. ASSUME NEW s \in Session, OfferPosted(s) \/ ViewerAnswers(s) \/ RoomEnds(s)
        PROVE  MovesOn
    BY <1>3, <1>7 DEF OfferPosted, ViewerAnswers, RoomEnds
  <1>8. ASSUME NEW o \in Offer, AnswerServed(o)
        PROVE  MovesOn
    <2>1. offers[o].session \in Session
      BY <1>8 DEF AnswerServed, WindowInv, CallsTyped
    <2> QED BY <1>2, <1>3, <1>8, <2>1 DEF AnswerServed, server
  <1>9. ASSUME NEW o \in Offer,
               \/ AnswerBound(o) \/ Described(o) \/ Gathered(o) \/ AnswerArrives(o)
               \/ OfferFails(o) \/ Forgotten(o) \/ TrackArrives(o) \/ ConnectionFails(o)
        PROVE  MovesOn
    BY <1>2, <1>9 DEF AnswerBound, Described, Gathered, AnswerArrives, OfferFails, Forgotten,
                      TrackArrives, ConnectionFails
  <1>10. CASE \/ PollBound \/ OpenArrives \/ StopArrives \/ PollServed \/ PollArrives
              \/ StopPressed \/ LeaseStops \/ PollCalled \/ LeaseRunsOut
    BY <1>2, <1>10 DEF PollBound, OpenArrives, StopArrives, PollServed, PollArrives,
                       StopPressed, LeaseStops, PollCalled, LeaseRunsOut
  <1>11. ASSUME NEW c, Clicked(c) \/ ClickEnds(c)
         PROVE  MovesOn
    BY <1>2, <1>11 DEF Clicked, ClickEnds
  <1> QED BY <1>4, <1>5, <1>6, <1>7, <1>8, <1>9, <1>10, <1>11
             DEF Next, Serve, Deliver, OfferMoves

\* setRoom() leaves the poll of the effect alone, or cancels it and its command.
LEMMA Shows ==
    ASSUME WindowInv, NEW r, NEW p, Show(r, queue, p),
           p = poll \/ (p = NoPoll /\ poll.stage # "asking")
    PROVE  /\ room' = r
           /\ \/ poll' = p /\ EffectKey(r) = EffectKey(room)
              \/ poll' = NoPoll /\ NoPollIn(queue')
           /\ queue' \in Seq(Commands) /\ QueueInv(queue', phase, poll')
  <1>1. queue \in Seq(Commands) /\ QueueInv(queue, phase, poll)
    BY DEF WindowInv
  <1>2. CASE EffectKey(r) = EffectKey(room)
    BY <1>1, <1>2 DEF Show, QueueInv
  <1>3. CASE EffectKey(r) # EffectKey(room)
    <2>1. poll' = NoPoll /\ queue' = WithoutPoll(queue) /\ room' = r
      BY <1>3 DEF Show
    <2>2. /\ queue' \in Seq(Commands) /\ NoPollIn(queue')
          /\ OpensAsked(queue', phase) /\ Single(queue')
      BY <1>1, <2>1, CancelDrops, DropKeeps DEF QueueInv, Drops
    <2> QED BY <2>1, <2>2 DEF QueueInv
  <1> QED BY <1>2, <1>3 DEF Show

\* The page keeps its types in every step.
LEMMA PageStep ==
    ASSUME WindowInv, Next
    PROVE  PageTyped'
  <1> USE NoneAssumption
  <1>1. PageTyped
    BY DEF WindowInv
  <1>2. ASSUME UNCHANGED <<page, viewer, clicks>> PROVE PageTyped'
    BY <1>1, <1>2 DEF PageTyped, page, viewer
  <1>3. ASSUME Stop, UNCHANGED <<room, clicks>> PROVE PageTyped'
    BY <1>1, <1>3 DEF PageTyped, Stop, CloseVideo
  <1>4. CASE \/ OpenServed \/ StopServed \/ PollBound \/ PollServed \/ PollCalled
    BY <1>2, <1>4 DEF OpenServed, StopServed, PollBound, PollServed, PollCalled
  <1>5. ASSUME NEW o \in Offer,
               AnswerBound(o) \/ Described(o) \/ AnswerServed(o) \/ Forgotten(o)
        PROVE  PageTyped'
    BY <1>2, <1>5 DEF AnswerBound, Described, AnswerServed, Forgotten
  <1>6. ASSUME NEW s \in Session, OfferPosted(s) \/ ViewerAnswers(s) \/ RoomEnds(s)
        PROVE  PageTyped'
    BY <1>2, <1>6 DEF OfferPosted, ViewerAnswers, RoomEnds
  <1>7. CASE StopPressed \/ LeaseStops
    BY <1>3, <1>7 DEF StopPressed, LeaseStops
  <1>8. ASSUME NEW o \in Offer, OfferFails(o) \/ ConnectionFails(o)
        PROVE  PageTyped'
    BY <1>3, <1>8 DEF OfferFails, ConnectionFails
  <1>9. ASSUME NEW s \in Session, OpenCalled(s, TRUE) \/ OpenCalled(s, FALSE)
        PROVE  PageTyped'
    BY <1>1, <1>9 DEF PageTyped, OpenCalled, viewer
  <1>10. ASSUME NEW c \in {"check", "accept"}, Clicked(c) \/ ClickEnds(c)
         PROVE  PageTyped'
    BY <1>1, <1>10 DEF PageTyped, Clicked, ClickEnds, viewer
  <1>11. CASE LeaseRunsOut
    BY <1>1, <1>11 DEF PageTyped, LeaseRunsOut, viewer
  <1>12. CASE OpenArrives
    <2>1. replies # <<>> /\ Head(replies).op = "open" /\ Head(replies).of \in Session
      BY <1>12 DEF OpenArrives, Arriving, WindowInv, NativeTyped, RepliesTyped
    <2>2. [session |-> Head(replies).of, state |-> "pending"] \in Room
      BY <2>1, RoomsAreRooms DEF Known, Live
    <2> QED BY <1>1, <1>12, <2>2 DEF PageTyped, OpenArrives, Show, viewer
  <1>13. CASE StopArrives
    BY <1>1, <1>13 DEF PageTyped, StopArrives, Show, viewer
  <1>14. CASE PollArrives
    <2> DEFINE next  == [session |-> poll.session, state |-> poll.state]
               watch == next.session \in viewing
    <2>1. next \in Room
      BY <1>14, RoomsAreRooms DEF PollArrives, WindowInv, PollTyped
    <2>2. /\ room' = next /\ active' = (active /\ next.state # "ended")
          /\ lease' = IF watch /\ next.state = "active" THEN "live" ELSE lease
          /\ busy' = busy /\ clicks' = clicks
          /\ \/ CloseVideo \/ UNCHANGED viewer \/ \E o \in Offer : ViewerOffer(o, next.session)
      BY <1>14 DEF PollArrives, Show
    <2> HIDE DEF next, watch
    <2>3. active' \in BOOLEAN /\ lease' \in {"none", "live", "past"}
      BY <1>1, <2>2 DEF PageTyped
    <2>4. /\ negotiating' \in BOOLEAN /\ connections' \subseteq Offer
          /\ {generation', peer', video'} \subseteq Offer \cup {None}
      BY <1>1, <2>2 DEF PageTyped, CloseVideo, ViewerOffer, viewer
    <2> QED BY <1>1, <2>1, <2>2, <2>3, <2>4 DEF PageTyped
  <1>15. ASSUME NEW o \in Offer, TrackArrives(o)
         PROVE  PageTyped'
    BY <1>1, <1>15 DEF PageTyped, TrackArrives, page
  <1>16. ASSUME NEW o \in Offer, Gathered(o)
         PROVE  PageTyped'
    BY <1>1, <1>16 DEF PageTyped, Gathered, page, viewer
  <1>17. ASSUME NEW o \in Offer, AnswerArrives(o)
         PROVE  PageTyped'
    <2>1. [session |-> offers[o].session, state |-> "active"] \in Room
      BY <1>17, RoomsAreRooms DEF AnswerArrives, WindowInv, CallsTyped, Known, Live
    <2> QED BY <1>1, <1>17, <2>1 DEF PageTyped, AnswerArrives, Show
  <1> QED
    BY <1>4, <1>5, <1>6, <1>7, <1>8, <1>9, <1>10, <1>11, <1>12, <1>13, <1>14, <1>15,
       <1>16, <1>17 DEF Next, Serve, Deliver, OfferMoves

\* A call of viewerOffer that moves to another stage keeps its session.
LEMMA StageMoves ==
    ASSUME CallsTyped, NEW o \in Offer,
           NEW st \in {"idle", "describing", "gathering", "asking", "sent", "answered", "refused"},
           st \in {"sent", "answered"} => offers[o].session \in Session,
           offers' = [offers EXCEPT ![o].stage = st]
    PROVE  CallsTyped'
  <1> DEFINE call == [stage |-> st, session |-> offers[o].session]
  <1>1. offers[o] \in Call
    BY DEF CallsTyped
  <1>2. [offers[o] EXCEPT !.stage = st] = call
    BY <1>1 DEF Call
  <1>3. offers' = [offers EXCEPT ![o] = call]
    BY <1>2
  <1>4. call \in Call /\ (call.stage \in {"sent", "answered"} => call.session \in Session)
    BY <1>1 DEF Call
  <1> HIDE DEF call
  <1> QED BY <1>3, <1>4 DEF CallsTyped, Stage

\* The calls of viewerOffer keep their types, and their sessions once they ask.
LEMMA CallsStep ==
    ASSUME WindowInv, Next
    PROVE  CallsTyped'
  <1>1. CallsTyped
    BY DEF WindowInv
  <1>2. ASSUME UNCHANGED offers PROVE CallsTyped'
    BY <1>1, <1>2 DEF CallsTyped, Stage
  <1>3. ASSUME NEW o \in Offer, Finish(o) PROVE CallsTyped'
    BY <1>1, <1>3, StageMoves DEF Finish
  <1>4. CASE \/ OpenServed \/ StopServed \/ PollBound \/ PollServed \/ PollCalled
             \/ OpenArrives \/ StopArrives \/ StopPressed \/ LeaseStops \/ LeaseRunsOut
    BY <1>2, <1>4 DEF OpenServed, StopServed, PollBound, PollServed, PollCalled,
                      OpenArrives, StopArrives, StopPressed, LeaseStops, LeaseRunsOut
  <1>5. ASSUME NEW s \in Session,
               \/ OpenCalled(s, TRUE) \/ OpenCalled(s, FALSE)
               \/ OfferPosted(s) \/ ViewerAnswers(s) \/ RoomEnds(s)
        PROVE  CallsTyped'
    BY <1>2, <1>5 DEF OpenCalled, OfferPosted, ViewerAnswers, RoomEnds
  <1>6. ASSUME NEW c, Clicked(c) \/ ClickEnds(c)
        PROVE  CallsTyped'
    BY <1>2, <1>6 DEF Clicked, ClickEnds
  <1>7. ASSUME NEW o \in Offer, TrackArrives(o) \/ ConnectionFails(o)
        PROVE  CallsTyped'
    BY <1>2, <1>7 DEF TrackArrives, ConnectionFails
  <1>8. ASSUME NEW o \in Offer, Forgotten(o) \/ AnswerArrives(o) \/ OfferFails(o)
        PROVE  CallsTyped'
    BY <1>3, <1>8 DEF Forgotten, AnswerArrives, OfferFails
  <1>9. ASSUME NEW o \in Offer, Described(o) \/ Gathered(o)
        PROVE  CallsTyped'
    BY <1>1, <1>3, <1>9, StageMoves DEF Described, Gathered
  <1>10. ASSUME NEW o \in Offer, AnswerServed(o)
         PROVE  CallsTyped'
    <2>1. offers[o].session \in Session
      BY <1>1, <1>10 DEF AnswerServed, CallsTyped
    <2>2. \E st \in {"answered", "refused"} : offers' = [offers EXCEPT ![o].stage = st]
      BY <1>10 DEF AnswerServed
    <2> QED BY <1>1, <2>1, <2>2, StageMoves
  <1>11. ASSUME NEW o \in Offer, AnswerBound(o)
         PROVE  CallsTyped'
    <2>1. slot \in Session \cup {None} /\ viewing \subseteq Session
      BY DEF WindowInv, NativeTyped, ServerTyped
    <2> QED BY <1>1, <1>11, <2>1 DEF AnswerBound, CallsTyped, Call, Stage
  <1>12. CASE PollArrives
    <2>1. UNCHANGED offers \/ \E o \in Offer : ViewerOffer(o, poll.session)
      BY <1>12 DEF PollArrives
    <2>2. poll.session \in Session
      BY <1>12 DEF PollArrives, WindowInv, PollTyped
    <2> QED BY <1>1, <1>2, <2>1, <2>2 DEF ViewerOffer, CallsTyped, Call, Stage
  <1> QED
    BY <1>4, <1>5, <1>6, <1>7, <1>8, <1>9, <1>10, <1>11, <1>12
       DEF Next, Serve, Deliver, OfferMoves

\* A poll is about a session the server knows, until it is answered or cancelled.
LEMMA PollStep ==
    ASSUME WindowInv, Next
    PROVE  PollTyped'
  <1>1. PollTyped /\ NativeTyped /\ phase \in [Session -> Phase]
    BY DEF WindowInv, ServerTyped
  <1>2. \A s \in Session : phase[s] \in Known => phase'[s] \in Known
    BY PhasesMoveOn
  <1>3. CASE poll' = poll
    BY <1>1, <1>2, <1>3 DEF PollTyped
  <1>4. CASE poll' = NoPoll
    BY <1>4 DEF PollTyped, NoPoll, Poll
  <1>5. CASE PollCalled
    <2>1. poll' = [stage |-> "asking", session |-> None, state |-> "none"]
      BY <1>5 DEF PollCalled, NoPoll
    <2> QED BY <2>1 DEF PollTyped, Poll
  <1>6. CASE PollBound /\ slot # None
    <2>1. /\ poll' = [stage |-> "sent", session |-> slot, state |-> "none"]
          /\ slot \in Session /\ phase'[slot] \in Known
      BY <1>1, <1>2, <1>6 DEF PollBound, NativeTyped
    <2> QED BY <2>1 DEF PollTyped, Poll
  <1>7. CASE PollServed /\ poll' # NoPoll
    <2> DEFINE state == phase[poll.session]
    <2>1. poll.session \in Session /\ state \in Known /\ phase'[poll.session] \in Known
      BY <1>1, <1>2, <1>7 DEF PollServed, PollTyped
    <2>2. poll' = [stage |-> "answered", session |-> poll.session, state |-> state]
      BY <1>1, <1>7 DEF PollServed, PollTyped, Poll
    <2> HIDE DEF state
    <2> QED BY <2>1, <2>2 DEF PollTyped, Poll, Known
  <1>8. CASE OpenArrives \/ StopArrives \/ PollArrives \/ \E o \in Offer : AnswerArrives(o)
    BY <1>3, <1>4, <1>8 DEF OpenArrives, StopArrives, PollArrives, AnswerArrives, Show
  <1>9. CASE OpenServed \/ StopServed \/ StopPressed \/ LeaseStops \/ LeaseRunsOut
    BY <1>3, <1>9 DEF OpenServed, StopServed, StopPressed, LeaseStops, LeaseRunsOut
  <1>10. ASSUME NEW s \in Session,
                \/ OpenCalled(s, TRUE) \/ OpenCalled(s, FALSE)
                \/ OfferPosted(s) \/ ViewerAnswers(s) \/ RoomEnds(s)
         PROVE  PollTyped'
    BY <1>3, <1>10 DEF OpenCalled, OfferPosted, ViewerAnswers, RoomEnds
  <1>11. ASSUME NEW c, Clicked(c) \/ ClickEnds(c)
         PROVE  PollTyped'
    BY <1>3, <1>11 DEF Clicked, ClickEnds
  <1>12. ASSUME NEW o \in Offer,
                \/ AnswerBound(o) \/ Described(o) \/ Gathered(o) \/ AnswerServed(o)
                \/ OfferFails(o) \/ Forgotten(o) \/ TrackArrives(o) \/ ConnectionFails(o)
         PROVE  PollTyped'
    BY <1>3, <1>12 DEF AnswerBound, Described, Gathered, AnswerServed, OfferFails, Forgotten,
                       TrackArrives, ConnectionFails
  <1> QED
    BY <1>4, <1>5, <1>6, <1>7, <1>8, <1>9, <1>10, <1>11, <1>12
       DEF Next, Serve, Deliver, OfferMoves, PollBound

\* One more reply, or one less.
LEMMA RepliesChange ==
    ASSUME RepliesTyped(replies)
    PROVE  /\ \A s \in Session, ok \in BOOLEAN : RepliesTyped(Append(replies, Reply("open", s, ok)))
           /\ RepliesTyped(Append(replies, Reply("stop", None, TRUE)))
           /\ replies # <<>> => RepliesTyped(Tail(replies)) /\ Head(replies) = replies[1]
  <1>1. ASSUME NEW r \in ReplyType, r.op = "open" => r.of \in Session
        PROVE  RepliesTyped(Append(replies, r))
    BY <1>1 DEF RepliesTyped
  <1>2. \A s \in Session, ok \in BOOLEAN :
           Reply("open", s, ok) \in ReplyType /\ Reply("open", s, ok).of = s
    BY DEF Reply, ReplyType
  <1>3. Reply("stop", None, TRUE) \in ReplyType /\ Reply("stop", None, TRUE).op = "stop"
    BY DEF Reply, ReplyType
  <1>4. ASSUME replies # <<>>
        PROVE  RepliesTyped(Tail(replies)) /\ Head(replies) = replies[1]
    BY <1>4 DEF RepliesTyped
  <1> QED BY <1>1, <1>2, <1>3, <1>4

\* The slot holds a session the server knows, and openings are answered by name.
LEMMA NativeStep ==
    ASSUME WindowInv, Next
    PROVE  NativeTyped'
  <1>1. /\ slot \in Session \cup {None} /\ (slot # None => phase[slot] \in Known)
        /\ RepliesTyped(replies) /\ phase \in [Session -> Phase] /\ ServerTyped'
        /\ \A s \in Session : phase[s] \in Known => phase'[s] \in Known
    BY PhasesMoveOn DEF WindowInv, NativeTyped, ServerTyped
  <1> USE NoneAssumption
  <1>2. ASSUME slot' = slot, RepliesTyped(replies')
        PROVE  NativeTyped'
    BY <1>1, <1>2 DEF NativeTyped
  <1>3. ASSUME UNCHANGED <<slot, replies>>
        PROVE  NativeTyped'
    BY <1>1, <1>2, <1>3
  <1>4. CASE OpenServed
    <2>1. queue # <<>> /\ Head(queue).op = "open"
      BY <1>4 DEF OpenServed, IsNext
    <2>2. Head(queue).of \in Session
      BY <1>4, <2>1, Served DEF OpenServed
    <2> DEFINE s == Head(queue).of
    <2>3. \/ /\ slot' = s /\ phase' = [phase EXCEPT ![s] = "pending"]
             /\ replies' = Append(replies, Reply("open", s, TRUE))
          \/ /\ slot' = slot
             /\ replies' = Append(replies, Reply("open", s, FALSE))
      BY <1>4 DEF OpenServed
    <2> HIDE DEF s
    <2>4. s \in Session
      BY <2>2 DEF s
    <2>5. RepliesTyped(replies')
      BY <1>1, <2>3, <2>4, RepliesChange
    <2>6. CASE slot' = s /\ phase' = [phase EXCEPT ![s] = "pending"]
      <3>1. slot' \in Session /\ phase'[slot'] = "pending"
        BY <1>1, <2>4, <2>6
      <3> QED BY <2>5, <3>1 DEF NativeTyped, Known, Live
    <2> QED BY <1>2, <2>3, <2>5, <2>6
  <1>5. CASE StopServed
    <2>1. slot' = None /\ replies' = Append(replies, Reply("stop", None, TRUE))
      BY <1>5 DEF StopServed
    <2> QED BY <1>1, <2>1, RepliesChange DEF NativeTyped
  <1>6. CASE OpenArrives \/ StopArrives
    <2>1. replies # <<>> /\ replies' = Tail(replies) /\ slot' = slot
      BY <1>6 DEF OpenArrives, StopArrives, Arriving
    <2> QED BY <1>1, <1>2, <2>1, RepliesChange
  <1>7. CASE \/ PollBound \/ PollServed \/ PollCalled \/ PollArrives
             \/ StopPressed \/ LeaseStops \/ LeaseRunsOut
    BY <1>3, <1>7 DEF PollBound, PollServed, PollCalled, PollArrives, StopPressed,
                      LeaseStops, LeaseRunsOut, native
  <1>8. ASSUME NEW s \in Session,
               \/ OpenCalled(s, TRUE) \/ OpenCalled(s, FALSE)
               \/ OfferPosted(s) \/ ViewerAnswers(s) \/ RoomEnds(s)
        PROVE  NativeTyped'
    BY <1>3, <1>8 DEF OpenCalled, OfferPosted, ViewerAnswers, RoomEnds, native
  <1>9. ASSUME NEW c, Clicked(c) \/ ClickEnds(c)
        PROVE  NativeTyped'
    BY <1>3, <1>9 DEF Clicked, ClickEnds, native
  <1>10. ASSUME NEW o \in Offer,
                \/ AnswerBound(o) \/ OfferMoves(o) \/ Forgotten(o)
                \/ TrackArrives(o) \/ ConnectionFails(o)
         PROVE  NativeTyped'
    BY <1>3, <1>10 DEF AnswerBound, OfferMoves, Described, Gathered, AnswerServed, AnswerArrives,
                       OfferFails, Forgotten, TrackArrives, ConnectionFails, native
  <1> QED BY <1>4, <1>5, <1>6, <1>7, <1>8, <1>9, <1>10 DEF Next, Serve, Deliver

\* What the handlers send to the queue, and what is taken off it.
LEMMA QueueStep ==
    ASSUME WindowInv, Next
    PROVE  queue' \in Seq(Commands) /\ QueueInv(queue', phase', poll')
  <1> DEFINE Goal == queue' \in Seq(Commands) /\ QueueInv(queue', phase', poll')
  <1> SUFFICES Goal
    OBVIOUS
  <1> HIDE DEF Goal
  <1> USE NoneAssumption
  <1>1. /\ queue \in Seq(Commands) /\ QueueInv(queue, phase, poll)
        /\ phase \in [Session -> Phase]
        /\ \A s \in Session : phase[s] = "asked" =>
              phase'[s] = "asked" \/ (OpenServed /\ Head(queue).of = s)
    BY PhasesMoveOn DEF WindowInv, ServerTyped
  <1>2. ASSUME queue' \in Seq(Commands), QueueInv(queue', phase, poll'), ~OpenServed
        PROVE  Goal
    <2>1. OpensAsked(queue', phase')
      BY <1>1, <1>2 DEF QueueInv, OpensAsked
    <2> QED BY <1>2, <2>1 DEF Goal, QueueInv
  <1>3. ASSUME queue' = queue, poll' = poll, ~OpenServed
        PROVE  Goal
    BY <1>1, <1>2, <1>3
  <1>4. ASSUME NEW c \in Commands, c.op \in {"stop", "answer"}, poll' = poll,
               queue' = Append(queue, c), ~OpenServed
        PROVE  Goal
    <2>1. Append(queue, c) \in Seq(Commands) /\ QueueInv(Append(queue, c), phase, poll)
      BY <1>1, <1>4, AppendKeeps
    <2> QED BY <1>2, <1>4, <2>1
  <1>5. ASSUME Stop, poll' = poll, ~OpenServed PROVE Goal
    BY <1>4, <1>5 DEF Stop, Ask, Commands
  <1>6. ASSUME NEW r, NEW p, Show(r, queue, p), ~OpenServed,
               p = poll \/ (p = NoPoll /\ poll.stage # "asking")
        PROVE  Goal
    BY <1>2, <1>6, Shows
  <1>7. CASE OpenServed
    <2>1. queue # <<>> /\ queue' = Tail(queue) /\ Head(queue).op = "open" /\ poll' = poll
      BY <1>7 DEF OpenServed, IsNext
    <2>2. /\ queue' \in Seq(Commands) /\ Single(queue') /\ OpensAsked(queue', phase)
          /\ NoPollIn(queue) => NoPollIn(queue')
          /\ NoOpenOf(queue', Head(queue).of)
      BY <2>1, Served
    <2>3. OpensAsked(queue', phase')
      BY <1>1, <2>2 DEF OpensAsked, NoOpenOf
    <2> QED BY <1>1, <2>1, <2>2, <2>3 DEF Goal, QueueInv
  <1> SUFFICES ASSUME ~OpenServed PROVE Goal
    BY <1>7
  <1>8. ASSUME queue # <<>>, queue' = Tail(queue), poll' = poll \/ Head(queue).op = "poll"
        PROVE  Goal
    <2>1. /\ queue' \in Seq(Commands) /\ Single(queue') /\ OpensAsked(queue', phase)
          /\ NoPollIn(queue) \/ Head(queue).op = "poll" => NoPollIn(queue')
      BY <1>8, Served
    <2>2. QueueInv(queue', phase, poll')
      BY <1>1, <1>8, <2>1 DEF QueueInv
    <2> QED BY <1>2, <2>1, <2>2
  <1>9. CASE StopServed \/ PollBound \/ \E o \in Offer : AnswerBound(o)
    BY <1>8, <1>9 DEF StopServed, PollBound, AnswerBound, IsNext
  <1>10. CASE OpenArrives
    <2>1. \/ UNCHANGED <<poll, queue>>
          \/ Show([session |-> Head(replies).of, state |-> "pending"], queue, poll)
      BY <1>10 DEF OpenArrives
    <2> QED BY <1>3, <1>6, <2>1
  <1>11. CASE StopArrives \/ \E o \in Offer : AnswerArrives(o)
    BY <1>6, <1>11 DEF StopArrives, AnswerArrives
  <1>12. CASE PollArrives
    BY <1>6, <1>12 DEF PollArrives
  <1>13. CASE PollCalled
    <2> DEFINE c == Ask("poll", None)
               p == [NoPoll EXCEPT !.stage = "asking"]
    <2>1. poll' = p /\ queue' = Append(queue, c) /\ phase' = phase /\ poll = NoPoll
      BY <1>13 DEF PollCalled, server
    <2>2. c \in Commands /\ c.op = "poll" /\ p.stage = "asking" /\ NoPoll.stage = "none"
      BY DEF Ask, Commands, NoPoll
    <2> HIDE DEF c, p
    <2>3. NoPollIn(queue) /\ QueueInv(queue, phase, p)
      BY <1>1, <2>1, <2>2 DEF QueueInv
    <2>4. queue' \in Seq(Commands) /\ QueueInv(queue', phase, p)
      BY <1>1, <2>1, <2>2, <2>3, AppendKeeps
    <2> QED BY <2>1, <2>4, <1>2
  <1>14. CASE PollServed
    <2>1. queue' = queue /\ poll.stage # "asking"
      BY <1>14 DEF PollServed, native
    <2> QED BY <1>1, <1>2, <2>1 DEF QueueInv
  <1>15. ASSUME NEW s \in Session, OpenCalled(s, TRUE) \/ OpenCalled(s, FALSE)
         PROVE  Goal
    <2> DEFINE c == Ask("open", s)
    <2>1. /\ phase[s] = "unused" /\ phase' = [phase EXCEPT ![s] = "asked"]
          /\ queue' = Append(queue, c) /\ poll' = poll
      BY <1>15 DEF OpenCalled
    <2>2. c \in Commands /\ c.op = "open" /\ c.of = s
      BY DEF Ask, Commands
    <2> HIDE DEF c
    <2>3. NoOpenOf(queue, s) /\ OpensAsked(queue, phase')
      BY <1>1, <2>1 DEF QueueInv, OpensAsked, NoOpenOf
    <2>4. QueueInv(queue, phase', poll)
      BY <1>1, <2>3 DEF QueueInv
    <2>5. phase'[s] = "asked"
      BY <1>1, <2>1
    <2>6. queue' \in Seq(Commands) /\ QueueInv(queue', phase', poll)
      BY <1>1, <2>1, <2>2, <2>3, <2>4, <2>5, AppendKeeps
    <2> QED BY <2>1, <2>6 DEF Goal
  <1>16. ASSUME NEW s \in Session, OfferPosted(s) \/ ViewerAnswers(s) \/ RoomEnds(s)
         PROVE  Goal
    BY <1>3, <1>16 DEF OfferPosted, ViewerAnswers, RoomEnds, native
  <1>17. CASE StopPressed \/ LeaseStops
    BY <1>5, <1>17 DEF StopPressed, LeaseStops
  <1>18. ASSUME NEW o \in Offer, OfferFails(o) \/ ConnectionFails(o)
         PROVE  Goal
    BY <1>5, <1>18 DEF OfferFails, ConnectionFails
  <1>19. ASSUME NEW o \in Offer, Gathered(o)
         PROVE  Goal
    <2>1. Ask("answer", o) \in Commands /\ Ask("answer", o).op = "answer"
      BY DEF Ask, Commands
    <2> QED BY <1>3, <1>4, <1>19, <2>1 DEF Gathered
  <1>20. ASSUME NEW o \in Offer,
                Described(o) \/ AnswerServed(o) \/ Forgotten(o) \/ TrackArrives(o)
         PROVE  Goal
    BY <1>3, <1>20 DEF Described, AnswerServed, Forgotten, TrackArrives, native
  <1>21. ASSUME NEW c, Clicked(c) \/ ClickEnds(c)
         PROVE  Goal
    BY <1>3, <1>21 DEF Clicked, ClickEnds, native
  <1>22. CASE LeaseRunsOut
    BY <1>3, <1>22 DEF LeaseRunsOut, native
  <1> QED
    BY <1>9, <1>10, <1>11, <1>12, <1>13, <1>14, <1>15, <1>16, <1>17, <1>18, <1>19, <1>20,
       <1>21, <1>22 DEF Next, Serve, Deliver, OfferMoves

LEMMA WindowInvFromInit == ASSUME Init PROVE WindowInv
  <1> USE NoneAssumption
  <1>1. PageTyped /\ CallsTyped /\ ServerTyped
    BY DEF Init, PageTyped, CallsTyped, Call, NoCall, Stage, ServerTyped, Phase
  <1>2. PollTyped
    BY DEF Init, PollTyped, Poll, NoPoll
  <1>3. NativeTyped
    BY DEF Init, NativeTyped, RepliesTyped
  <1>4. queue \in Seq(Commands) /\ QueueInv(queue, phase, poll)
    BY DEF Init, QueueInv, OpensAsked, Single, NoPollIn
  <1> QED BY <1>1, <1>2, <1>3, <1>4 DEF WindowInv

LEMMA WindowInvKept ==
    ASSUME WindowInv, [Next]_vars
    PROVE  WindowInv'
  <1>1. CASE Next
    BY <1>1, PageStep, CallsStep, PollStep, NativeStep, PhasesMoveOn, QueueStep DEF WindowInv
  <1>2. CASE UNCHANGED vars
    BY <1>2 DEF WindowInv, PageTyped, CallsTyped, Stage, PollTyped, NativeTyped, ServerTyped,
                vars, page, viewer, native, server
  <1> QED BY <1>1, <1>2

LEMMA AlwaysWindowInv == Spec => []WindowInv
  <1> QED BY WindowInvFromInit, WindowInvKept, PTL DEF Spec

\* With any number of sessions and calls under way, every variable keeps its type.
THEOREM WindowTypeCorrect == Spec => []TypeOK
  <1>1. WindowInv => TypeOK
    BY DEF WindowInv, PageTyped, CallsTyped, PollTyped, NativeTyped, RepliesTyped, ReplyType,
           ServerTyped, TypeOK
  <1> QED BY <1>1, AlwaysWindowInv, PTL

\* What the slot holds and what a poll asks about has a room at the server, open or
\* ended; an opening that waits for the mutex is of a session that has none yet, and
\* no two of them are of the same one.
OnlyOpenedSessions ==
    /\ slot # None => phase[slot] \in Known
    /\ poll.stage \in {"sent", "answered"} => phase[poll.session] \in Known
    /\ \A i \in DOMAIN queue : queue[i].op = "open" => phase[queue[i].of] = "asked"
    /\ \A i, j \in DOMAIN queue :
           i # j /\ queue[i].op = "open" /\ queue[j].op = "open" => queue[i].of # queue[j].of

\* However openings, stops and polls queue up for the slot's mutex, a session is opened
\* once, and only one the server has opened is ever held or polled.
THEOREM OnlyOpenedSessionsAreUsed == Spec => []OnlyOpenedSessions
  <1>1. WindowInv => OnlyOpenedSessions
    <2> SUFFICES ASSUME WindowInv PROVE OnlyOpenedSessions
      OBVIOUS
    <2>1. (slot # None => phase[slot] \in Known)
          /\ (poll.stage \in {"sent", "answered"} => phase[poll.session] \in Known)
      BY DEF WindowInv, NativeTyped, PollTyped
    <2>2. OpensAsked(queue, phase) /\ Single(queue)
      BY DEF WindowInv, QueueInv
    <2> QED BY <2>1, <2>2 DEF OnlyOpenedSessions, OpensAsked, Single
  <1> QED BY <1>1, AlwaysWindowInv, PTL

------------------------------------------------------------------------------
(* The held session and its button *)

NoStopAfter(rs, i) == \A j \in DOMAIN rs : j > i => rs[j].op # "stop"

\* The reply of an opening that succeeded, with no reply of stop() behind it.
OpeningOnItsWay(rs) ==
    \E i \in DOMAIN rs : rs[i].op = "open" /\ rs[i].ok /\ NoStopAfter(rs, i)

\* A held session is shown, or will be once the replies have arrived.
HeldIsShown ==
    slot # None => \/ OpeningOnItsWay(replies)
                   \/ room # NoRoom /\ NoStopAfter(replies, 0)

LEMMA OpeningsQueueUp ==
    ASSUME NEW rs \in Seq(ReplyType), NEW r \in ReplyType, r.op = "open"
    PROVE  /\ r.ok \/ OpeningOnItsWay(rs) => OpeningOnItsWay(Append(rs, r))
           /\ NoStopAfter(rs, 0) => NoStopAfter(Append(rs, r), 0)
  <1> DEFINE rs2 == Append(rs, r)
  <1>1. /\ Len(rs) \in Nat /\ DOMAIN rs = 1 .. Len(rs) /\ DOMAIN rs2 = 1 .. Len(rs) + 1
        /\ rs2[Len(rs) + 1] = r /\ \A i \in 1 .. Len(rs) : rs2[i] = rs[i]
    OBVIOUS
  <1> HIDE DEF rs2
  <1>2. r.ok => OpeningOnItsWay(rs2)
    BY <1>1 DEF OpeningOnItsWay, NoStopAfter
  <1>3. OpeningOnItsWay(rs) => OpeningOnItsWay(rs2)
    BY <1>1 DEF OpeningOnItsWay, NoStopAfter
  <1>4. NoStopAfter(rs, 0) => NoStopAfter(rs2, 0)
    BY <1>1 DEF NoStopAfter
  <1> QED BY <1>2, <1>3, <1>4 DEF rs2

LEMMA RepliesArrive ==
    ASSUME NEW rs \in Seq(ReplyType), rs # <<>>
    PROVE  /\ NoStopAfter(rs, 0) => NoStopAfter(Tail(rs), 0)
           /\ OpeningOnItsWay(rs) =>
                 \/ OpeningOnItsWay(Tail(rs))
                 \/ Head(rs).op = "open" /\ Head(rs).ok /\ NoStopAfter(Tail(rs), 0)
  <1> DEFINE rs2 == Tail(rs)
  <1>1. /\ Len(rs) \in Nat \ {0} /\ DOMAIN rs = 1 .. Len(rs) /\ DOMAIN rs2 = 1 .. Len(rs) - 1
        /\ Head(rs) = rs[1] /\ \A i \in DOMAIN rs2 : rs2[i] = rs[i + 1]
    OBVIOUS
  <1> HIDE DEF rs2
  <1>2. NoStopAfter(rs, 0) => NoStopAfter(rs2, 0)
    BY <1>1 DEF NoStopAfter
  <1>3. ASSUME NEW i \in DOMAIN rs, rs[i].op = "open", rs[i].ok, NoStopAfter(rs, i)
        PROVE  \/ OpeningOnItsWay(rs2)
               \/ Head(rs).op = "open" /\ Head(rs).ok /\ NoStopAfter(rs2, 0)
    <2>1. CASE i = 1
      BY <1>1, <1>3, <2>1 DEF NoStopAfter
    <2>2. CASE i # 1
      <3>1. i - 1 \in DOMAIN rs2 /\ rs2[i - 1] = rs[i]
        BY <1>1, <2>2
      <3>2. NoStopAfter(rs2, i - 1)
        BY <1>1, <1>3 DEF NoStopAfter
      <3> QED BY <1>3, <3>1, <3>2 DEF OpeningOnItsWay
    <2> QED BY <2>1, <2>2
  <1> QED BY <1>2, <1>3 DEF OpeningOnItsWay, rs2

\* Nothing but a stop empties the window of a held session, and a stop has emptied
\* the slot before its reply is sent.
LEMMA HeldIsShownKept ==
    ASSUME WindowInv, HeldIsShown, Next
    PROVE  HeldIsShown'
  <1> DEFINE Goal == HeldIsShown'
  <1> SUFFICES Goal
    OBVIOUS
  <1> HIDE DEF Goal
  <1> USE NoneAssumption
  <1>1. /\ replies \in Seq(ReplyType) /\ RepliesTyped(replies)
        /\ slot \in Session \cup {None}
    BY DEF WindowInv, NativeTyped, RepliesTyped
  <1>2. ASSUME UNCHANGED <<slot, replies>>, room' = room \/ room' # NoRoom
        PROVE  Goal
    BY <1>2 DEF HeldIsShown, Goal
  <1>3. CASE OpenServed
    <2>1. Head(queue).of \in Session
      BY <1>3, Served DEF OpenServed, IsNext
    <2> DEFINE s == Head(queue).of
    <2>2. /\ room' = room
          /\ \E ok \in BOOLEAN :
                /\ replies' = Append(replies, Reply("open", s, ok))
                /\ ok \/ slot' = slot
      BY <1>3 DEF OpenServed, page
    <2> HIDE DEF s
    <2>3. PICK ok \in BOOLEAN :
             /\ replies' = Append(replies, Reply("open", s, ok))
             /\ ok \/ slot' = slot
      BY <2>2
    <2>4. /\ Reply("open", s, ok) \in ReplyType
          /\ Reply("open", s, ok).op = "open" /\ Reply("open", s, ok).ok = ok
      BY <2>1 DEF Reply, ReplyType, s
    <2>5. /\ ok \/ OpeningOnItsWay(replies) => OpeningOnItsWay(replies')
          /\ NoStopAfter(replies, 0) => NoStopAfter(replies', 0)
      BY <1>1, <2>3, <2>4, OpeningsQueueUp
    <2> QED BY <2>2, <2>3, <2>5 DEF HeldIsShown, Goal
  <1>4. CASE StopServed
    BY <1>4 DEF StopServed, HeldIsShown, Goal
  <1>5. CASE OpenArrives
    <2>1. /\ replies # <<>> /\ replies' = Tail(replies) /\ slot' = slot
          /\ Head(replies).of \in Session
      BY <1>1, <1>5, RepliesChange DEF OpenArrives, Arriving, RepliesTyped
    <2>2. IF Head(replies).ok
            THEN room' = [session |-> Head(replies).of, state |-> "pending"]
            ELSE room' = room
      BY <1>5 DEF OpenArrives, Show
    <2>3. [session |-> Head(replies).of, state |-> "pending"] # NoRoom
      BY <2>1, RoomsAreRooms DEF Known, Live
    <2>4. /\ NoStopAfter(replies, 0) => NoStopAfter(replies', 0)
          /\ OpeningOnItsWay(replies) =>
                OpeningOnItsWay(replies') \/ (Head(replies).ok /\ NoStopAfter(replies', 0))
      BY <1>1, <2>1, RepliesArrive
    <2> QED BY <2>1, <2>2, <2>3, <2>4 DEF HeldIsShown, Goal
  <1>6. CASE StopArrives
    <2>1. replies # <<>> /\ replies' = Tail(replies) /\ slot' = slot /\ Head(replies).op = "stop"
      BY <1>6 DEF StopArrives, Arriving
    <2>2. ~NoStopAfter(replies, 0)
      BY <1>1, <2>1 DEF NoStopAfter
    <2>3. OpeningOnItsWay(replies) => OpeningOnItsWay(replies')
      BY <1>1, <2>1, RepliesArrive
    <2> QED BY <2>1, <2>2, <2>3 DEF HeldIsShown, Goal
  <1>7. CASE PollArrives
    <2>1. [session |-> poll.session, state |-> poll.state] # NoRoom
      BY <1>7, RoomsAreRooms DEF PollArrives, WindowInv, PollTyped
    <2> QED BY <1>2, <1>7, <2>1 DEF PollArrives, Show
  <1>8. ASSUME NEW o \in Offer, AnswerArrives(o)
        PROVE  Goal
    <2>1. [session |-> offers[o].session, state |-> "active"] # NoRoom
      BY <1>8, RoomsAreRooms DEF AnswerArrives, WindowInv, CallsTyped, Known, Live
    <2> QED BY <1>2, <1>8, <2>1 DEF AnswerArrives, Show
  <1>9. CASE \/ PollBound \/ PollServed \/ PollCalled \/ StopPressed \/ LeaseStops \/ LeaseRunsOut
    BY <1>2, <1>9 DEF PollBound, PollServed, PollCalled, StopPressed, LeaseStops, LeaseRunsOut,
                      native, page
  <1>10. ASSUME NEW s \in Session,
               \/ OpenCalled(s, TRUE) \/ OpenCalled(s, FALSE)
               \/ OfferPosted(s) \/ ViewerAnswers(s) \/ RoomEnds(s)
         PROVE  Goal
    BY <1>2, <1>10 DEF OpenCalled, OfferPosted, ViewerAnswers, RoomEnds, native, page
  <1>11. ASSUME NEW c, Clicked(c) \/ ClickEnds(c)
         PROVE  Goal
    BY <1>2, <1>11 DEF Clicked, ClickEnds, native
  <1>12. ASSUME NEW o \in Offer,
                \/ AnswerBound(o) \/ Described(o) \/ Gathered(o) \/ AnswerServed(o)
                \/ OfferFails(o) \/ Forgotten(o) \/ TrackArrives(o) \/ ConnectionFails(o)
         PROVE  Goal
    BY <1>2, <1>12 DEF AnswerBound, Described, Gathered, AnswerServed, OfferFails, Forgotten,
                       TrackArrives, ConnectionFails, native, page
  <1> QED
    BY <1>3, <1>4, <1>5, <1>6, <1>7, <1>8, <1>9, <1>10, <1>11, <1>12
       DEF Next, Serve, Deliver, OfferMoves

\* However many sessions are opened, stopped and polled, a connection the native
\* side holds once all is quiet has a room in the window, and so a button.
THEOREM HeldSessionsAlwaysHaveAButton == Spec => []HeldSessionsHaveAButton
  <1>1. Init => HeldIsShown
    BY DEF Init, HeldIsShown
  <1>2. WindowInv /\ HeldIsShown /\ [Next]_vars => HeldIsShown'
    <2>1. ASSUME HeldIsShown, UNCHANGED vars PROVE HeldIsShown'
      BY <2>1 DEF HeldIsShown, vars, page, native
    <2> QED BY <2>1, HeldIsShownKept
  <1>3. HeldIsShown => HeldSessionsHaveAButton
    BY DEF HeldIsShown, OpeningOnItsWay, HeldSessionsHaveAButton
  <1> QED BY <1>1, <1>2, <1>3, AlwaysWindowInv, PTL DEF Spec

------------------------------------------------------------------------------
(* The entry page *)

\* While the entry page is shown no poll is under way.
EntryIsQuiet == room = NoRoom => poll = NoPoll

LEMMA EntryIsQuietKept ==
    ASSUME WindowInv, EntryIsQuiet, Next
    PROVE  EntryIsQuiet'
  <1> USE NoneAssumption
  <1>1. room \in Room \cup {NoRoom} /\ queue \in Seq(Commands) /\ QueueInv(queue, phase, poll)
    BY DEF WindowInv, PageTyped
  <1>2. ASSUME room' = room, poll' \in {poll, NoPoll}
        PROVE  EntryIsQuiet'
    BY <1>2 DEF EntryIsQuiet
  <1>3. ASSUME room' # NoRoom
        PROVE  EntryIsQuiet'
    BY <1>3 DEF EntryIsQuiet
  <1>4. CASE StopArrives
    <2>1. poll' = NoPoll \/ (poll' = poll /\ EffectKey(NoRoom) = EffectKey(room))
      BY <1>4 DEF StopArrives, Show
    <2>2. EffectKey(NoRoom) = EffectKey(room) => room = NoRoom
      BY <1>1 DEF EffectKey, Room, NoRoom
    <2> QED BY <2>1, <2>2 DEF EntryIsQuiet
  <1>5. CASE OpenArrives
    <2>1. Head(replies).of \in Session
      BY <1>5, RepliesChange DEF OpenArrives, Arriving, WindowInv, NativeTyped, RepliesTyped
    <2>2. [session |-> Head(replies).of, state |-> "pending"] # NoRoom
      BY <2>1, RoomsAreRooms DEF Known, Live
    <2> QED BY <1>2, <1>3, <1>5, <2>2 DEF OpenArrives, Show
  <1>6. CASE PollArrives
    <2>1. [session |-> poll.session, state |-> poll.state] # NoRoom
      BY <1>6, RoomsAreRooms DEF PollArrives, WindowInv, PollTyped
    <2> QED BY <1>3, <1>6, <2>1 DEF PollArrives, Show
  <1>7. ASSUME NEW o \in Offer, AnswerArrives(o)
        PROVE  EntryIsQuiet'
    <2>1. [session |-> offers[o].session, state |-> "active"] # NoRoom
      BY <1>7, RoomsAreRooms DEF AnswerArrives, WindowInv, CallsTyped, Known, Live
    <2> QED BY <1>3, <1>7, <2>1 DEF AnswerArrives, Show
  <1>8. CASE PollCalled
    BY <1>8 DEF PollCalled, Polling, EntryIsQuiet, page
  \* A poll that waits in the queue is that of an effect that still runs.
  <1>9. CASE PollBound
    <2>1. poll.stage = "asking"
      BY <1>1, <1>9 DEF PollBound, IsNext, QueueInv, NoPollIn
    <2> QED BY <1>9, <2>1 DEF PollBound, EntryIsQuiet, NoPoll, page
  <1>10. CASE PollServed
    BY <1>10 DEF PollServed, EntryIsQuiet, NoPoll, page
  <1>11. CASE OpenServed \/ StopServed \/ StopPressed \/ LeaseStops \/ LeaseRunsOut
    BY <1>2, <1>11 DEF OpenServed, StopServed, StopPressed, LeaseStops, LeaseRunsOut, page
  <1>12. ASSUME NEW s \in Session,
                \/ OpenCalled(s, TRUE) \/ OpenCalled(s, FALSE)
                \/ OfferPosted(s) \/ ViewerAnswers(s) \/ RoomEnds(s)
         PROVE  EntryIsQuiet'
    BY <1>2, <1>12 DEF OpenCalled, OfferPosted, ViewerAnswers, RoomEnds, page
  <1>13. ASSUME NEW c, Clicked(c) \/ ClickEnds(c)
         PROVE  EntryIsQuiet'
    BY <1>2, <1>13 DEF Clicked, ClickEnds
  <1>14. ASSUME NEW o \in Offer,
                \/ AnswerBound(o) \/ Described(o) \/ Gathered(o) \/ AnswerServed(o)
                \/ OfferFails(o) \/ Forgotten(o) \/ TrackArrives(o) \/ ConnectionFails(o)
         PROVE  EntryIsQuiet'
    BY <1>2, <1>14 DEF AnswerBound, Described, Gathered, AnswerServed, OfferFails, Forgotten,
                       TrackArrives, ConnectionFails, page
  <1> QED
    BY <1>4, <1>5, <1>6, <1>7, <1>8, <1>9, <1>10, <1>11, <1>12, <1>13, <1>14
       DEF Next, Serve, Deliver, OfferMoves

\* No poll left over from an ended session brings it back on the entry page: a
\* room appears there only as the reply of an opening, or of an awaited answer.
THEOREM PollsRestoreNoRoom == Spec => PollsRestoreNothing
  <1> DEFINE Awaited == room = NoRoom /\ room' # NoRoom =>
                            \/ Arriving("open") /\ replies' = Tail(replies)
                            \/ \E o \in Offer : Stage(o, "answered") /\ Finish(o)
  <1>1. Init => EntryIsQuiet
    BY DEF Init, EntryIsQuiet
  <1>2. WindowInv /\ EntryIsQuiet /\ [Next]_vars => EntryIsQuiet'
    <2>1. ASSUME EntryIsQuiet, UNCHANGED vars PROVE EntryIsQuiet'
      BY <2>1 DEF EntryIsQuiet, vars, page
    <2> QED BY <2>1, EntryIsQuietKept
  <1>3. EntryIsQuiet /\ [Next]_vars => [Awaited]_vars
    <2> SUFFICES ASSUME EntryIsQuiet, Next, room = NoRoom, room' # NoRoom
                 PROVE  \/ Arriving("open") /\ replies' = Tail(replies)
                        \/ \E o \in Offer : Stage(o, "answered") /\ Finish(o)
      OBVIOUS
    <2>1. ~PollArrives
      BY DEF PollArrives, EntryIsQuiet, NoPoll
    <2>2. OpenArrives \/ StopArrives \/ \E o \in Offer : AnswerArrives(o)
      BY <2>1 DEF Next, Serve, Deliver, OfferMoves, OpenServed, StopServed, PollBound, AnswerBound,
                  PollServed, StopPressed, LeaseStops, PollCalled, LeaseRunsOut, OpenCalled,
                  OfferPosted, ViewerAnswers, RoomEnds, Described, Gathered, AnswerServed,
                  OfferFails, Forgotten, TrackArrives, ConnectionFails, Clicked, ClickEnds, page
    <2> QED BY <2>2 DEF OpenArrives, StopArrives, AnswerArrives, Show
  <1> QED BY <1>1, <1>2, <1>3, AlwaysWindowInv, PTL DEF Spec, PollsRestoreNothing

------------------------------------------------------------------------------
(* The policy scopes: what a viewer gets when verify is passed too few *)

\* No poll has brought word that a room this device views is active.
NoGrantHeard ==
    poll.stage = "answered" /\ poll.state = "active" => poll.session \notin viewing

\* No answer of viewerOffer is taken, and no lease is held.
NothingIsLeased ==
    /\ lease = "none" /\ NoGrantHeard
    /\ \A o \in Offer : ~Stage(o, "answered")

LEMMA NothingIsLeasedKept ==
    ASSUME PolicyScopes # RequiredScopes, WindowInv, NothingIsLeased, Next
    PROVE  NothingIsLeased'
  <1>1. /\ lease = "none" /\ NoGrantHeard /\ offers \in [Offer -> Call]
        /\ \A o \in Offer : ~Stage(o, "answered")
        /\ ~Verified
    BY DEF WindowInv, CallsTyped, NothingIsLeased, Verified
  <1> DEFINE Goal == NothingIsLeased'
  <1> SUFFICES Goal
    OBVIOUS
  <1>2. ASSUME lease' = "none", NoGrantHeard', \A o \in Offer : offers'[o].stage # "answered"
        PROVE  Goal
    BY <1>2 DEF NothingIsLeased, Stage
  <1> HIDE DEF Goal
  <1>3. \A o \in Offer : offers[o].stage # "answered"
    BY <1>1 DEF Stage
  <1>4. ASSUME lease' \in {lease, "none"}, poll' \in {poll, NoPoll}, viewing' = viewing, offers' = offers
        PROVE  Goal
    <2>1. NoGrantHeard'
      BY <1>1, <1>4 DEF NoGrantHeard, NoPoll
    <2> QED BY <1>1, <1>2, <1>3, <1>4, <2>1
  <1>5. ASSUME NEW o \in Offer, NEW call \in Call, offers' = [offers EXCEPT ![o] = call],
               call.stage # "answered", lease' \in {lease, "none"}, poll' \in {poll, NoPoll},
               viewing' = viewing
        PROVE  Goal
    <2>1. NoGrantHeard'
      BY <1>1, <1>5 DEF NoGrantHeard, NoPoll
    <2>2. \A i \in Offer : offers'[i].stage # "answered"
      BY <1>1, <1>3, <1>5
    <2> QED BY <1>1, <1>2, <1>5, <2>1, <2>2
  <1>6. ASSUME NEW o \in Offer, NEW st \in {"idle", "gathering", "asking", "refused"},
               offers' = [offers EXCEPT ![o].stage = st],
               lease' \in {lease, "none"}, poll' = poll, viewing' = viewing
        PROVE  Goal
    <2> DEFINE call == [offers[o] EXCEPT !.stage = st]
    <2>1. call \in Call /\ call.stage = st
      BY <1>1 DEF Call
    <2>2. offers' = [offers EXCEPT ![o] = call]
      BY <1>6
    <2> HIDE DEF call
    <2> QED BY <1>5, <1>6, <2>1, <2>2
  <1>7. ASSUME NEW s \in Session, OpenCalled(s, TRUE) \/ OpenCalled(s, FALSE)
        PROVE  Goal
    <2>1. poll.stage = "answered" => poll.session # s
      BY <1>7 DEF OpenCalled, WindowInv, PollTyped, Known, Live
    <2>2. NoGrantHeard'
      BY <1>1, <1>7, <2>1 DEF OpenCalled, NoGrantHeard
    <2> QED BY <1>1, <1>2, <1>3, <1>7, <2>2 DEF OpenCalled
  <1>8. CASE \/ OpenServed \/ StopServed \/ StopPressed \/ LeaseStops \/ OpenArrives \/ StopArrives
    BY <1>4, <1>8 DEF OpenServed, StopServed, StopPressed, LeaseStops, OpenArrives, StopArrives,
                      Stop, Show, page, server
  <1>9. CASE PollCalled \/ PollBound
    <2>1. poll'.stage # "answered"
      BY <1>9 DEF PollCalled, PollBound, NoPoll
    <2> QED BY <1>1, <1>2, <1>3, <1>9, <2>1 DEF PollCalled, PollBound, NoGrantHeard, page
  <1>10. CASE PollServed
    <2>1. poll \in Poll
      BY DEF WindowInv, PollTyped
    <2>2. NoGrantHeard'
      <3> DEFINE state == phase[poll.session]
      <3>1. /\ viewing' = viewing
            /\ \/ poll' = NoPoll
               \/ /\ state # "active" \/ poll.session \notin viewing
                  /\ poll' = [poll EXCEPT !.stage = "answered", !.state = state]
        BY <1>1, <1>10 DEF PollServed, server
      <3> HIDE DEF state
      <3>2. CASE poll' = NoPoll
        BY <3>2 DEF NoGrantHeard, NoPoll
      <3>3. CASE poll' # NoPoll
        <4>1. poll'.state = state /\ poll'.session = poll.session
          BY <2>1, <3>1, <3>3 DEF Poll
        <4> QED BY <3>1, <3>3, <4>1 DEF NoGrantHeard
      <3> QED BY <3>2, <3>3
    <2> QED BY <1>1, <1>2, <1>3, <1>10, <2>2 DEF PollServed, page
  <1>11. CASE PollArrives
    <2>1. lease' = lease
      BY <1>1, <1>11 DEF PollArrives, NoGrantHeard
    <2>2. poll' = NoPoll /\ viewing' = viewing
      BY <1>11 DEF PollArrives, Show, server
    <2>3. UNCHANGED offers \/ \E o \in Offer : ViewerOffer(o, poll.session)
      BY <1>11 DEF PollArrives
    <2>4. poll.session \in Session
      BY <1>11 DEF PollArrives, WindowInv, PollTyped
    <2>5. ASSUME NEW o \in Offer, ViewerOffer(o, poll.session)
          PROVE  Goal
      <3> DEFINE call == [stage |-> "describing", session |-> poll.session]
      <3>1. call \in Call /\ call.stage = "describing" /\ offers' = [offers EXCEPT ![o] = call]
        BY <2>4, <2>5 DEF ViewerOffer, Call
      <3> HIDE DEF call
      <3> QED BY <1>5, <2>1, <2>2, <3>1
    <2> QED BY <1>4, <2>1, <2>2, <2>3, <2>5
  <1>12. ~LeaseRunsOut /\ \A o \in Offer : ~AnswerArrives(o)
    BY <1>1 DEF LeaseRunsOut, AnswerArrives
  <1>13. ASSUME NEW s \in Session, OfferPosted(s) \/ ViewerAnswers(s) \/ RoomEnds(s)
         PROVE  Goal
    BY <1>4, <1>13 DEF OfferPosted, ViewerAnswers, RoomEnds, page
  <1>14. ASSUME NEW c, Clicked(c) \/ ClickEnds(c)
         PROVE  Goal
    BY <1>4, <1>14 DEF Clicked, ClickEnds, server
  <1>15. ASSUME NEW o \in Offer, TrackArrives(o) \/ ConnectionFails(o)
         PROVE  Goal
    BY <1>4, <1>15 DEF TrackArrives, ConnectionFails, Stop, page, server
  <1>16. ASSUME NEW o \in Offer, Described(o) \/ Forgotten(o) \/ OfferFails(o) \/ Gathered(o)
         PROVE  Goal
    BY <1>6, <1>16 DEF Described, Forgotten, OfferFails, Gathered, Finish, Stop, page, server
  <1>17. ASSUME NEW o \in Offer, AnswerServed(o)
         PROVE  Goal
    BY <1>1, <1>6, <1>17 DEF AnswerServed, page
  <1>18. ASSUME NEW o \in Offer, AnswerBound(o)
         PROVE  Goal
    <2> DEFINE call == [stage |-> IF slot \in viewing THEN "sent" ELSE "refused", session |-> slot]
    <2>1. call \in Call /\ call.stage # "answered"
      BY DEF WindowInv, NativeTyped, Call
    <2>2. offers' = [offers EXCEPT ![o] = call] /\ lease' = lease /\ poll' = poll /\ viewing' = viewing
      BY <1>18 DEF AnswerBound, page, server
    <2> HIDE DEF call
    <2> QED BY <1>5, <2>1, <2>2
  <1> QED
    BY <1>7, <1>8, <1>9, <1>10, <1>11, <1>12, <1>13, <1>14, <1>15, <1>16, <1>17, <1>18
       DEF Next, Serve, Deliver, OfferMoves

\* With any other number of scopes than verify asks for, and the one the
\* application passes is such, no viewer ever holds a lease and no answer is
\* taken, so the entry page gives way to the reply of an opening only.
THEOREM WithoutItsScopesNothingIsLeased ==
    ASSUME PolicyScopes # RequiredScopes
    PROVE  Spec => []NothingIsLeased
  <1>1. Init => NothingIsLeased
    BY DEF Init, NothingIsLeased, NoGrantHeard, NoPoll, Stage, NoCall
  <1>2. WindowInv /\ NothingIsLeased /\ [Next]_vars => NothingIsLeased'
    <2>1. ASSUME NothingIsLeased, UNCHANGED vars PROVE NothingIsLeased'
      BY <2>1 DEF NothingIsLeased, NoGrantHeard, Stage, vars, page, server
    <2> QED BY <2>1, NothingIsLeasedKept
  <1> QED BY <1>1, <1>2, AlwaysWindowInv, PTL DEF Spec

==============================================================================
