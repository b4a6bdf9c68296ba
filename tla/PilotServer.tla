----------------------------- MODULE PilotServer -----------------------------
(***************************************************************************)
(* The attended-sharing API server, services/api/internal/pilot: the       *)
(* in-memory rooms, their five-state life, the sweep that every request    *)
(* performs under the server's one mutex, the three fixed-window budgets,  *)
(* the security event rings and the short media grants.                    *)
(*                                                                         *)
(* One action is one request's whole critical section: sweep, failed       *)
(* authentication limiter, handler.  Reading the body before the lock and  *)
(* writing the response after it are the subject of RequestPipeline.       *)
(* Bearer tokens are compared by hash in the code; here a token is its     *)
(* hash, and the hash of a missing or malformed header is ZeroHash.        *)
(***************************************************************************)
EXTENDS FixedWindow, FiniteSets, Sequences

CONSTANTS
    RoomId,          \* room identifiers; a bound on the rooms a run creates
    Name,            \* display names a viewer may join under
    Fingerprint,           \* DTLS fingerprints an SDP may carry
    NoName, NoFingerprint, \* "no viewer yet" and "no (acceptable) description"
    RoomLife,        \* 30 minutes, in ticks
    InviteLife,      \* 5 minutes
    HeartbeatLimit,  \* 60 seconds
    GrantLife,       \* 45 seconds
    Capacity,        \* 8 open rooms
    GuestLimit,      \* 6 guest rooms a window
    JoinLimit,       \* 30 join attempts a window
    AuthLimit,       \* 20 failed authentications a window
    RoomLog,         \* 16 events kept per room
    ServerLog,       \* 128 events kept by the server
    AllowGuestHosts, \* deployment opt-in
    MaxTime          \* bound on the clock

ASSUME SentinelAssumption == NoName \notin Name /\ NoFingerprint \notin Fingerprint

ASSUME DurationAssumption ==
    {RoomLife, InviteLife, HeartbeatLimit, GrantLife} \subseteq Nat \ {0}

ASSUME LimitAssumption ==
    /\ {Capacity, GuestLimit, JoinLimit, AuthLimit, ServerLog, MaxTime} \subseteq Nat \ {0}
    /\ RoomLog \in Nat /\ RoomLog >= 5
    /\ AllowGuestHosts \in BOOLEAN
    /\ IsFiniteSet(RoomId)

VARIABLES
    now,          \* the server's clock
    rooms,        \* RoomId -> Room; see Live for the map's domain
    guests,       \* guestWindow and guestCreates
    joins,        \* budget of join attempts
    failedAuth,   \* budget of failed authentications
    events,       \* the server's security events, oldest first
    reply,        \* the request just served and what it was told
    authority     \* history: when the latest grant signed for a room expires

vars == <<now, rooms, guests, joins, failedAuth, events, reply, authority>>

------------------------------------------------------------------------------
(* Tokens, events and rooms *)

ZeroHash       == [kind |-> "zero"]
AdminToken     == [kind |-> "admin"]
HostToken(r)   == [kind |-> "host", room |-> r]
InviteToken(r) == [kind |-> "invite", room |-> r]
ViewerToken(r) == [kind |-> "viewer", room |-> r]

Bearer == {ZeroHash, AdminToken}
            \cup {HostToken(r) : r \in RoomId} \cup {ViewerToken(r) : r \in RoomId}
Invite == {InviteToken(r) : r \in RoomId}
Role   == {"host", "viewer"}

Kind == {"invitation_created", "viewer_joined", "host_accepted", "session_active",
         "session_ended", "invitation_expired", "heartbeat_lost", "session_expired",
         "invitation_rejected", "authentication_rejected"}

\* "free" and "gone" are outside the code's map: an identifier not yet drawn,
\* and one whose room was deleted.  randomToken never draws one twice.
State == {"free", "waiting", "awaiting_consent", "negotiating", "active", "ended", "gone"}

Room == [state         : State,
         invite        : Invite \cup {ZeroHash},
         viewer        : {ViewerToken(r) : r \in RoomId} \cup {ZeroHash},
         name          : Name \cup {NoName},
         offer         : Fingerprint \cup {NoFingerprint},
         answer        : Fingerprint \cup {NoFingerprint},
         expires       : Nat,
         inviteExpires : Nat,
         hostSeen      : Nat,
         viewerSeen    : Nat,
         events        : Seq(Kind)]

Absent(state) ==
    [state |-> state, invite |-> ZeroHash, viewer |-> ZeroHash, name |-> NoName,
     offer |-> NoFingerprint, answer |-> NoFingerprint, expires |-> 0, inviteExpires |-> 0,
     hostSeen |-> Never, viewerSeen |-> Never, events |-> <<>>]

Live(room) == room.state \notin {"free", "gone"}
Open(room) == Live(room) /\ room.state # "ended"

\* record: append, then keep the newest n.
Newest(s, n) == IF Len(s) > n THEN SubSeq(s, Len(s) - n + 1, Len(s)) ELSE s

Recorded(room, kind) ==
    [room EXCEPT !.events = Newest(Append(@, kind), RoomLog)]

\* Mutant: no early return for a room that has ended.
EndedRoom_Again(room, reason) ==
    Recorded([room EXCEPT !.state = "ended", !.offer = NoFingerprint,
                          !.answer = NoFingerprint, !.invite = ZeroHash], reason)

EndedRoom(room, reason) ==
    IF room.state = "ended"
    THEN room
    ELSE Recorded([room EXCEPT !.state = "ended", !.offer = NoFingerprint, !.answer = NoFingerprint,
                               !.invite = ZeroHash], reason)

------------------------------------------------------------------------------
(* The sweep *)

\* Mutant: an ended room never expires.
Expired_OpenOnly(room) == Open(room) /\ now >= room.expires

Expired(room) == Live(room) /\ now >= room.expires

\* Mutant: the invitation is still good at the instant it expires.
InviteLapsed_Late(room) == room.state = "waiting" /\ now > room.inviteExpires

InviteLapsed(room) == room.state = "waiting" /\ now >= room.inviteExpires

Silent(seen) == seen # Never /\ now - seen > HeartbeatLimit

\* Mutant: only the host's silence counts.
HeartbeatLost_HostOnly(room) == Open(room) /\ Silent(room.hostSeen)

HeartbeatLost(room) == Open(room) /\ (Silent(room.hostSeen) \/ Silent(room.viewerSeen))

\* The event the sweep records for a room, in the order the code tests.
SweepReason(room) ==
    IF Expired(room) THEN "session_expired"
    ELSE IF InviteLapsed(room) THEN "invitation_expired"
    ELSE IF HeartbeatLost(room) THEN "heartbeat_lost"
    ELSE "none"

Swept(room) ==
    IF SweepReason(room) = "session_expired" THEN Absent("gone")
    ELSE IF SweepReason(room) = "none" THEN room
    ELSE EndedRoom(room, SweepReason(room))

SweptRooms == [r \in RoomId |-> Swept(rooms[r])]

\* Go ranges over the map in any order, and so are the sweep's events.
SweepOrders ==
    LET hit == {r \in RoomId : SweepReason(rooms[r]) # "none"}
    IN  {o \in [1 .. Cardinality(hit) -> hit] : \A r \in hit : \E i \in DOMAIN o : o[i] = r}

SweepEvents(order) == [i \in DOMAIN order |-> SweepReason(rooms[order[i]])]

\* The server's ring after the sweep and the handler's own events.
Logged(kinds) ==
    {Newest(events \o SweepEvents(o) \o kinds, ServerLog) : o \in SweepOrders}

------------------------------------------------------------------------------
(* Authentication, snapshots and grants *)

\* Mutant: the zero hash of a missing header is compared like any other.
Holds_ZeroHash(bearer, r, role, room) ==
    /\ Live(room)
    /\ bearer = IF role = "host" THEN HostToken(r) ELSE room.viewer

\* authenticate: the bearer is this room's host or viewer.
Holds(bearer, r, role, room) ==
    /\ bearer # ZeroHash
    /\ Live(room)
    /\ bearer = IF role = "host" THEN HostToken(r) ELSE room.viewer

Authenticated(bearer) ==
    \E r \in RoomId, role \in Role : Holds(bearer, r, role, Swept(rooms[r]))

\* authenticate also refreshes the caller's heartbeat, whatever the state.
Seen(room, role) ==
    IF role = "host" THEN [room EXCEPT !.hostSeen = now]
                     ELSE [room EXCEPT !.viewerSeen = now]

Earlier(a, b) == IF a < b THEN a ELSE b

\* Mutant: the grant is not cut at the room's own expiry.
Snapshot_Uncut(room, latest) ==
    IF room.state = "active" THEN now + GrantLife ELSE latest

\* snapshot signs a fresh grant whenever it describes an active room.
Snapshot(room, latest) ==
    IF room.state = "active" THEN Earlier(now + GrantLife, room.expires) ELSE latest

Endpoint == {"create", "create-guest", "join", "room", "action", "end", "accept", "offer",
             "answer", "security", "unrouted", "none"}

Status == {"ok", "unauthorized", "authentication_rate_limited", "pilot_capacity",
           "guest_hosts_disabled", "invalid_request", "creation_rate_limited",
           "join_rate_limited", "invalid_invitation", "invitation_invalid_expired_or_used",
           "invalid_transition", "sdp_type_mismatch", "invalid_sdp", "not_found", "none"}

Replied(bearer, op, status) == reply' = [bearer |-> bearer, op |-> op, status |-> status]

NoReply == [bearer |-> ZeroHash, op |-> "none", status |-> "none"]

------------------------------------------------------------------------------
(* Requests.  Each takes effect on SweptRooms, never on rooms. *)

Served(table, kinds, bearer, op, status) ==
    /\ rooms' = table
    /\ events' \in Logged(kinds)
    /\ Replied(bearer, op, status)
    /\ UNCHANGED now

\* Mutant: a room's own bearers are charged too.
Rejects_Everyone(bearer, op) == bearer # AdminToken

\* failedAuthLimited: only these endpoints, and only a bearer that opens nothing.
Rejects(bearer, op) ==
    IF op \in {"create", "security"} THEN bearer # AdminToken
                                     ELSE ~Authenticated(bearer)

FailedAuth(bearer, op) ==
    /\ Rejects(bearer, op)
    /\ failedAuth' = Spent(failedAuth, now, AuthLimit)
    /\ IF Admits(failedAuth, now, AuthLimit)
       THEN Served(SweptRooms, <<"authentication_rejected">>, bearer, op, "unauthorized")
       ELSE Served(SweptRooms, <<>>, bearer, op, "authentication_rate_limited")
    /\ UNCHANGED <<guests, joins, authority>>

\* issueRoom: forget the ended rooms, then admit one more if there is space.
Prune(room) == IF room.state = "ended" THEN Absent("gone") ELSE room

Pruned == [r \in RoomId |-> Prune(Swept(rooms[r]))]

NewRoom(r) ==
    Recorded([Absent("waiting") EXCEPT !.invite = InviteToken(r),
                                       !.expires = now + RoomLife,
                                       !.inviteExpires = now + InviteLife,
                                       !.hostSeen = now],
             "invitation_created")

\* Mutant: one room too many.
IssueRoom_OffByOne(bearer, op) ==
    IF Cardinality({r \in RoomId : Live(Pruned[r])}) > Capacity
    THEN Served(Pruned, <<>>, bearer, op, "pilot_capacity")
    ELSE \E r \in RoomId :
            /\ rooms[r].state = "free"
            /\ Served([Pruned EXCEPT ![r] = NewRoom(r)], <<"invitation_created">>,
                      bearer, op, "ok")

IssueRoom(bearer, op) ==
    IF Cardinality({r \in RoomId : Live(Pruned[r])}) >= Capacity
    THEN Served(Pruned, <<>>, bearer, op, "pilot_capacity")
    ELSE \E r \in RoomId :
            /\ rooms[r].state = "free"
            /\ Served([Pruned EXCEPT ![r] = NewRoom(r)], <<"invitation_created">>,
                      bearer, op, "ok")

Create(bearer) ==
    /\ ~Rejects(bearer, "create")
    /\ IssueRoom(bearer, "create")
    /\ UNCHANGED <<guests, joins, failedAuth, authority>>

\* The budget is spent after the body is accepted and before capacity is known.
CreateGuest(wellFormed) ==
    /\ \/ /\ ~AllowGuestHosts
          /\ Served(SweptRooms, <<>>, ZeroHash, "create-guest", "guest_hosts_disabled")
          /\ UNCHANGED guests
       \/ /\ AllowGuestHosts /\ ~wellFormed
          /\ Served(SweptRooms, <<>>, ZeroHash, "create-guest", "invalid_request")
          /\ UNCHANGED guests
       \/ /\ AllowGuestHosts /\ wellFormed
          /\ guests' = Spent(guests, now, GuestLimit)
          /\ IF Admits(guests, now, GuestLimit)
             THEN IssueRoom(ZeroHash, "create-guest")
             ELSE Served(SweptRooms, <<>>, ZeroHash, "create-guest", "creation_rate_limited")
    /\ UNCHANGED <<joins, failedAuth, authority>>

\* Each attempt is charged before its body is looked at.
Matches(invite, r) == Swept(rooms[r]).state = "waiting" /\ Swept(rooms[r]).invite = invite

\* Mutant: the invitation is not cleared by its use.
Joined_KeepsInvite(room, r, name) ==
    Recorded([room EXCEPT !.viewer = ViewerToken(r), !.name = name,
                          !.state = "awaiting_consent", !.viewerSeen = now],
             "viewer_joined")

Joined(room, r, name) ==
    Recorded([room EXCEPT !.viewer = ViewerToken(r), !.invite = ZeroHash, !.name = name,
                          !.state = "awaiting_consent", !.viewerSeen = now],
             "viewer_joined")

Join(invite, name, wellFormed) ==
    /\ joins' = Spent(joins, now, JoinLimit)
    /\ \/ /\ ~Admits(joins, now, JoinLimit)
          /\ Served(SweptRooms, <<>>, ZeroHash, "join", "join_rate_limited")
       \/ /\ Admits(joins, now, JoinLimit) /\ ~wellFormed
          /\ Served(SweptRooms, <<>>, ZeroHash, "join", "invalid_invitation")
       \/ /\ Admits(joins, now, JoinLimit) /\ wellFormed
          /\ \E r \in RoomId :
                /\ Matches(invite, r)
                /\ Served([SweptRooms EXCEPT ![r] = Joined(@, r, name)], <<"viewer_joined">>,
                          ZeroHash, "join", "ok")
       \/ /\ Admits(joins, now, JoinLimit) /\ wellFormed
          /\ ~\E r \in RoomId : Matches(invite, r)
          /\ Served(SweptRooms, <<"invitation_rejected">>, ZeroHash, "join",
                    "invitation_invalid_expired_or_used")
    /\ UNCHANGED <<guests, failedAuth, authority>>

\* An authenticated request that leaves its own room as `room`.
Answered(bearer, op, r, room, kinds) ==
    /\ Served([SweptRooms EXCEPT ![r] = room], kinds, bearer, op, "ok")
    /\ authority' = [authority EXCEPT ![r] = Snapshot(room, @)]
    /\ UNCHANGED <<guests, joins, failedAuth>>

\* An authenticated request that is refused still counts as a heartbeat.
Refused(bearer, op, r, role, status) ==
    /\ Served([SweptRooms EXCEPT ![r] = Seen(@, role)], <<>>, bearer, op, status)
    /\ UNCHANGED <<guests, joins, failedAuth, authority>>

GetRoom(bearer, r, role) ==
    Answered(bearer, "room", r, Seen(Swept(rooms[r]), role), <<>>)

\* Either role may stop, in any state; stopping twice changes nothing more.
End(bearer, r, role) ==
    Answered(bearer, "end", r, EndedRoom(Seen(Swept(rooms[r]), role), "session_ended"),
             IF Swept(rooms[r]).state = "ended" THEN <<>> ELSE <<"session_ended">>)

CanAccept(room, role) == role = "host" /\ room.state = "awaiting_consent"

Accept(bearer, r, role) ==
    IF CanAccept(Swept(rooms[r]), role)
    THEN Answered(bearer, "accept", r,
                  Recorded([Seen(Swept(rooms[r]), role) EXCEPT !.state = "negotiating"],
                           "host_accepted"),
                  <<"host_accepted">>)
    ELSE Refused(bearer, "accept", r, role, "invalid_transition")

\* Mutant: a second offer replaces the first.
CanOffer_Rewrites(room, role) == role = "host" /\ room.state = "negotiating"

CanOffer(room, role) ==
    role = "host" /\ room.state = "negotiating" /\ room.offer = NoFingerprint

CanAnswer(room, role) ==
    /\ role = "viewer" /\ room.state = "negotiating"
    /\ room.offer # NoFingerprint /\ room.answer = NoFingerprint

\* The order of the tests on an SDP; `print` is what fingerprint() finds in it,
\* NoFingerprint when it finds an error.
SdpVerdict(can, op, type, print) ==
    IF ~can THEN "invalid_transition"
    ELSE IF type # op THEN "sdp_type_mismatch"
    ELSE IF print = NoFingerprint THEN "invalid_sdp"
    ELSE "ok"

Offer(bearer, r, role, type, print) ==
    LET verdict == SdpVerdict(CanOffer(Swept(rooms[r]), role), "offer", type, print) IN
    IF verdict = "ok"
    THEN Answered(bearer, "offer", r,
                  [Seen(Swept(rooms[r]), role) EXCEPT !.offer = print], <<>>)
    ELSE Refused(bearer, "offer", r, role, verdict)

Answer(bearer, r, role, type, print) ==
    LET verdict == SdpVerdict(CanAnswer(Swept(rooms[r]), role), "answer", type, print) IN
    IF verdict = "ok"
    THEN Answered(bearer, "answer", r,
                  Recorded([Seen(Swept(rooms[r]), role) EXCEPT !.answer = print,
                                                               !.state = "active"],
                           "session_active"),
                  <<"session_active">>)
    ELSE Refused(bearer, "answer", r, role, verdict)

\* A body that does not parse, or an action the switch does not know.
Malformed(bearer, r, role) == Refused(bearer, "action", r, role, "invalid_request")

Security(bearer) ==
    /\ ~Rejects(bearer, "security")
    /\ Served(SweptRooms, <<>>, bearer, "security", "ok")
    /\ UNCHANGED <<guests, joins, failedAuth, authority>>

\* A path or method the mux does not route: only the sweep happens.
Unrouted ==
    /\ Served(SweptRooms, <<>>, ZeroHash, "unrouted", "not_found")
    /\ UNCHANGED <<guests, joins, failedAuth, authority>>

------------------------------------------------------------------------------
(* The server *)

Tick ==
    /\ now < MaxTime
    /\ now' = now + 1
    /\ reply' = NoReply
    /\ UNCHANGED <<rooms, guests, joins, failedAuth, events, authority>>

Init ==
    /\ now = 1
    /\ rooms = [r \in RoomId |-> Absent("free")]
    /\ guests = Untouched /\ joins = Untouched /\ failedAuth = Untouched
    /\ events = <<>>
    /\ reply = NoReply
    /\ authority = [r \in RoomId |-> 0]

SdpType == {"offer", "answer"}

\* The room and action handlers, behind authenticate.
Authorized ==
    \E bearer \in Bearer, r \in RoomId, role \in Role :
        /\ Holds(bearer, r, role, Swept(rooms[r]))
        /\ \/ GetRoom(bearer, r, role)
           \/ End(bearer, r, role)
           \/ Accept(bearer, r, role)
           \/ Malformed(bearer, r, role)
           \/ \E type \in SdpType, print \in Fingerprint \cup {NoFingerprint} :
                 \/ Offer(bearer, r, role, type, print)
                 \/ Answer(bearer, r, role, type, print)

Next ==
    \/ Tick
    \/ Unrouted
    \/ \E wellFormed \in BOOLEAN : CreateGuest(wellFormed)
    \/ \E invite \in Invite, name \in Name, wellFormed \in BOOLEAN : Join(invite, name, wellFormed)
    \/ \E bearer \in Bearer :
          \/ Create(bearer)
          \/ Security(bearer)
          \/ \E op \in {"create", "security", "room", "action"} : FailedAuth(bearer, op)
    \/ Authorized

Spec == Init /\ [][Next]_vars

------------------------------------------------------------------------------
(* What the rooms promise, whatever the clients do *)

\* Every variable has its type; rings and budgets stay within their limits.
TypeOK ==
    /\ now \in 1 .. MaxTime
    /\ rooms \in [RoomId -> Room]
    /\ guests \in Budget(GuestLimit)
    /\ joins \in Budget(JoinLimit)
    /\ failedAuth \in Budget(AuthLimit)
    /\ events \in Seq(Kind) /\ Len(events) <= ServerLog
    /\ reply \in [bearer : Bearer, op : Endpoint, status : Status]
    /\ authority \in [RoomId -> Nat]

\* A room's secrets and descriptions agree with its state: the invitation opens
\* it exactly while it waits, nobody is its viewer before joining and somebody
\* is afterwards, an SDP is held only between consent and the end, and a room is
\* active exactly when both are (join, action and endRoom write them apart).
Consistent(r, room) ==
    /\ room.state = "waiting" <=> room.invite = InviteToken(r)
    /\ room.invite # ZeroHash => room.invite = InviteToken(r)
    /\ room.viewer # ZeroHash => room.viewer = ViewerToken(r)
    /\ room.viewer # ZeroHash <=> room.name # NoName
    /\ room.viewer # ZeroHash <=> room.viewerSeen # Never
    /\ room.state \in {"awaiting_consent", "negotiating", "active"} => room.viewer # ZeroHash
    /\ room.state = "waiting" => room.viewer = ZeroHash
    /\ room.offer # NoFingerprint => room.state \in {"negotiating", "active"}
    /\ room.state = "active" => room.offer # NoFingerprint
    /\ room.state = "active" <=> room.answer # NoFingerprint
    /\ ~Live(room) => room = Absent(room.state)

RoomsConsistent == \A r \in RoomId : Consistent(r, rooms[r])

\* The events a room in each state may show: the trail of record() calls tells
\* how the room came to be where it is, and no event is ever pushed out of it.
Invited    == <<"invitation_created">>
Entered    == Append(Invited, "viewer_joined")
Accepted   == Append(Entered, "host_accepted")
Connected  == Append(Accepted, "session_active")

OpenTrails == {Invited, Entered, Accepted, Connected}

EndedTrails ==
    {Append(Invited, "invitation_expired")}
      \cup {Append(trail, "session_ended") : trail \in OpenTrails}
      \cup {Append(trail, "heartbeat_lost") : trail \in OpenTrails}

Trails(state) ==
    IF state = "waiting" THEN {Invited}
    ELSE IF state = "awaiting_consent" THEN {Entered}
    ELSE IF state = "negotiating" THEN {Accepted}
    ELSE IF state = "active" THEN {Connected}
    ELSE IF state = "ended" THEN EndedTrails
    ELSE {<<>>}

\* The security panel of a room (snapshot's "events") is never misleading: each
\* room's recorded events are one of the histories that lead to its state.
EventsTellTheStory == \A r \in RoomId : rooms[r].events \in Trails(rooms[r].state)

\* No more than Capacity rooms are held, ended ones included, however creations,
\* ends, expiries and prunings interleave.
CapacityRespected == Cardinality({r \in RoomId : Live(rooms[r])}) <= Capacity

\* Media authority is bounded in time and rests on consent: an unexpired grant
\* lasts at most GrantLife more, never outlives its room, and exists only for a
\* room whose host accepted and whose negotiation completed.
AuthorityBounded ==
    \A r \in RoomId :
        /\ authority[r] <= now + GrantLife
        /\ authority[r] # 0 => rooms[r].state \in {"active", "ended", "gone"}
        /\ Live(rooms[r]) => authority[r] <= rooms[r].expires
        /\ authority[r] # 0 /\ Live(rooms[r]) => rooms[r].events[3] = "host_accepted"

\* A grant is signed only for a room that is active after the request, not past
\* its expiry, and whose two ends were both heard from within HeartbeatLimit:
\* a late poll can neither renew authority nor revive the room.
GrantsNeedLivePeers ==
    [][\A r \in RoomId :
          authority'[r] # authority[r] =>
             /\ rooms'[r].state = "active"
             /\ now < rooms[r].expires
             /\ now - rooms[r].hostSeen <= HeartbeatLimit
             /\ now - rooms[r].viewerSeen <= HeartbeatLimit]_vars

Fresh(room) ==
    /\ Live(room) => now < room.expires
    /\ room.state = "waiting" => now < room.inviteExpires
    /\ Open(room) => now - room.hostSeen <= HeartbeatLimit
    /\ Open(room) /\ room.viewer # ZeroHash => now - room.viewerSeen <= HeartbeatLimit

\* What a response shows is fresh: once a request is served, no room is left
\* open past its expiry, its invitation or the heartbeat of either end.
ServedStateIsFresh ==
    [][now' = now => (\A r \in RoomId : Fresh(rooms[r]))']_vars

\* A bearer that holds a room after the sweep is never taken for a failed
\* authentication, however exhausted that budget is, and its stop takes effect.
HoldersAreServed ==
    [][\A r \in RoomId, role \in Role :
          Holds(reply'.bearer, r, role, Swept(rooms[r])) =>
             /\ reply'.op \in {"room", "action"} =>
                    reply'.status \notin {"unauthorized", "authentication_rate_limited"}
             /\ reply'.op = "end" => rooms'[r].state = "ended"]_vars

\* Beyond the sweep and the pruning of ended rooms, a request moves one room at
\* most: the one it creates, the waiting one its invitation opens, or the one a
\* token issued for it opens.  A missing or malformed bearer hashes to the zero
\* value that an unjoined room's ViewerHash still has, and must open nothing.
OnlyOwnRoomMoves ==
    [][LET moved == {r \in RoomId : rooms'[r] \notin {rooms[r], Swept(rooms[r]), Prune(Swept(rooms[r]))}} IN
       /\ Cardinality(moved) <= 1
       /\ \A r \in moved :
             \/ rooms[r].state = "free" /\ reply'.op \in {"create", "create-guest"}
             \/ rooms[r].state = "waiting" /\ reply'.op = "join"
             \/ reply'.bearer \in {HostToken(r), ViewerToken(r)}]_vars

\* Rooms do not pile up: as long as time passes and some client polls, every
\* room is deleted once its life is over, whatever its clients do.
EveryRoomIsReleased ==
    \A r \in RoomId :
        Live(rooms[r]) /\ rooms[r].expires <= MaxTime ~> rooms[r].state = "gone"

Poll ==
    \E bearer \in Bearer :
        \/ FailedAuth(bearer, "room")
        \/ \E r \in RoomId, role \in Role :
              Holds(bearer, r, role, Swept(rooms[r])) /\ GetRoom(bearer, r, role)

FairSpec == Spec /\ WF_vars(Tick) /\ WF_vars(Poll)

------------------------------------------------------------------------------
(* The life of a room that all of this implements *)

Lifecycle == INSTANCE RoomLifecycle
    WITH phase  <- [r \in RoomId |-> rooms[r].state],
         viewer <- [r \in RoomId |-> rooms[r].name],
         offer  <- [r \in RoomId |-> rooms[r].offer],
         answer <- [r \in RoomId |-> rooms[r].answer]

\* Every request, with its sweep and prunings, is for each room a step of the
\* room's life or none at all: a single-use invitation, consent before any
\* description, descriptions written once, and no way back from the end.
ImplementsLifecycle == Lifecycle!Spec
==============================================================================
