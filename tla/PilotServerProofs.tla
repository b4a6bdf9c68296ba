-------------------------- MODULE PilotServerProofs --------------------------
(***************************************************************************)
(* Proofs about PilotServer for every value of its constants.              *)
(*                                                                         *)
(* A request rewrites the whole table (the sweep visits every room), but   *)
(* room by room it does little: RequestIsRoomwise shows that each room takes  *)
(* one of the few steps RoomStep lists.  What is to be shown of rooms is   *)
(* then shown of RoomStep, once, for one room.                             *)
(***************************************************************************)
EXTENDS PilotServer, FiniteSetTheorems, SequenceTheorems, TLAPS

\* A holder's request, seen from the room it opens.
Touches(old, new) ==
    \E role \in Role :
        /\ Live(Swept(old))
        /\ role = "viewer" => Swept(old).viewer # ZeroHash
        /\ \/ new = Seen(Swept(old), role)
           \/ new = EndedRoom(Seen(Swept(old), role), "session_ended")
           \/ /\ CanAccept(Swept(old), role)
              /\ new = Recorded([Seen(Swept(old), role) EXCEPT !.state = "negotiating"],
                                "host_accepted")
           \/ /\ CanOffer(Swept(old), role)
              /\ \E print \in Fingerprint : new = [Seen(Swept(old), role) EXCEPT !.offer = print]
           \/ /\ CanAnswer(Swept(old), role)
              /\ \E print \in Fingerprint :
                    new = Recorded([Seen(Swept(old), role) EXCEPT !.answer = print,
                                                                  !.state = "active"],
                                   "session_active")

\* Everything a request can do to one room.
RoomStep(r, old, new) ==
    \/ new = Swept(old)
    \/ new = Prune(Swept(old))
    \/ old.state = "free" /\ new = NewRoom(r)
    \/ /\ Swept(old).state = "waiting"
       /\ \E name \in Name : new = Joined(Swept(old), r, name)
    \/ Touches(old, new)

\* The history variable's step for the same room.
AuthorityStep(r) ==
    authority'[r] = authority[r] \/ authority'[r] = Snapshot(rooms'[r], authority[r])

------------------------------------------------------------------------------
(* Sequences kept to their newest entries *)

\* Newest keeps a sequence of the same elements, at most n of them.
LEMMA NewestType ==
    ASSUME NEW S, NEW s \in Seq(S), NEW n \in Nat
    PROVE  Newest(s, n) \in Seq(S) /\ Len(Newest(s, n)) <= n
<1>1. CASE Len(s) > n
  <2>1. Len(s) \in Nat
    OBVIOUS
  <2>2. Len(s) - n + 1 \in 1 .. Len(s) + 1 /\ Len(s) \in Len(s) .. Len(s)
    BY <1>1, <2>1
  <2>3. SubSeq(s, Len(s) - n + 1, Len(s)) \in Seq(S)
    BY <1>1, <2>1
  <2>4. Len(SubSeq(s, Len(s) - n + 1, Len(s))) = n
    BY <1>1, <2>1
  <2> QED
    BY <1>1, <2>3, <2>4 DEF Newest
<1>2. CASE ~(Len(s) > n)
  BY <1>2 DEF Newest
<1> QED
  BY <1>1, <1>2

\* A room that records an event is still a room, and if its log has space the
\* event is simply appended.
LEMMA RecordedType ==
    ASSUME NEW room \in Room, NEW kind \in Kind
    PROVE  /\ Recorded(room, kind) \in Room
           /\ Len(room.events) < RoomLog =>
                 Recorded(room, kind) = [room EXCEPT !.events = Append(@, kind)]
<1> USE LimitAssumption
<1>1. Append(room.events, kind) \in Seq(Kind)
  BY DEF Room
<1>2. Newest(Append(room.events, kind), RoomLog) \in Seq(Kind)
  BY <1>1, NewestType
<1>3. Len(room.events) < RoomLog =>
         Newest(Append(room.events, kind), RoomLog) = Append(room.events, kind)
  BY DEF Newest, Room
<1> QED
  BY <1>2, <1>3 DEF Recorded, Room

\* Ending a room leaves a room.
LEMMA EndedRoomType ==
    ASSUME NEW room \in Room, NEW reason \in Kind
    PROVE  EndedRoom(room, reason) \in Room
<1> DEFINE cleared == [room EXCEPT !.state = "ended", !.offer = NoFingerprint,
                                   !.answer = NoFingerprint, !.invite = ZeroHash]
<1>1. cleared \in Room
  BY DEF Room, State
<1>2. Recorded(cleared, reason) \in Room
  BY <1>1, RecordedType
<1> QED
  BY <1>2 DEF EndedRoom

\* An absent room has the type of a room.
LEMMA AbsentType ==
    Absent("free") \in Room /\ Absent("gone") \in Room /\ Absent("waiting") \in Room
BY DEF Absent, Room, State, Never

\* The sweep leaves rooms, and records only events it knows.
LEMMA SweptType ==
    ASSUME NEW room \in Room
    PROVE  /\ Swept(room) \in Room
           /\ SweepReason(room) \in {"session_expired", "invitation_expired",
                                     "heartbeat_lost", "none"}
<1>1. SweepReason(room) \in {"session_expired", "invitation_expired",
                             "heartbeat_lost", "none"}
  BY DEF SweepReason
<1>2. CASE SweepReason(room) = "session_expired"
  BY <1>1, <1>2, AbsentType DEF Swept
<1>3. CASE SweepReason(room) = "none"
  BY <1>1, <1>3 DEF Swept
<1>4. CASE SweepReason(room) \in {"invitation_expired", "heartbeat_lost"}
  <2>1. SweepReason(room) \in Kind
    BY <1>4 DEF Kind
  <2>2. EndedRoom(room, SweepReason(room)) \in Room
    BY <2>1, EndedRoomType
  <2> QED
    BY <1>1, <1>4, <2>2 DEF Swept
<1> QED
  BY <1>1, <1>2, <1>3, <1>4

\* What a request leaves of a room has the type of a room.
LEMMA RoomStepType ==
    ASSUME now \in Nat, NEW r \in RoomId, NEW old \in Room, NEW new, RoomStep(r, old, new)
    PROVE  new \in Room
<1> USE DurationAssumption
<1>1. Swept(old) \in Room
  BY SweptType
<1>2. CASE new = Swept(old)
  BY <1>1, <1>2
<1>3. CASE new = Prune(Swept(old))
  BY <1>1, <1>3, AbsentType DEF Prune
<1>4. CASE new = NewRoom(r)
  <2> DEFINE fresh == [Absent("waiting") EXCEPT !.invite = InviteToken(r),
                                                !.expires = now + RoomLife,
                                                !.inviteExpires = now + InviteLife,
                                                !.hostSeen = now]
  <2>1. fresh \in Room
    <3>1. now + RoomLife \in Nat /\ now + InviteLife \in Nat
      OBVIOUS
    <3>2. InviteToken(r) \in Invite \cup {ZeroHash}
      BY DEF Invite
    <3>3. Absent("waiting") \in Room
      BY AbsentType
    <3> QED
      BY <3>1, <3>2, <3>3 DEF Room
  <2>2. "invitation_created" \in Kind
    BY DEF Kind
  <2>3. Recorded(fresh, "invitation_created") \in Room
    BY <2>1, <2>2, RecordedType
  <2> QED
    BY <1>4, <2>3 DEF NewRoom
<1>5. ASSUME NEW name \in Name, new = Joined(Swept(old), r, name)
      PROVE  new \in Room
  <2> DEFINE entered == [Swept(old) EXCEPT !.viewer = ViewerToken(r), !.invite = ZeroHash,
                                           !.name = name, !.state = "awaiting_consent",
                                           !.viewerSeen = now]
  <2>1. entered \in Room
    BY <1>1 DEF Room, State
  <2>2. "viewer_joined" \in Kind
    BY DEF Kind
  <2>3. Recorded(entered, "viewer_joined") \in Room
    BY <2>1, <2>2, RecordedType
  <2> QED
    BY <1>5, <2>3 DEF Joined
<1>6. CASE Touches(old, new)
  <2>1. PICK role \in Role : Touches(old, new)!(role)
    BY <1>6 DEF Touches
  <2> DEFINE seen == Seen(Swept(old), role)
  <2>2. seen \in Room
    BY <1>1 DEF Seen, Room
  <2>3. {"session_ended", "host_accepted", "session_active"} \subseteq Kind
    BY DEF Kind
  <2>4. EndedRoom(seen, "session_ended") \in Room
    BY <2>2, <2>3, EndedRoomType
  <2>5. Recorded([seen EXCEPT !.state = "negotiating"], "host_accepted") \in Room
    <3>1. [seen EXCEPT !.state = "negotiating"] \in Room
      BY <2>2 DEF Room, State
    <3> QED
      BY <2>3, <3>1, RecordedType
  <2>6. ASSUME NEW print \in Fingerprint
        PROVE  /\ [seen EXCEPT !.offer = print] \in Room
               /\ Recorded([seen EXCEPT !.answer = print, !.state = "active"],
                           "session_active") \in Room
    <3>1. [seen EXCEPT !.answer = print, !.state = "active"] \in Room
      BY <2>2 DEF Room, State
    <3>2. [seen EXCEPT !.offer = print] \in Room
      BY <2>2 DEF Room
    <3> QED
      BY <2>3, <3>1, <3>2, RecordedType
  <2> QED
    BY <2>1, <2>2, <2>4, <2>5, <2>6
<1> QED
  BY <1>2, <1>3, <1>4, <1>5, <1>6 DEF RoomStep

------------------------------------------------------------------------------
(* Budgets and events *)

\* Charging a budget keeps it within its limit.
LEMMA SpentType ==
    ASSUME NEW limit \in Nat, NEW b \in Budget(limit), NEW t \in Nat
    PROVE  Spent(b, t, limit) \in Budget(limit)
<1>1. Opened(b, t) \in Budget(limit)
  BY DEF Opened, Budget
<1> QED
  BY <1>1 DEF Spent, Admits, Budget

\* After any request the server's ring holds known events and no more than
\* ServerLog of them.
LEMMA LoggedType ==
    ASSUME TypeOK, NEW kinds \in Seq(Kind), NEW log \in Logged(kinds)
    PROVE  log \in Seq(Kind) /\ Len(log) <= ServerLog
<1> USE LimitAssumption
<1>1. PICK o \in SweepOrders : log = Newest(events \o SweepEvents(o) \o kinds, ServerLog)
  BY DEF Logged
<1> DEFINE hit == {r \in RoomId : SweepReason(rooms[r]) # "none"}
<1>2. Cardinality(hit) \in Nat
  <2>1. IsFiniteSet(hit)
    BY FS_Subset
  <2> QED
    BY <2>1, FS_CardinalityType
<1>3. o \in [1 .. Cardinality(hit) -> hit]
  BY DEF SweepOrders
<1>4. \A i \in 1 .. Cardinality(hit) : SweepReason(rooms[o[i]]) \in Kind
  <2> TAKE i \in 1 .. Cardinality(hit)
  <2>1. o[i] \in hit /\ rooms[o[i]] \in Room
    BY <1>3 DEF TypeOK
  <2> QED
    BY <2>1, SweptType DEF Kind
<1>5. SweepEvents(o) \in [1 .. Cardinality(hit) -> Kind]
  BY <1>3, <1>4 DEF SweepEvents
<1>6. SweepEvents(o) \in Seq(Kind)
  <2>1. \E n \in Nat : SweepEvents(o) \in [1 .. n -> Kind]
    BY <1>2, <1>5
  <2>2. Seq(Kind) = UNION {[1 .. n -> Kind] : n \in Nat}
    BY SeqDef
  <2> QED
    BY <2>1, <2>2, Zenon
<1>7. events \o SweepEvents(o) \o kinds \in Seq(Kind)
  BY <1>6 DEF TypeOK
<1> QED
  BY <1>1, <1>7, NewestType

------------------------------------------------------------------------------
(* One request, room by room *)

Roomwise ==
    /\ now' = now
    /\ rooms' = [r \in RoomId |-> rooms'[r]]
    /\ authority' = [r \in RoomId |-> authority'[r]]
    /\ \A r \in RoomId : RoomStep(r, rooms[r], rooms'[r]) /\ AuthorityStep(r)

\* What every request has in common besides the rooms: its budgets, its events
\* and its reply have their types afterwards.
Booked ==
    /\ guests' \in Budget(GuestLimit)
    /\ joins' \in Budget(JoinLimit)
    /\ failedAuth' \in Budget(AuthLimit)
    /\ events' \in Seq(Kind) /\ Len(events') <= ServerLog
    /\ reply' \in [bearer : Bearer, op : Endpoint, status : Status]

\* A request that only sweeps moves every room as the sweep does.
LEMMA SweepOnlyIsRoomwise ==
    ASSUME TypeOK, now' = now, rooms' = SweptRooms, authority' = authority
    PROVE  Roomwise
BY DEF Roomwise, SweptRooms, RoomStep, AuthorityStep, TypeOK

\* So does one that touches a single room after the sweep.
LEMMA OneRoomIsRoomwise ==
    ASSUME TypeOK, now' = now, NEW r \in RoomId, NEW room,
           RoomStep(r, rooms[r], room),
           rooms' = [SweptRooms EXCEPT ![r] = room],
           \/ authority' = authority
           \/ authority' = [authority EXCEPT ![r] = Snapshot(room, @)]
    PROVE  Roomwise
<1>1. \A s \in RoomId : rooms'[s] = IF s = r THEN room ELSE Swept(rooms[s])
  BY DEF SweptRooms
<1>2. \A s \in RoomId : RoomStep(s, rooms[s], rooms'[s])
  BY <1>1 DEF RoomStep
<1>3. \A s \in RoomId : AuthorityStep(s)
  BY <1>1 DEF AuthorityStep, TypeOK
<1>4. rooms' = [s \in RoomId |-> rooms'[s]]
  BY DEF SweptRooms
<1>5. authority' = [s \in RoomId |-> authority'[s]]
  BY DEF TypeOK
<1> QED
  BY <1>2, <1>3, <1>4, <1>5 DEF Roomwise

\* issueRoom prunes the ended rooms and may open a new one.
LEMMA IssueRoomIsRoomwise ==
    ASSUME TypeOK, NEW bearer, NEW op, IssueRoom(bearer, op), authority' = authority
    PROVE  Roomwise
<1>1. now' = now
  BY DEF IssueRoom, Served
<1>2. \A r \in RoomId : RoomStep(r, rooms[r], Pruned[r])
  BY DEF RoomStep, Pruned
<1>3. CASE rooms' = Pruned
  BY <1>1, <1>2, <1>3 DEF Roomwise, AuthorityStep, TypeOK, Pruned
<1>4. ASSUME NEW r \in RoomId, rooms[r].state = "free",
             rooms' = [Pruned EXCEPT ![r] = NewRoom(r)]
      PROVE  Roomwise
  <2>1. \A s \in RoomId : rooms'[s] = IF s = r THEN NewRoom(r) ELSE Pruned[s]
    BY <1>4 DEF Pruned
  <2>2. \A s \in RoomId : RoomStep(s, rooms[s], rooms'[s])
    BY <2>1, <1>2, <1>4 DEF RoomStep
  <2> QED
    BY <1>1, <1>4, <2>2 DEF Roomwise, AuthorityStep, TypeOK, Pruned
<1> QED
  BY <1>3, <1>4 DEF IssueRoom, Served

\* Every request is roomwise, and books what it spends and logs.
LEMMA RequestIsRoomwise ==
    ASSUME TypeOK, Next, ~Tick
    PROVE  Roomwise /\ Booked
<1> USE LimitAssumption
<1>t. /\ now \in Nat /\ rooms \in [RoomId -> Room] /\ authority \in [RoomId -> Nat]
      /\ guests \in Budget(GuestLimit) /\ joins \in Budget(JoinLimit)
      /\ failedAuth \in Budget(AuthLimit)
  BY DEF TypeOK
<1>b. /\ Spent(guests, now, GuestLimit) \in Budget(GuestLimit)
      /\ Spent(joins, now, JoinLimit) \in Budget(JoinLimit)
      /\ Spent(failedAuth, now, AuthLimit) \in Budget(AuthLimit)
  BY <1>t, SpentType
<1>z. ZeroHash \in Bearer
  BY DEF Bearer
<1>e. USE DEF Endpoint, Status
<1>k. /\ <<>> \in Seq(Kind)
      /\ \A kind \in Kind : <<kind>> \in Seq(Kind)
  OBVIOUS
<1>l. \A kinds \in Seq(Kind) : \A log \in Logged(kinds) :
         log \in Seq(Kind) /\ Len(log) <= ServerLog
  BY LoggedType
<1>i. ASSUME NEW bearer \in Bearer, NEW op \in Endpoint, IssueRoom(bearer, op)
      PROVE  /\ events' \in Seq(Kind) /\ Len(events') <= ServerLog
             /\ reply' \in [bearer : Bearer, op : Endpoint, status : Status]
  <2>1. <<>> \in Seq(Kind) /\ <<"invitation_created">> \in Seq(Kind)
    BY DEF Kind
  <2>2. CASE Served(Pruned, <<>>, bearer, op, "pilot_capacity")
    BY <2>1, <2>2, <1>l DEF Served, Replied
  <2>3. ASSUME NEW table, Served(table, <<"invitation_created">>, bearer, op, "ok")
        PROVE  /\ events' \in Seq(Kind) /\ Len(events') <= ServerLog
               /\ reply' \in [bearer : Bearer, op : Endpoint, status : Status]
    BY <2>1, <2>3, <1>l DEF Served, Replied
  <2> QED
    BY <1>i, <2>2, <2>3 DEF IssueRoom
<1>1. ASSUME Unrouted
      PROVE  Roomwise /\ Booked
  <2>1. /\ now' = now /\ rooms' = SweptRooms
        /\ events' \in Seq(Kind) /\ Len(events') <= ServerLog
        /\ reply' \in [bearer : Bearer, op : Endpoint, status : Status]
    BY <1>1, <1>k, <1>l, <1>z DEF Unrouted, Served, Replied
  <2> QED
    BY <1>1, <2>1, <1>t, SweepOnlyIsRoomwise DEF Unrouted, Booked
<1>2. ASSUME NEW bearer \in Bearer, Security(bearer)
      PROVE  Roomwise /\ Booked
  <2>1. /\ now' = now /\ rooms' = SweptRooms
        /\ events' \in Seq(Kind) /\ Len(events') <= ServerLog
        /\ reply' \in [bearer : Bearer, op : Endpoint, status : Status]
    BY <1>2, <1>k, <1>l DEF Security, Served, Replied
  <2> QED
    BY <1>2, <2>1, <1>t, SweepOnlyIsRoomwise DEF Security, Booked
<1>3. ASSUME NEW bearer \in Bearer, NEW op \in Endpoint, FailedAuth(bearer, op)
      PROVE  Roomwise /\ Booked
  <2>1. <<"authentication_rejected">> \in Seq(Kind)
    BY DEF Kind
  <2>2. /\ now' = now /\ rooms' = SweptRooms
        /\ events' \in Seq(Kind) /\ Len(events') <= ServerLog
        /\ reply' \in [bearer : Bearer, op : Endpoint, status : Status]
    <3>1. CASE Served(SweptRooms, <<"authentication_rejected">>, bearer, op, "unauthorized")
      BY <2>1, <3>1, <1>l DEF Served, Replied
    <3>2. CASE Served(SweptRooms, <<>>, bearer, op, "authentication_rate_limited")
      BY <3>2, <1>k, <1>l DEF Served, Replied
    <3> QED
      BY <1>3, <3>1, <3>2 DEF FailedAuth
  <2> QED
    BY <1>3, <2>2, <1>t, <1>b, SweepOnlyIsRoomwise DEF FailedAuth, Booked
<1>4. ASSUME NEW bearer \in Bearer, Create(bearer)
      PROVE  Roomwise /\ Booked
  BY <1>4, <1>t, <1>i, IssueRoomIsRoomwise DEF Create, Booked
<1>5. ASSUME NEW wellFormed \in BOOLEAN, CreateGuest(wellFormed)
      PROVE  Roomwise /\ Booked
  <2>1. guests' \in Budget(GuestLimit)
    BY <1>5, <1>t, <1>b DEF CreateGuest
  <2>2. CASE IssueRoom(ZeroHash, "create-guest")
    BY <1>5, <2>1, <2>2, <1>t, <1>z, <1>i, IssueRoomIsRoomwise DEF CreateGuest, Booked
  <2>3. ASSUME NEW status \in Status, Served(SweptRooms, <<>>, ZeroHash, "create-guest", status)
        PROVE  Roomwise /\ Booked
    <3>1. /\ now' = now /\ rooms' = SweptRooms
          /\ events' \in Seq(Kind) /\ Len(events') <= ServerLog
          /\ reply' \in [bearer : Bearer, op : Endpoint, status : Status]
      BY <2>3, <1>k, <1>l, <1>z DEF Served, Replied
    <3> QED
      BY <1>5, <2>1, <3>1, <1>t, SweepOnlyIsRoomwise DEF CreateGuest, Booked
  <2> QED
    BY <1>5, <2>2, <2>3 DEF CreateGuest
<1>6. ASSUME NEW invite \in Invite, NEW name \in Name, NEW wellFormed \in BOOLEAN,
             Join(invite, name, wellFormed)
      PROVE  Roomwise /\ Booked
  <2>1. joins' \in Budget(JoinLimit) /\ authority' = authority
        /\ guests' = guests /\ failedAuth' = failedAuth
    BY <1>6, <1>b DEF Join
  <2>2. <<"invitation_rejected">> \in Seq(Kind) /\ <<"viewer_joined">> \in Seq(Kind)
    BY DEF Kind
  <2>3. ASSUME NEW kinds \in Seq(Kind), NEW status \in Status,
               Served(SweptRooms, kinds, ZeroHash, "join", status)
        PROVE  Roomwise /\ Booked
    <3>1. /\ now' = now /\ rooms' = SweptRooms
          /\ events' \in Seq(Kind) /\ Len(events') <= ServerLog
          /\ reply' \in [bearer : Bearer, op : Endpoint, status : Status]
      BY <2>3, <1>l, <1>z DEF Served, Replied
    <3> QED
      BY <2>1, <3>1, <1>t, SweepOnlyIsRoomwise DEF Booked
  <2>4. ASSUME NEW r \in RoomId, Matches(invite, r),
               Served([SweptRooms EXCEPT ![r] = Joined(@, r, name)], <<"viewer_joined">>,
                      ZeroHash, "join", "ok")
        PROVE  Roomwise /\ Booked
    <3>1. /\ now' = now
          /\ rooms' = [SweptRooms EXCEPT ![r] = Joined(Swept(rooms[r]), r, name)]
          /\ events' \in Seq(Kind) /\ Len(events') <= ServerLog
          /\ reply' \in [bearer : Bearer, op : Endpoint, status : Status]
      BY <2>2, <2>4, <1>l, <1>z DEF SweptRooms, Served, Replied
    <3>2. RoomStep(r, rooms[r], Joined(Swept(rooms[r]), r, name))
      BY <2>4 DEF RoomStep, Matches
    <3> QED
      BY <2>1, <3>1, <3>2, <1>t, OneRoomIsRoomwise DEF Booked
  <2> QED
    BY <1>6, <1>k, <2>2, <2>3, <2>4 DEF Join
<1>7. ASSUME Authorized
      PROVE  Roomwise /\ Booked
  <2>1. PICK bearer \in Bearer, r \in RoomId, role \in Role : Authorized!(bearer, r, role)
    BY <1>7 DEF Authorized
  <2>2. Live(Swept(rooms[r])) /\ (role = "viewer" => Swept(rooms[r]).viewer # ZeroHash)
    BY <2>1 DEF Holds, Role
  <2>3. ASSUME NEW op \in Endpoint, NEW room, NEW kinds \in Seq(Kind),
               Answered(bearer, op, r, room, kinds), RoomStep(r, rooms[r], room)
        PROVE  Roomwise /\ Booked
    <3>1. /\ now' = now /\ rooms' = [SweptRooms EXCEPT ![r] = room]
          /\ events' \in Seq(Kind) /\ Len(events') <= ServerLog
          /\ reply' \in [bearer : Bearer, op : Endpoint, status : Status]
      BY <2>3, <1>l DEF Answered, Served, Replied
    <3> QED
      BY <2>3, <3>1, <1>t, OneRoomIsRoomwise DEF Answered, Booked
  <2>4. ASSUME NEW op \in Endpoint, NEW status \in Status, Refused(bearer, op, r, role, status)
        PROVE  Roomwise /\ Booked
    <3>1. /\ now' = now
          /\ rooms' = [SweptRooms EXCEPT ![r] = Seen(Swept(rooms[r]), role)]
          /\ events' \in Seq(Kind) /\ Len(events') <= ServerLog
          /\ reply' \in [bearer : Bearer, op : Endpoint, status : Status]
      BY <2>4, <1>k, <1>l DEF Refused, SweptRooms, Served, Replied
    <3>2. RoomStep(r, rooms[r], Seen(Swept(rooms[r]), role))
      BY <2>2 DEF RoomStep, Touches
    <3> QED
      BY <2>4, <3>1, <3>2, <1>t, OneRoomIsRoomwise DEF Refused, Booked
  <2>5. {"session_ended", "host_accepted", "session_active"} \subseteq Kind
    BY DEF Kind
  <2>6. CASE GetRoom(bearer, r, role)
    BY <2>2, <2>3, <2>6, <1>k DEF GetRoom, RoomStep, Touches
  <2>7. CASE End(bearer, r, role)
    BY <2>2, <2>3, <2>5, <2>7, <1>k DEF End, RoomStep, Touches
  <2>8. CASE Accept(bearer, r, role)
    BY <2>2, <2>3, <2>4, <2>5, <2>8, <1>k DEF Accept, RoomStep, Touches
  <2>9. CASE Malformed(bearer, r, role)
    BY <2>4, <2>9 DEF Malformed
  <2>v. ASSUME NEW can \in BOOLEAN, NEW op, NEW type, NEW print
        PROVE  /\ SdpVerdict(can, op, type, print) \in Status
               /\ SdpVerdict(can, op, type, print) = "ok" => can /\ print # NoFingerprint
    BY DEF SdpVerdict, Status
  <2>10. ASSUME NEW type \in SdpType, NEW print \in Fingerprint \cup {NoFingerprint},
                Offer(bearer, r, role, type, print)
         PROVE  Roomwise /\ Booked
    <3> DEFINE verdict == SdpVerdict(CanOffer(Swept(rooms[r]), role), "offer", type, print)
    <3>1. verdict \in Status /\ (verdict = "ok" =>
                CanOffer(Swept(rooms[r]), role) /\ print \in Fingerprint)
      BY <2>v DEF CanOffer
    <3>2. CASE verdict = "ok"
      BY <2>2, <2>3, <2>10, <3>1, <3>2, <1>k DEF Offer, RoomStep, Touches
    <3>3. CASE verdict # "ok"
      BY <2>4, <2>10, <3>1, <3>3 DEF Offer
    <3> QED
      BY <3>2, <3>3
  <2>11. ASSUME NEW type \in SdpType, NEW print \in Fingerprint \cup {NoFingerprint},
                Answer(bearer, r, role, type, print)
         PROVE  Roomwise /\ Booked
    <3> DEFINE verdict == SdpVerdict(CanAnswer(Swept(rooms[r]), role), "answer", type, print)
    <3>1. verdict \in Status /\ (verdict = "ok" =>
                CanAnswer(Swept(rooms[r]), role) /\ print \in Fingerprint)
      BY <2>v DEF CanAnswer
    <3>2. CASE verdict = "ok"
      BY <2>2, <2>3, <2>5, <2>11, <3>1, <3>2, <1>k DEF Answer, RoomStep, Touches
    <3>3. CASE verdict # "ok"
      BY <2>4, <2>11, <3>1, <3>3 DEF Answer
    <3> QED
      BY <3>2, <3>3
  <2> QED
    BY <2>1, <2>6, <2>7, <2>8, <2>9, <2>10, <2>11
<1> QED
  BY <1>1, <1>2, <1>3, <1>4, <1>5, <1>6, <1>7 DEF Next

------------------------------------------------------------------------------
(* Type correctness *)

\* The initial state has its type.
LEMMA InitType == Init => TypeOK
<1> SUFFICES ASSUME Init PROVE TypeOK
  OBVIOUS
<1> USE LimitAssumption
<1>1. rooms \in [RoomId -> Room]
  BY AbsentType DEF Init
<1>2. Untouched \in Budget(GuestLimit) /\ Untouched \in Budget(JoinLimit)
        /\ Untouched \in Budget(AuthLimit)
  BY DEF Untouched, Budget, Never
<1>3. NoReply \in [bearer : Bearer, op : Endpoint, status : Status]
  BY DEF NoReply, Bearer, Endpoint, Status
<1>4. now \in 1 .. MaxTime /\ authority \in [RoomId -> Nat]
  BY DEF Init
<1>5. events \in Seq(Kind) /\ Len(events) <= ServerLog
  BY DEF Init
<1> QED
  BY <1>1, <1>2, <1>3, <1>4, <1>5 DEF Init, TypeOK

\* Every step keeps every variable in its type.
LEMMA NextType == TypeOK /\ [Next]_vars => TypeOK'
<1> SUFFICES ASSUME TypeOK, [Next]_vars PROVE TypeOK'
  OBVIOUS
<1> USE LimitAssumption, DurationAssumption
<1>1. CASE UNCHANGED vars
  BY <1>1 DEF vars, TypeOK
<1>2. CASE Tick
  <2>1. NoReply \in [bearer : Bearer, op : Endpoint, status : Status]
    BY DEF NoReply, Bearer, Endpoint, Status
  <2> QED
    BY <1>2, <2>1 DEF Tick, TypeOK
<1>3. CASE Next /\ ~Tick
  <2>1. Roomwise /\ Booked
    BY <1>3, RequestIsRoomwise
  <2>2. now' \in 1 .. MaxTime /\ now' = now /\ now \in Nat
    BY <2>1 DEF Roomwise, TypeOK
  <2>3. \A r \in RoomId : rooms'[r] \in Room
    <3> TAKE r \in RoomId
    <3>1. rooms[r] \in Room /\ RoomStep(r, rooms[r], rooms'[r])
      BY <2>1 DEF Roomwise, TypeOK
    <3> QED
      BY <2>2, <3>1, RoomStepType
  <2>4. rooms' \in [RoomId -> Room]
    BY <2>1, <2>3 DEF Roomwise
  <2>5. \A r \in RoomId : authority'[r] \in Nat
    <3> TAKE r \in RoomId
    <3>1. authority[r] \in Nat /\ rooms'[r].expires \in Nat
      BY <2>3 DEF TypeOK, Room
    <3>2. Snapshot(rooms'[r], authority[r])
             \in {authority[r], now + GrantLife, rooms'[r].expires}
      BY DEF Snapshot, Earlier
    <3> QED
      BY <2>1, <2>2, <3>1, <3>2 DEF Roomwise, AuthorityStep
  <2>6. authority' \in [RoomId -> Nat]
    BY <2>1, <2>5 DEF Roomwise
  <2> QED
    BY <2>1, <2>2, <2>4, <2>6 DEF Booked, TypeOK
<1> QED
  BY <1>1, <1>2, <1>3

\* The type invariant: rooms, budgets, rings, replies and the clock keep their
\* types, and the rings and budgets their limits, in every reachable state.
THEOREM TypeCorrect == Spec => []TypeOK
BY InitType, NextType, PTL DEF Spec

------------------------------------------------------------------------------
(* The life of one room *)

\* The strengthening under which the room invariants are inductive: a room's
\* hashes, descriptions, heartbeats and trail move together.
RoomInv(r, room) ==
    /\ Consistent(r, room)
    /\ room.events \in Trails(room.state)
    /\ Live(room) => room.hostSeen # Never

\* Appending an event to a log.
LEMMA AppendKind ==
    ASSUME NEW s \in Seq(Kind), NEW kind \in Kind
    PROVE  Append(s, kind) \in Seq(Kind) /\ Len(Append(s, kind)) = Len(s) + 1
BY AppendProperties

\* Trails are short, so no event is ever pushed out of one.
LEMMA TrailsAreShort ==
    /\ Invited \in Seq(Kind) /\ Len(Invited) = 1
    /\ Entered \in Seq(Kind) /\ Len(Entered) = 2
    /\ Accepted \in Seq(Kind) /\ Len(Accepted) = 3
    /\ Connected \in Seq(Kind) /\ Len(Connected) = 4
<1>1. Invited \in Seq(Kind) /\ Len(Invited) = 1
  BY DEF Invited, Kind
<1>2. "viewer_joined" \in Kind /\ "host_accepted" \in Kind /\ "session_active" \in Kind
  BY DEF Kind
<1>3. Entered \in Seq(Kind) /\ Len(Entered) = 2
  <2>1. Append(Invited, "viewer_joined") \in Seq(Kind)
           /\ Len(Append(Invited, "viewer_joined")) = Len(Invited) + 1
    BY <1>1, <1>2, AppendKind
  <2> QED
    BY <1>1, <2>1 DEF Entered
<1>4. Accepted \in Seq(Kind) /\ Len(Accepted) = 3
  <2>1. Append(Entered, "host_accepted") \in Seq(Kind)
           /\ Len(Append(Entered, "host_accepted")) = Len(Entered) + 1
    BY <1>3, <1>2, AppendKind
  <2> QED
    BY <1>3, <2>1 DEF Accepted
<1>5. Connected \in Seq(Kind) /\ Len(Connected) = 4
  <2>1. Append(Accepted, "session_active") \in Seq(Kind)
           /\ Len(Append(Accepted, "session_active")) = Len(Accepted) + 1
    BY <1>4, <1>2, AppendKind
  <2> QED
    BY <1>4, <2>1 DEF Connected
<1> QED
  BY <1>1, <1>3, <1>4, <1>5

\* The log of a room that has not ended has space for one more event.
LEMMA OpenHasSpace ==
    ASSUME NEW room \in Room, room.events \in Trails(room.state), room.state # "ended"
    PROVE  Len(room.events) < RoomLog
<1>1. room.events \in {Invited, Entered, Accepted, Connected, <<>>}
  BY DEF Trails
<1>2. Len(room.events) \in 0 .. 4
  BY <1>1, TrailsAreShort
<1>3. RoomLog \in Nat /\ RoomLog >= 5
  BY LimitAssumption
<1>4. ASSUME NEW n \in 0 .. 4
      PROVE  n < RoomLog
  BY <1>3
<1> QED
  BY <1>2, <1>4

\* Recording in such a room appends to its trail and changes nothing else.
LEMMA RecordedTrail ==
    ASSUME NEW room \in Room, NEW kind \in Kind, NEW state \in State,
           room.events \in Trails(state), state # "ended"
    PROVE  Recorded(room, kind) = [room EXCEPT !.events = Append(room.events, kind)]
<1>1. [room EXCEPT !.state = state] \in Room
  BY DEF Room
<1>2. Len(room.events) < RoomLog
  BY <1>1, OpenHasSpace DEF Room
<1> QED
  BY <1>2, RecordedType

\* Ending a room records why, after the trail that led there.
LEMMA EndedRoomInv ==
    ASSUME NEW r \in RoomId, NEW room \in Room, RoomInv(r, room), Live(room),
           NEW reason \in {"session_ended", "heartbeat_lost", "invitation_expired"},
           reason = "invitation_expired" => room.state = "waiting"
    PROVE  RoomInv(r, EndedRoom(room, reason))
<1>1. CASE room.state = "ended"
  BY <1>1 DEF EndedRoom
<1>2. CASE room.state # "ended"
  <2> DEFINE cleared == [room EXCEPT !.state = "ended", !.offer = NoFingerprint,
                                     !.answer = NoFingerprint, !.invite = ZeroHash]
             ended == EndedRoom(room, reason)
  <2>1. cleared \in Room /\ cleared.events = room.events
    BY DEF Room, State
  <2>2. reason \in Kind /\ room.state \in State
    BY DEF Kind, Room
  <2>3. ended = [cleared EXCEPT !.events = Append(room.events, reason)]
    <3>1. Recorded(cleared, reason) = [cleared EXCEPT !.events = Append(cleared.events, reason)]
      BY <1>2, <2>1, <2>2, RecordedTrail DEF RoomInv
    <3> QED
      BY <1>2, <2>1, <3>1 DEF EndedRoom
  <2>4. /\ ended.state = "ended" /\ ended.offer = NoFingerprint
        /\ ended.answer = NoFingerprint /\ ended.invite = ZeroHash
        /\ ended.viewer = room.viewer /\ ended.name = room.name
        /\ ended.viewerSeen = room.viewerSeen /\ ended.hostSeen = room.hostSeen
        /\ ended.events = Append(room.events, reason)
    BY <2>3 DEF Room
  <2>5. Append(room.events, reason) \in EndedTrails
    <3>1. room.events \in {Invited, Entered, Accepted, Connected}
      BY <1>2 DEF RoomInv, Trails, Live, Room, State
    <3>2. reason = "invitation_expired" => room.events = Invited
      BY DEF RoomInv, Trails
    <3>3. CASE reason = "invitation_expired"
      BY <3>2, <3>3 DEF EndedTrails
    <3>4. CASE reason \in {"session_ended", "heartbeat_lost"}
      BY <3>1, <3>4 DEF EndedTrails, OpenTrails
    <3> QED
      BY <3>3, <3>4
  <2>6. Consistent(r, ended)
    <3>1. Live(ended) /\ InviteToken(r) # ZeroHash
      BY <2>4 DEF Live, InviteToken, ZeroHash
    <3> HIDE DEF ended
    <3> QED
      BY <2>4, <3>1 DEF RoomInv, Consistent
  <2> QED
    BY <2>4, <2>5, <2>6 DEF RoomInv, Trails
<1> QED
  BY <1>1, <1>2

\* Absent rooms satisfy the invariant.
LEMMA AbsentInv ==
    ASSUME NEW r \in RoomId, NEW state \in {"free", "gone"}
    PROVE  RoomInv(r, Absent(state))
<1>1. InviteToken(r) # ZeroHash
  BY DEF InviteToken, ZeroHash
<1>2. Absent(state).events \in Trails(Absent(state).state)
  BY DEF Absent, Trails
<1>3. Consistent(r, Absent(state))
  BY <1>1 DEF Consistent, Absent, Live
<1> QED
  BY <1>2, <1>3 DEF RoomInv, Absent, Live

\* The sweep preserves the room invariant.
LEMMA SweptInv ==
    ASSUME NEW r \in RoomId, NEW room \in Room, RoomInv(r, room)
    PROVE  RoomInv(r, Swept(room))
<1>1. CASE SweepReason(room) = "session_expired"
  BY <1>1, AbsentInv DEF Swept
<1>2. CASE SweepReason(room) = "none"
  BY <1>2 DEF Swept
<1>3. CASE SweepReason(room) \in {"invitation_expired", "heartbeat_lost"}
  <2>1. Live(room) /\ (SweepReason(room) = "invitation_expired" => room.state = "waiting")
    BY <1>3 DEF SweepReason, InviteLapsed, HeartbeatLost, Open, Live
  <2>2. RoomInv(r, EndedRoom(room, SweepReason(room)))
    BY <1>3, <2>1, EndedRoomInv
  <2> QED
    BY <1>3, <2>2 DEF Swept
<1> QED
  BY <1>1, <1>2, <1>3, SweptType

\* So does forgetting the ended ones.
LEMMA PrunedInv ==
    ASSUME NEW r \in RoomId, NEW room \in Room, RoomInv(r, room)
    PROVE  RoomInv(r, Prune(room))
BY AbsentInv DEF Prune

\* A new room's only secret is its invitation.
LEMMA NewRoomInv ==
    ASSUME NEW r \in RoomId, now \in Nat \ {0}
    PROVE  RoomInv(r, NewRoom(r))
<1> DEFINE room == NewRoom(r)
<1>1. NewRoom(r) = [Absent("waiting") EXCEPT !.invite = InviteToken(r),
                                        !.expires = now + RoomLife,
                                        !.inviteExpires = now + InviteLife,
                                        !.hostSeen = now,
                                        !.events = Invited]
  <2>1. Newest(Append(<<>>, "invitation_created"), RoomLog) = Invited
    BY LimitAssumption DEF Newest, Invited
  <2> QED
    BY <2>1 DEF NewRoom, Recorded, Absent
<1>2. /\ room.state = "waiting" /\ room.invite = InviteToken(r) /\ room.viewer = ZeroHash
      /\ room.name = NoName /\ room.offer = NoFingerprint /\ room.answer = NoFingerprint
      /\ room.viewerSeen = Never /\ room.hostSeen = now /\ room.events = Invited
  BY <1>1 DEF Absent
<1>3. Live(room) /\ InviteToken(r) # ZeroHash
  BY <1>2 DEF Live, InviteToken, ZeroHash
<1> HIDE DEF room
<1>4. Consistent(r, room)
  BY <1>2, <1>3 DEF Consistent
<1>5. room.events \in Trails(room.state)
  BY <1>2 DEF Trails
<1> QED
  BY <1>2, <1>4, <1>5 DEF RoomInv, room, Never

\* Joining trades the invitation for a viewer.
LEMMA JoinedInv ==
    ASSUME NEW r \in RoomId, NEW old \in Room, NEW name \in Name, now \in Nat \ {0},
           RoomInv(r, old), old.state = "waiting"
    PROVE  RoomInv(r, Joined(old, r, name))
<1> DEFINE entered == [old EXCEPT !.viewer = ViewerToken(r), !.invite = ZeroHash,
                                  !.name = name, !.state = "awaiting_consent",
                                  !.viewerSeen = now]
           room == Joined(old, r, name)
<1>1. entered \in Room
  BY DEF Room, State
<1>2. entered.events = Invited /\ Invited \in Trails("waiting") /\ "waiting" \in State
        /\ "viewer_joined" \in Kind
  BY DEF RoomInv, Trails, State, Room, Kind
<1>3. room = [entered EXCEPT !.events = Append(entered.events, "viewer_joined")]
  BY <1>1, <1>2, RecordedTrail DEF Joined
<1>4. /\ room.state = "awaiting_consent" /\ room.invite = ZeroHash
      /\ room.viewer = ViewerToken(r) /\ room.name = name /\ room.viewerSeen = now
      /\ room.hostSeen = old.hostSeen
      /\ room.offer = old.offer /\ room.answer = old.answer /\ room.events = Entered
  BY <1>2, <1>3 DEF Room, Entered
<1>5. /\ Live(room) /\ InviteToken(r) # ZeroHash /\ ViewerToken(r) # ZeroHash
      /\ name # NoName /\ now # Never
  BY <1>4, SentinelAssumption DEF Live, InviteToken, ViewerToken, ZeroHash, Never
<1> HIDE DEF room
<1>6. Consistent(r, room)
  BY <1>4, <1>5 DEF Consistent, RoomInv
<1>7. room.events \in Trails(room.state)
  BY <1>4 DEF Trails
<1>8. room.hostSeen # Never
  BY <1>4 DEF RoomInv, Live
<1> QED
  BY <1>6, <1>7, <1>8 DEF RoomInv, room

\* A holder's request preserves the room invariant: it is a heartbeat, an end,
\* or one of the three steps of the negotiation in its turn.
LEMMA TouchedInv ==
    ASSUME NEW r \in RoomId, NEW old \in Room, NEW role \in Role, now \in Nat \ {0},
           RoomInv(r, old), Live(old), role = "viewer" => old.viewer # ZeroHash
    PROVE  RoomInv(r, Seen(old, role)) /\ Live(Seen(old, role)) /\ Seen(old, role) \in Room
<1> DEFINE room == Seen(old, role)
<1>1. room \in Room
  BY DEF Seen, Room
<1>2. /\ room.state = old.state /\ room.invite = old.invite /\ room.viewer = old.viewer
      /\ room.name = old.name /\ room.offer = old.offer /\ room.answer = old.answer
      /\ room.events = old.events
  BY DEF Seen, Room
<1>3. room.viewerSeen # Never <=> old.viewerSeen # Never
  <2>1. CASE role = "host"
    BY <2>1 DEF Seen, Room
  <2>2. CASE role = "viewer"
    <3>1. room.viewerSeen = now /\ now # Never
      BY <2>2 DEF Seen, Room, Never
    <3>2. old.viewerSeen # Never
      BY <2>2 DEF RoomInv, Consistent
    <3> QED
      BY <3>1, <3>2
  <2> QED
    BY <2>1, <2>2 DEF Role
<1>4. Live(room) /\ room.hostSeen # Never
  BY <1>2 DEF Live, Seen, Room, RoomInv, Never
<1> HIDE DEF room
<1>5. Consistent(r, room)
  BY <1>2, <1>3, <1>4 DEF Consistent, RoomInv
<1> QED
  BY <1>1, <1>2, <1>4, <1>5 DEF RoomInv, room

\* Consent, the offer and the answer, each in its turn.
LEMMA NegotiatedInv ==
    ASSUME NEW r \in RoomId, NEW room \in Room, NEW role \in Role, RoomInv(r, room)
    PROVE  /\ CanAccept(room, role) =>
                 RoomInv(r, Recorded([room EXCEPT !.state = "negotiating"], "host_accepted"))
           /\ \A print \in Fingerprint :
                 /\ CanOffer(room, role) => RoomInv(r, [room EXCEPT !.offer = print])
                 /\ CanAnswer(room, role) =>
                       RoomInv(r, Recorded([room EXCEPT !.answer = print, !.state = "active"],
                                           "session_active"))
<1>1. InviteToken(r) # ZeroHash /\ {"host_accepted", "session_active"} \subseteq Kind
        /\ {"awaiting_consent", "negotiating"} \subseteq State
  BY DEF InviteToken, ZeroHash, Kind, State
<1>2. ASSUME CanAccept(room, role)
      PROVE  RoomInv(r, Recorded([room EXCEPT !.state = "negotiating"], "host_accepted"))
  <2> DEFINE accepted == [room EXCEPT !.state = "negotiating"]
             new == Recorded(accepted, "host_accepted")
  <2>1. accepted \in Room /\ room.state = "awaiting_consent"
    BY <1>2 DEF Room, State, CanAccept
  <2>2. accepted.events = Entered /\ Entered \in Trails("awaiting_consent")
    BY <2>1 DEF RoomInv, Trails, Room
  <2>3. new = [accepted EXCEPT !.events = Append(accepted.events, "host_accepted")]
    BY <1>1, <2>1, <2>2, RecordedTrail
  <2>4. /\ new.state = "negotiating" /\ new.invite = room.invite /\ new.viewer = room.viewer
        /\ new.name = room.name /\ new.offer = room.offer /\ new.answer = room.answer
        /\ new.viewerSeen = room.viewerSeen /\ new.hostSeen = room.hostSeen
        /\ new.events = Accepted
    BY <2>2, <2>3 DEF Room, Accepted
  <2> HIDE DEF new
  <2>5. Consistent(r, new)
    BY <1>1, <2>1, <2>4 DEF Consistent, RoomInv, Live
  <2>6. new.events \in Trails(new.state)
    BY <2>4 DEF Trails
  <2> QED
    BY <2>1, <2>4, <2>5, <2>6 DEF RoomInv, Live, new
<1>3. ASSUME NEW print \in Fingerprint, CanOffer(room, role)
      PROVE  RoomInv(r, [room EXCEPT !.offer = print])
  <2> DEFINE new == [room EXCEPT !.offer = print]
  <2>1. /\ new.state = room.state /\ new.invite = room.invite /\ new.viewer = room.viewer
        /\ new.name = room.name /\ new.offer = print /\ new.answer = room.answer
        /\ new.viewerSeen = room.viewerSeen /\ new.hostSeen = room.hostSeen
        /\ new.events = room.events
        /\ room.state = "negotiating"
    BY <1>3 DEF Room, CanOffer
  <2> HIDE DEF new
  <2>2. Consistent(r, new)
    BY <2>1 DEF Consistent, RoomInv, Live
  <2> QED
    BY <2>1, <2>2 DEF RoomInv, Live, new
<1>4. ASSUME NEW print \in Fingerprint, CanAnswer(room, role)
      PROVE  RoomInv(r, Recorded([room EXCEPT !.answer = print, !.state = "active"],
                                 "session_active"))
  <2> DEFINE answered == [room EXCEPT !.answer = print, !.state = "active"]
             new == Recorded(answered, "session_active")
  <2>1. answered \in Room /\ room.state = "negotiating" /\ room.offer # NoFingerprint
    BY <1>4 DEF Room, State, CanAnswer
  <2>2. answered.events = Accepted /\ Accepted \in Trails("negotiating")
    BY <2>1 DEF RoomInv, Trails, Room
  <2>3. new = [answered EXCEPT !.events = Append(answered.events, "session_active")]
    BY <1>1, <2>1, <2>2, RecordedTrail
  <2>4. /\ new.state = "active" /\ new.invite = room.invite /\ new.viewer = room.viewer
        /\ new.name = room.name /\ new.offer = room.offer /\ new.answer = print
        /\ new.viewerSeen = room.viewerSeen /\ new.hostSeen = room.hostSeen
        /\ new.events = Connected
        /\ print # NoFingerprint
    BY <2>2, <2>3, SentinelAssumption DEF Room, Connected
  <2> HIDE DEF new
  <2>5. Consistent(r, new)
    BY <1>1, <2>1, <2>4 DEF Consistent, RoomInv, Live
  <2>6. new.events \in Trails(new.state)
    BY <2>4 DEF Trails
  <2> QED
    BY <2>1, <2>4, <2>5, <2>6 DEF RoomInv, Live, new
<1> QED
  BY <1>2, <1>3, <1>4

\* Every step a room can take preserves its invariant.
LEMMA RoomStepInv ==
    ASSUME NEW r \in RoomId, NEW old \in Room, NEW new, now \in Nat \ {0},
           RoomInv(r, old), RoomStep(r, old, new)
    PROVE  RoomInv(r, new)
<1>1. Swept(old) \in Room /\ RoomInv(r, Swept(old))
  BY SweptType, SweptInv
<1>2. CASE new = Swept(old)
  BY <1>1, <1>2
<1>3. CASE new = Prune(Swept(old))
  BY <1>1, <1>3, PrunedInv
<1>4. CASE new = NewRoom(r)
  BY <1>4, NewRoomInv
<1>5. ASSUME NEW name \in Name, Swept(old).state = "waiting", new = Joined(Swept(old), r, name)
      PROVE  RoomInv(r, new)
  BY <1>1, <1>5, JoinedInv
<1>6. CASE Touches(old, new)
  <2>1. PICK role \in Role : Touches(old, new)!(role)
    BY <1>6 DEF Touches
  <2> DEFINE seen == Seen(Swept(old), role)
  <2>2. RoomInv(r, seen) /\ Live(seen) /\ seen \in Room
    BY <1>1, <2>1, TouchedInv
  <2>3. /\ CanAccept(Swept(old), role) <=> CanAccept(seen, role)
        /\ CanOffer(Swept(old), role) <=> CanOffer(seen, role)
        /\ CanAnswer(Swept(old), role) <=> CanAnswer(seen, role)
    BY <1>1 DEF CanAccept, CanOffer, CanAnswer, Seen, Room
  <2> HIDE DEF seen
  <2>4. RoomInv(r, EndedRoom(seen, "session_ended"))
    BY <2>2, EndedRoomInv
  <2> QED
    BY <2>1, <2>2, <2>3, <2>4, NegotiatedInv DEF seen
<1> QED
  BY <1>2, <1>3, <1>4, <1>5, <1>6 DEF RoomStep

RoomsInv == \A r \in RoomId : RoomInv(r, rooms[r])

\* The room invariant holds in every reachable state.
LEMMA RoomsInvariant == Spec => []RoomsInv
<1>1. Init => RoomsInv
  BY AbsentInv DEF Init, RoomsInv
<1>2. TypeOK /\ RoomsInv /\ [Next]_vars => RoomsInv'
  <2> SUFFICES ASSUME TypeOK, RoomsInv, [Next]_vars, NEW r \in RoomId
               PROVE  RoomInv(r, rooms'[r])
    BY DEF RoomsInv
  <2>1. rooms[r] \in Room /\ RoomInv(r, rooms[r]) /\ now \in Nat \ {0}
    BY DEF TypeOK, RoomsInv
  <2>2. CASE UNCHANGED vars \/ Tick
    BY <2>1, <2>2 DEF vars, Tick
  <2>3. CASE Next /\ ~Tick
    BY <2>1, <2>3, RequestIsRoomwise, RoomStepInv DEF Roomwise
  <2> QED
    BY <2>2, <2>3
<1> QED
  BY <1>1, <1>2, TypeCorrect, PTL DEF Spec

\* Secrets, descriptions and state of every room always agree: the invitation
\* opens a room exactly while it waits, an active room has both descriptions.
THEOREM RoomsStayConsistent == Spec => []RoomsConsistent
<1>1. RoomsInv => RoomsConsistent
  BY DEF RoomsInv, RoomInv, RoomsConsistent
<1> QED
  BY <1>1, RoomsInvariant, PTL

\* The security events shown for a room are always a history that leads to its
\* state, and none is ever pushed out of its log.
THEOREM EventsAreFaithful == Spec => []EventsTellTheStory
<1>1. RoomsInv => EventsTellTheStory
  BY DEF RoomsInv, RoomInv, EventsTellTheStory
<1> QED
  BY <1>1, RoomsInvariant, PTL

------------------------------------------------------------------------------
(* A request is one step of each room's life *)

SameDescriptions(old, new) == new.offer = old.offer /\ new.answer = old.answer

EndEdge(old, new) ==
    /\ old.state \notin {"free", "ended", "gone"} /\ new.state = "ended"
    /\ new.offer = NoFingerprint /\ new.answer = NoFingerprint /\ new.name = old.name
    /\ \E why \in Kind : new.events = Append(old.events, why)

ForgetEdge(old, new) ==
    /\ old.state \notin {"free", "gone"} /\ new.state = "gone"
    /\ new.name = NoName /\ new.offer = NoFingerprint /\ new.answer = NoFingerprint

RestEdge(old, new) ==
    /\ new.state = old.state /\ new.name = old.name /\ SameDescriptions(old, new)
    /\ new.events = old.events

\* The steps of a room's life, with its log.
Edge(old, new) ==
    \/ /\ old.state = "free" /\ new.state = "waiting"
       /\ new.name = old.name /\ SameDescriptions(old, new)
    \/ /\ old.state = "waiting" /\ new.state = "awaiting_consent"
       /\ new.name \in Name /\ SameDescriptions(old, new)
    \/ /\ old.state = "awaiting_consent" /\ new.state = "negotiating"
       /\ new.name = old.name /\ SameDescriptions(old, new)
    \/ /\ old.state = "negotiating" /\ new.state = "negotiating"
       /\ old.offer = NoFingerprint /\ new.offer \in Fingerprint
       /\ new.answer = old.answer /\ new.name = old.name
    \/ /\ old.state = "negotiating" /\ new.state = "active"
       /\ old.offer # NoFingerprint /\ old.answer = NoFingerprint /\ new.answer \in Fingerprint
       /\ new.offer = old.offer /\ new.name = old.name
    \/ EndEdge(old, new)
    \/ ForgetEdge(old, new)
    \/ RestEdge(old, new)

\* Recording an event changes the log alone, and appends to a trail.
LEMMA RecordedFields ==
    ASSUME NEW room \in Room, NEW kind \in Kind
    PROVE  LET new == Recorded(room, kind) IN
           /\ new.state = room.state /\ new.name = room.name
           /\ SameDescriptions(room, new) /\ new.expires = room.expires
BY DEF Recorded, Room, SameDescriptions

\* Ending a room is an edge, or a rest if it has ended.
LEMMA EndedRoomEdge ==
    ASSUME NEW r \in RoomId, NEW room \in Room, RoomInv(r, room), Live(room), NEW reason \in Kind
    PROVE  LET new == EndedRoom(room, reason) IN
           (EndEdge(room, new) \/ RestEdge(room, new)) /\ new.expires = room.expires
<1>1. CASE room.state = "ended"
  BY <1>1 DEF EndedRoom, RestEdge, SameDescriptions
<1>2. CASE room.state # "ended"
  <2> DEFINE cleared == [room EXCEPT !.state = "ended", !.offer = NoFingerprint,
                                     !.answer = NoFingerprint, !.invite = ZeroHash]
             new == EndedRoom(room, reason)
  <2>1. cleared \in Room /\ cleared.events = room.events /\ room.state \in State
    BY DEF Room, State
  <2>2. new = [cleared EXCEPT !.events = Append(cleared.events, reason)]
    BY <1>2, <2>1, RecordedTrail DEF EndedRoom, RoomInv
  <2>3. /\ new.state = "ended" /\ new.offer = NoFingerprint /\ new.answer = NoFingerprint
        /\ new.name = room.name /\ new.expires = room.expires
        /\ new.events = Append(room.events, reason)
    BY <2>1, <2>2 DEF Room
  <2> HIDE DEF new
  <2>4. EndEdge(room, new)
    BY <1>2, <2>3 DEF EndEdge, Live
  <2> QED
    BY <2>3, <2>4 DEF new
<1> QED
  BY <1>1, <1>2

\* The sweep rests, ends or forgets.
LEMMA SweptEdge ==
    ASSUME NEW r \in RoomId, NEW room \in Room, RoomInv(r, room)
    PROVE  /\ \/ Swept(room) = room
              \/ EndEdge(room, Swept(room))
              \/ RestEdge(room, Swept(room))
              \/ ForgetEdge(room, Swept(room))
           /\ Live(Swept(room)) => Live(room) /\ Swept(room).expires = room.expires
           /\ Open(Swept(room)) => SweepReason(room) = "none" /\ Swept(room) = room
<1>1. CASE SweepReason(room) = "session_expired"
  <2>1. Live(room)
    BY <1>1 DEF SweepReason, Expired
  <2>2. Swept(room) = Absent("gone")
    BY <1>1 DEF Swept
  <2>3. Swept(room).state = "gone" /\ Swept(room).name = NoName
          /\ Swept(room).offer = NoFingerprint /\ Swept(room).answer = NoFingerprint
    BY <2>2 DEF Absent
  <2> QED
    BY <2>1, <2>3 DEF ForgetEdge, Live, Open
<1>2. CASE SweepReason(room) = "none"
  BY <1>2 DEF Swept, Open
<1>3. CASE SweepReason(room) \in {"invitation_expired", "heartbeat_lost"}
  <2>1. Live(room)
    BY <1>3 DEF SweepReason, InviteLapsed, HeartbeatLost, Open, Live
  <2>2. SweepReason(room) \in Kind
    BY <1>3 DEF Kind
  <2>3. Swept(room) = EndedRoom(room, SweepReason(room))
    BY <1>3 DEF Swept
  <2>4. (EndEdge(room, Swept(room)) \/ RestEdge(room, Swept(room)))
          /\ Swept(room).expires = room.expires
    BY <2>1, <2>2, <2>3, EndedRoomEdge
  <2>5. Swept(room).state = "ended"
    BY <2>1, <2>3, <2>2 DEF EndedRoom, Recorded, Room
  <2> QED
    BY <2>1, <2>4, <2>5 DEF Open, Live
<1> QED
  BY <1>1, <1>2, <1>3, SweptType

\* Being heard from changes nothing an edge speaks of.
LEMMA SeenRests ==
    ASSUME NEW room \in Room, NEW role
    PROVE  LET new == Seen(room, role) IN
           /\ RestEdge(room, new) /\ new.expires = room.expires
           /\ new.invite = room.invite /\ new.viewer = room.viewer
BY DEF Seen, Room, RestEdge, SameDescriptions

\* A rest adds nothing to an edge, before or after it.
LEMMA RestThenEdge ==
    ASSUME NEW old \in Room, NEW mid \in Room, NEW new, RestEdge(old, mid), Edge(mid, new)
    PROVE  Edge(old, new)
BY DEF Edge, RestEdge, EndEdge, ForgetEdge, SameDescriptions

LEMMA EdgeThenRest ==
    ASSUME NEW old \in Room, NEW mid \in Room, NEW new,
           EndEdge(old, mid) \/ RestEdge(old, mid), RestEdge(mid, new)
    PROVE  Edge(old, new)
BY DEF Edge, RestEdge, EndEdge, SameDescriptions

\* A holder's request on an open room is an edge.
LEMMA OpenTouchEdge ==
    ASSUME NEW r \in RoomId, NEW old \in Room, NEW role \in Role, now \in Nat \ {0},
           RoomInv(r, old), Open(old), role = "viewer" => old.viewer # ZeroHash,
           Swept(old) = old, NEW new, Touches(old, new)!(role)
    PROVE  Edge(old, new) /\ new.expires = old.expires
<1> DEFINE seen == Seen(old, role)
<1>1. RoomInv(r, seen) /\ Live(seen) /\ seen \in Room
  BY TouchedInv DEF Open
<1>2. RestEdge(old, seen) /\ seen.expires = old.expires
  BY SeenRests
<1>3. /\ CanAccept(old, role) <=> CanAccept(seen, role)
      /\ CanOffer(old, role) <=> CanOffer(seen, role)
      /\ CanAnswer(old, role) <=> CanAnswer(seen, role)
  BY <1>2 DEF CanAccept, CanOffer, CanAnswer, RestEdge, SameDescriptions
<1>4. {"session_ended", "host_accepted", "session_active"} \subseteq Kind
  BY DEF Kind
<1> HIDE DEF seen
<1>5. CASE new = seen
  BY <1>2, <1>5 DEF Edge
<1>6. CASE new = EndedRoom(seen, "session_ended")
  <2>1. (EndEdge(seen, new) \/ RestEdge(seen, new)) /\ new.expires = seen.expires
    BY <1>1, <1>4, <1>6, EndedRoomEdge
  <2>2. Edge(seen, new)
    BY <2>1 DEF Edge
  <2> QED
    BY <1>1, <1>2, <2>1, <2>2, RestThenEdge
<1>7. CASE CanAccept(seen, role)
           /\ new = Recorded([seen EXCEPT !.state = "negotiating"], "host_accepted")
  <2>1. [seen EXCEPT !.state = "negotiating"] \in Room
    BY <1>1 DEF Room, State
  <2>2. /\ new.state = "negotiating" /\ new.name = seen.name
        /\ SameDescriptions(seen, new) /\ new.expires = seen.expires
    BY <1>1, <1>4, <1>7, <2>1, RecordedFields DEF SameDescriptions, Room
  <2>3. Edge(seen, new)
    BY <1>7, <2>2 DEF Edge, CanAccept
  <2> QED
    BY <1>1, <1>2, <2>2, <2>3, RestThenEdge
<1>8. ASSUME NEW print \in Fingerprint, CanOffer(seen, role), new = [seen EXCEPT !.offer = print]
      PROVE  Edge(old, new) /\ new.expires = old.expires
  <2>1. /\ new.state = seen.state /\ new.name = seen.name /\ new.offer = print
        /\ new.answer = seen.answer /\ new.expires = seen.expires
    BY <1>1, <1>8 DEF Room
  <2>2. Edge(seen, new)
    BY <1>8, <2>1 DEF Edge, CanOffer
  <2> QED
    BY <1>1, <1>2, <2>1, <2>2, RestThenEdge
<1>9. ASSUME NEW print \in Fingerprint, CanAnswer(seen, role),
             new = Recorded([seen EXCEPT !.answer = print, !.state = "active"], "session_active")
      PROVE  Edge(old, new) /\ new.expires = old.expires
  <2> DEFINE answered == [seen EXCEPT !.answer = print, !.state = "active"]
  <2>1. answered \in Room
    BY <1>1 DEF Room, State
  <2>2. /\ new.state = answered.state /\ new.name = answered.name
        /\ SameDescriptions(answered, new) /\ new.expires = answered.expires
    BY <1>4, <1>9, <2>1, RecordedFields
  <2>3. /\ answered.state = "active" /\ answered.name = seen.name
        /\ answered.offer = seen.offer /\ answered.answer = print
        /\ answered.expires = seen.expires
    BY <1>1 DEF Room
  <2> HIDE DEF answered
  <2>4. Edge(seen, new)
    BY <1>9, <2>2, <2>3 DEF Edge, CanAnswer, SameDescriptions
  <2> QED
    BY <1>1, <1>2, <2>2, <2>3, <2>4, RestThenEdge
<1>10. \/ new = seen
       \/ new = EndedRoom(seen, "session_ended")
       \/ /\ CanAccept(seen, role)
          /\ new = Recorded([seen EXCEPT !.state = "negotiating"], "host_accepted")
       \/ /\ CanOffer(seen, role)
          /\ \E print \in Fingerprint : new = [seen EXCEPT !.offer = print]
       \/ /\ CanAnswer(seen, role)
          /\ \E print \in Fingerprint :
                new = Recorded([seen EXCEPT !.answer = print, !.state = "active"],
                               "session_active")
  BY <1>3 DEF seen
<1> QED
  BY <1>5, <1>6, <1>7, <1>8, <1>9, <1>10

\* Whatever a request does to a room is one edge of its life; a room's expiry
\* never moves, and only a free identifier comes to life.
LEMMA RoomStepEdge ==
    ASSUME NEW r \in RoomId, NEW old \in Room, NEW new, now \in Nat \ {0},
           RoomInv(r, old), RoomStep(r, old, new)
    PROVE  /\ Edge(old, new)
           /\ Live(old) /\ Live(new) => new.expires = old.expires
<1> DEFINE mid == Swept(old)
<1>1. mid \in Room /\ RoomInv(r, mid)
  BY SweptType, SweptInv
<1>2. /\ mid = old \/ EndEdge(old, mid) \/ RestEdge(old, mid) \/ ForgetEdge(old, mid)
      /\ Live(mid) => Live(old) /\ mid.expires = old.expires
      /\ Open(mid) => mid = old
  BY SweptEdge
<1>3. RestEdge(old, old)
  BY DEF RestEdge, SameDescriptions
<1> HIDE DEF mid
<1>4. Edge(old, mid) /\ (Live(mid) => EndEdge(old, mid) \/ RestEdge(old, mid))
  BY <1>2, <1>3 DEF Edge, ForgetEdge, Live
<1>5. CASE new = mid
  BY <1>2, <1>4, <1>5
<1>6. CASE new = Prune(mid)
  <2>1. CASE mid.state = "ended"
    <3>1. new = Absent("gone") /\ Live(old)
      BY <1>2, <1>6, <2>1 DEF Prune, Live
    <3>2. new.state = "gone" /\ new.name = NoName /\ new.offer = NoFingerprint
            /\ new.answer = NoFingerprint
      BY <3>1 DEF Absent
    <3> QED
      BY <3>1, <3>2 DEF Edge, ForgetEdge, Live
  <2> QED
    BY <1>2, <1>4, <1>6, <2>1 DEF Prune
<1>7. CASE old.state = "free" /\ new = NewRoom(r)
  <2>1. old = Absent("free")
    BY <1>7 DEF RoomInv, Consistent, Live
  <2> DEFINE issued == [Absent("waiting") EXCEPT !.invite = InviteToken(r), !.expires = now + RoomLife,
                             !.inviteExpires = now + InviteLife, !.hostSeen = now]
  <2>2. /\ issued \in Room
        /\ issued.state = "waiting" /\ issued.name = NoName
        /\ issued.offer = NoFingerprint /\ issued.answer = NoFingerprint
    <3>1. now + RoomLife \in Nat /\ now + InviteLife \in Nat
      BY DurationAssumption
    <3>2. issued \in Room
      BY <3>1, AbsentType DEF Room, Invite
    <3>3. /\ issued.state = "waiting" /\ issued.name = NoName
          /\ issued.offer = NoFingerprint /\ issued.answer = NoFingerprint
      BY DEF Absent
    <3> QED BY <3>2, <3>3
  <2>3. /\ new.state = "waiting" /\ new.name = NoName
        /\ new.offer = NoFingerprint /\ new.answer = NoFingerprint
    <3>1. new = Recorded(issued, "invitation_created")
      BY <1>7 DEF NewRoom
    <3>2. "invitation_created" \in Kind
      BY DEF Kind
    <3> HIDE DEF issued
    <3> QED BY <2>2, <3>1, <3>2, RecordedFields DEF SameDescriptions
  <2> QED
    BY <1>7, <2>1, <2>3 DEF Edge, Absent, SameDescriptions, Live
<1>8. ASSUME NEW name \in Name, mid.state = "waiting", new = Joined(mid, r, name)
      PROVE  Edge(old, new) /\ new.expires = old.expires
  <2> DEFINE entered == [mid EXCEPT !.viewer = ViewerToken(r), !.invite = ZeroHash, !.name = name,
                                    !.state = "awaiting_consent", !.viewerSeen = now]
  <2>1. entered \in Room /\ entered.state = "awaiting_consent" /\ entered.name = name
          /\ entered.offer = mid.offer /\ entered.answer = mid.answer
          /\ entered.expires = mid.expires
    BY <1>1 DEF Room, State
  <2>2. /\ new.state = entered.state /\ new.name = entered.name
        /\ SameDescriptions(entered, new) /\ new.expires = entered.expires
    BY <1>8, <2>1, RecordedFields DEF Joined, Kind
  <2>3. mid = old
    BY <1>2, <1>8 DEF Open, Live
  <2> QED
    BY <1>8, <2>1, <2>2, <2>3 DEF Edge, SameDescriptions
<1>9. CASE Touches(old, new)
  <2>1. PICK role \in Role : Touches(old, new)!(role)
    BY <1>9 DEF Touches
  <2>2. Live(mid) /\ (role = "viewer" => mid.viewer # ZeroHash)
    BY <2>1 DEF mid
  <2>3. CASE Open(mid)
    <3>1. mid = old
      BY <1>2, <2>3
    <3>2. Swept(old) = old /\ Open(old) /\ (role = "viewer" => old.viewer # ZeroHash)
      BY <2>2, <2>3, <3>1 DEF mid
    <3>3. Edge(old, new) /\ new.expires = old.expires
      BY <2>1, <3>2, OpenTouchEdge
    <3> QED
      BY <3>3
  <2>4. CASE ~Open(mid)
    <3>1. mid.state = "ended"
      BY <2>2, <2>4 DEF Open
    <3>2. RestEdge(mid, Seen(mid, role)) /\ Seen(mid, role).expires = mid.expires
      BY <1>1, SeenRests
    <3>3. Seen(mid, role).state = "ended"
      BY <3>1, <3>2 DEF RestEdge
    <3>4. new = Seen(mid, role)
      BY <2>1, <3>1, <3>3 DEF CanAccept, CanOffer, CanAnswer, EndedRoom, mid
    <3> QED
      BY <1>1, <1>2, <1>4, <2>2, <3>2, <3>4, EdgeThenRest
  <2> QED
    BY <2>3, <2>4
<1> QED
  BY <1>5, <1>6, <1>7, <1>8, <1>9 DEF RoomStep, mid, Live

\* The fields an edge speaks of are the state of the abstract life.
LEMMA EdgeMoves ==
    ASSUME NEW r \in RoomId, Edge(rooms[r], rooms'[r])
    PROVE  Lifecycle!Moves(r)
BY DEF Edge, EndEdge, ForgetEdge, RestEdge, SameDescriptions, Lifecycle!Moves,
       Lifecycle!Invite, Lifecycle!Join, Lifecycle!Consent, Lifecycle!Offer, Lifecycle!Answer,
       Lifecycle!End, Lifecycle!Forget, Lifecycle!Rests, Lifecycle!Keeps

\* The server implements the life of a room: one viewer, consent before any
\* description, each description written once, and no way back from the end,
\* whatever the requests, their order and the times at which they arrive.
THEOREM ServerImplementsLifecycle == Spec => ImplementsLifecycle
<1>1. Init => Lifecycle!Init
  BY DEF Init, Absent, Lifecycle!Init
<1>2. TypeOK /\ TypeOK' /\ RoomsInv /\ [Next]_vars => [Lifecycle!Next]_(Lifecycle!lifecycle)
  <2> SUFFICES ASSUME TypeOK, TypeOK', RoomsInv, [Next]_vars
               PROVE  [Lifecycle!Next]_(Lifecycle!lifecycle)
    OBVIOUS
  <2>1. CASE UNCHANGED vars \/ Tick
    BY <2>1 DEF vars, Tick, Lifecycle!lifecycle
  <2>2. CASE Next /\ ~Tick
    <3>1. \A r \in RoomId : Lifecycle!Moves(r)
      <4> TAKE r \in RoomId
      <4>1. rooms[r] \in Room /\ RoomInv(r, rooms[r]) /\ now \in Nat \ {0}
        BY DEF TypeOK, RoomsInv
      <4>2. RoomStep(r, rooms[r], rooms'[r])
        BY <2>2, RequestIsRoomwise DEF Roomwise
      <4> QED
        BY <4>1, <4>2, RoomStepEdge, EdgeMoves
    <3>2. \A r \in RoomId : rooms'[r] \in Room
      BY DEF TypeOK
    <3>3. Lifecycle!Next
      BY <3>1, <3>2 DEF Lifecycle!Next, Lifecycle!Phase, Room, State
    <3> QED
      BY <3>3
  <2> QED
    BY <2>1, <2>2
<1> QED
  BY <1>1, <1>2, TypeCorrect, RoomsInvariant, PTL DEF Spec, ImplementsLifecycle, Lifecycle!Spec

------------------------------------------------------------------------------
(* Media authority *)

\* A room that a request leaves active was neither expired nor silent when the
\* request arrived.
LEMMA ActiveIsFresh ==
    ASSUME NEW r \in RoomId, NEW old \in Room, NEW new, now \in Nat \ {0},
           RoomInv(r, old), RoomStep(r, old, new), new.state = "active"
    PROVE  /\ now < old.expires
           /\ now - old.hostSeen <= HeartbeatLimit
           /\ now - old.viewerSeen <= HeartbeatLimit
<1>1. Open(Swept(old)) /\ Swept(old).state \in {"negotiating", "active"}
  <2>1. CASE new = Swept(old)
    BY <2>1 DEF Open, Live
  <2>2. CASE new = Prune(Swept(old))
    BY <2>2 DEF Open, Live, Prune, Absent
  <2>3. CASE new = NewRoom(r)
    BY <2>3 DEF NewRoom, Recorded, Absent
  <2>4. ASSUME NEW name \in Name, new = Joined(Swept(old), r, name)
        PROVE  FALSE
    BY <2>4, SweptType DEF Joined, Recorded, Room
  <2>5. CASE Touches(old, new)
    <3>1. PICK role \in Role : Touches(old, new)!(role)
      BY <2>5 DEF Touches
    <3> DEFINE seen == Seen(Swept(old), role)
    <3>2. seen \in Room /\ seen.state = Swept(old).state
      BY SweptType DEF Seen, Room
    <3>3. CASE new = EndedRoom(seen, "session_ended")
      BY <3>2, <3>3 DEF EndedRoom, Recorded, Room
    <3>4. CASE new = seen
      BY <3>2, <3>4 DEF Open, Live
    <3>5. CASE new = Recorded([seen EXCEPT !.state = "negotiating"], "host_accepted")
      BY <3>2, <3>5 DEF Recorded, Room
    <3>6. CASE CanOffer(Swept(old), role) \/ CanAnswer(Swept(old), role)
      BY <3>6 DEF CanOffer, CanAnswer, Open, Live
    <3> QED
      BY <3>1, <3>3, <3>4, <3>5, <3>6
  <2> QED
    BY <2>1, <2>2, <2>3, <2>4, <2>5 DEF RoomStep
<1>2. SweepReason(old) = "none" /\ Swept(old) = old
  BY <1>1, SweptEdge
<1>3. Open(old) /\ old.hostSeen # Never /\ old.viewerSeen # Never
  BY <1>1, <1>2 DEF RoomInv, Consistent, Open
<1>4. ~Expired(old) /\ ~HeartbeatLost(old)
  BY <1>2 DEF SweepReason
<1> QED
  BY <1>3, <1>4, DurationAssumption DEF Expired, HeartbeatLost, Silent, Open, Room

\* No request signs a grant except for a room that is active after it and had
\* neither expired nor lost either end when it arrived.
THEOREM GrantsOnlyToLivePeers == Spec => GrantsNeedLivePeers
<1> DEFINE Signed == \A r \in RoomId :
              authority'[r] # authority[r] =>
                 /\ rooms'[r].state = "active"
                 /\ now < rooms[r].expires
                 /\ now - rooms[r].hostSeen <= HeartbeatLimit
                 /\ now - rooms[r].viewerSeen <= HeartbeatLimit
<1>1. TypeOK /\ RoomsInv /\ [Next]_vars => [Signed]_vars
  <2> SUFFICES ASSUME TypeOK, RoomsInv, [Next]_vars, ~ UNCHANGED vars,
                      NEW r \in RoomId, authority'[r] # authority[r]
               PROVE  /\ rooms'[r].state = "active"
                      /\ now < rooms[r].expires
                      /\ now - rooms[r].hostSeen <= HeartbeatLimit
                      /\ now - rooms[r].viewerSeen <= HeartbeatLimit
    OBVIOUS
  <2>1. Next /\ ~Tick
    BY DEF Tick
  <2>2. RoomStep(r, rooms[r], rooms'[r]) /\ AuthorityStep(r)
    BY <2>1, RequestIsRoomwise DEF Roomwise
  <2>3. rooms'[r].state = "active"
    BY <2>2 DEF AuthorityStep, Snapshot
  <2>4. rooms[r] \in Room /\ RoomInv(r, rooms[r]) /\ now \in Nat \ {0}
    BY DEF TypeOK, RoomsInv
  <2> QED
    BY <2>2, <2>3, <2>4, ActiveIsFresh
<1> QED
  BY <1>1, TypeCorrect, RoomsInvariant, PTL DEF Spec, GrantsNeedLivePeers

\* The strengthening for grants: a room that still bears authority and has ended
\* was active until then, and its log shows it.
Bears(room, latest, t) ==
    /\ latest <= t + GrantLife
    /\ latest # 0 => room.state \in {"active", "ended", "gone"}
    /\ Live(room) => latest <= room.expires
    /\ latest # 0 /\ room.state = "ended" =>
          \E why \in Kind : room.events = Append(Connected, why)

\* The log of a room that reached active shows the host's consent third.
LEMMA ConsentIsThird ==
    /\ Connected[3] = "host_accepted"
    /\ \A why \in Kind : Append(Connected, why)[3] = "host_accepted"
<1>1. /\ Invited \in Seq(Kind) /\ Len(Invited) = 1
      /\ Entered \in Seq(Kind) /\ Len(Entered) = 2
      /\ Accepted \in Seq(Kind) /\ Len(Accepted) = 3
      /\ Connected \in Seq(Kind) /\ Len(Connected) = 4
  BY TrailsAreShort
<1>2. "host_accepted" \in Kind /\ "session_active" \in Kind
  BY DEF Kind
<1>3. Accepted[3] = "host_accepted"
  BY <1>1, <1>2, AppendProperties DEF Accepted
<1>4. Connected[3] = "host_accepted"
  BY <1>1, <1>2, <1>3, AppendProperties DEF Connected
<1>5. ASSUME NEW why \in Kind
      PROVE  Append(Connected, why)[3] = "host_accepted"
  <2> DEFINE trail == Connected
  <2>1. trail \in Seq(Kind) /\ 3 \in 1 .. Len(trail)
    BY <1>1
  <2> HIDE DEF trail
  <2>2. Append(trail, why)[3] = trail[3]
    BY <2>1, AppendProperties
  <2> QED
    BY <1>4, <2>2 DEF trail
<1> QED
  BY <1>4, <1>5

\* Authority stays bounded along an edge.
LEMMA EdgeBears ==
    ASSUME NEW r \in RoomId, NEW old \in Room, NEW new \in Room, NEW latest \in Nat, NEW t \in Nat,
           NEW u \in Nat, t <= u,
           RoomInv(r, old), Edge(old, new), Live(old) /\ Live(new) => new.expires = old.expires,
           Bears(old, latest, t)
    PROVE  Bears(new, latest, u)
<1>1. latest <= u + GrantLife
  BY DurationAssumption DEF Bears
<1>2. latest # 0 => /\ old.state \in {"active", "ended", "gone"}
                    /\ new.state \in {"active", "ended", "gone"}
                    /\ Live(new) => Live(old)
  BY DEF Bears, Edge, EndEdge, ForgetEdge, RestEdge, Live
<1>3. Live(new) => latest <= new.expires
  <2>1. CASE latest = 0
    BY <2>1 DEF Room
  <2>2. CASE latest # 0
    BY <1>2, <2>2 DEF Bears
  <2> QED
    BY <2>1, <2>2
<1>4. ASSUME latest # 0, new.state = "ended"
      PROVE  \E why \in Kind : new.events = Append(Connected, why)
  <2>1. CASE old.state = "ended"
    <3>1. new.events = old.events
      BY <1>4, <2>1 DEF Edge, EndEdge, ForgetEdge, RestEdge
    <3> QED
      BY <1>4, <2>1, <3>1 DEF Bears
  <2>2. CASE old.state = "active"
    <3>1. EndEdge(old, new)
      BY <1>4, <2>2 DEF Edge, ForgetEdge, RestEdge
    <3>2. old.events = Connected
      BY <2>2 DEF RoomInv, Trails
    <3> QED
      BY <3>1, <3>2 DEF EndEdge
  <2>3. CASE old.state = "gone"
    BY <1>4, <2>3 DEF Edge, EndEdge, ForgetEdge, RestEdge
  <2> QED
    BY <1>2, <1>4, <2>1, <2>2, <2>3
<1> QED
  BY <1>1, <1>2, <1>3, <1>4 DEF Bears

AuthorityInv == \A r \in RoomId : Bears(rooms[r], authority[r], now)

\* No grant ever lasts longer than GrantLife or than its room, or exists for a
\* room whose host did not consent, however polls, ends and timeouts interleave.
THEOREM AuthorityStaysBounded == Spec => []AuthorityBounded
<1>1. Init => AuthorityInv
  <2> SUFFICES ASSUME Init, NEW r \in RoomId
               PROVE  Bears(rooms[r], authority[r], now)
    BY DEF AuthorityInv
  <2>1. rooms[r].state = "free" /\ authority[r] = 0 /\ now = 1
    BY DEF Init, Absent
  <2> QED
    BY <2>1, DurationAssumption DEF Bears, Live
<1>2. TypeOK /\ TypeOK' /\ RoomsInv /\ AuthorityInv /\ [Next]_vars => AuthorityInv'
  <2> SUFFICES ASSUME TypeOK, TypeOK', RoomsInv, AuthorityInv, [Next]_vars, NEW r \in RoomId
               PROVE  Bears(rooms'[r], authority'[r], now')
    BY DEF AuthorityInv
  <2>1. /\ rooms[r] \in Room /\ rooms'[r] \in Room /\ RoomInv(r, rooms[r])
        /\ now \in Nat \ {0} /\ now' \in Nat \ {0}
        /\ authority[r] \in Nat /\ Bears(rooms[r], authority[r], now)
    BY DEF TypeOK, RoomsInv, AuthorityInv
  <2>2. CASE UNCHANGED vars
    BY <2>1, <2>2 DEF vars
  <2>3. CASE Tick
    BY <2>1, <2>3, DurationAssumption DEF Tick, Bears
  <2>4. CASE Next /\ ~Tick
    <3>1. RoomStep(r, rooms[r], rooms'[r]) /\ AuthorityStep(r) /\ now' = now
      BY <2>4, RequestIsRoomwise DEF Roomwise
    <3>2. /\ Edge(rooms[r], rooms'[r])
          /\ Live(rooms[r]) /\ Live(rooms'[r]) => rooms'[r].expires = rooms[r].expires
      BY <2>1, <3>1, RoomStepEdge
    <3>3. Bears(rooms'[r], authority[r], now)
      BY <2>1, <3>2, EdgeBears
    <3>4. CASE authority'[r] = authority[r]
      BY <3>1, <3>3, <3>4
    <3>5. CASE /\ rooms'[r].state = "active"
               /\ authority'[r] = Earlier(now + GrantLife, rooms'[r].expires)
      <4>1. rooms'[r].expires \in Nat
        BY <2>1 DEF Room
      <4> QED
        BY <2>1, <3>1, <3>5, <4>1, DurationAssumption DEF Earlier, Bears
    <3> QED
      BY <3>1, <3>4, <3>5 DEF AuthorityStep, Snapshot
  <2> QED
    BY <2>2, <2>3, <2>4
<1>3. RoomsInv /\ AuthorityInv => AuthorityBounded
  <2> SUFFICES ASSUME RoomsInv, AuthorityInv, NEW r \in RoomId,
                      authority[r] # 0, Live(rooms[r])
               PROVE  rooms[r].events[3] = "host_accepted"
    BY DEF AuthorityBounded, AuthorityInv, Bears
  <2>1. CASE rooms[r].state = "active"
    <3>1. rooms[r].events = Connected
      BY <2>1 DEF RoomsInv, RoomInv, Trails
    <3> QED
      BY <3>1, ConsentIsThird
  <2>2. CASE rooms[r].state = "ended"
    <3>1. \E why \in Kind : rooms[r].events = Append(Connected, why)
      BY <2>2 DEF AuthorityInv, Bears
    <3> QED
      BY <3>1, ConsentIsThird
  <2> QED
    BY <2>1, <2>2 DEF AuthorityInv, Bears, Live
<1> QED
  BY <1>1, <1>2, <1>3, TypeCorrect, RoomsInvariant, PTL DEF Spec

------------------------------------------------------------------------------
(* Capacity *)

\* Neither the sweep nor a holder's request brings a room to life.
LEMMA SweepRevivesNone ==
    \A room : Live(Swept(room)) => Live(room)
<1> SUFFICES ASSUME NEW room, ~Live(room)
             PROVE  ~Live(Swept(room))
  OBVIOUS
<1>1. ~Expired(room) /\ ~InviteLapsed(room) /\ ~HeartbeatLost(room)
  BY DEF Expired, InviteLapsed, HeartbeatLost, Open, Live
<1>2. SweepReason(room) = "none"
  BY <1>1 DEF SweepReason
<1> QED
  BY <1>2 DEF Swept

Quiet == \A s \in RoomId : Live(rooms'[s]) => Live(rooms[s])

\* Only issueRoom adds a room.
LEMMA OnlyIssueRoomAdds ==
    ASSUME Next, ~Tick
    PROVE  Quiet \/ \E bearer, op : IssueRoom(bearer, op)
<1>s. ASSUME rooms' = SweptRooms PROVE Quiet
  <2>1. \A s \in RoomId : rooms'[s] = Swept(rooms[s])
    BY <1>s DEF SweptRooms
  <2> QED
    BY <2>1, SweepRevivesNone DEF Quiet
<1>r. ASSUME NEW r \in RoomId, NEW room, Live(Swept(rooms[r])),
             rooms' = [SweptRooms EXCEPT ![r] = room]
      PROVE  Quiet
  <2>1. \A s \in RoomId : s # r => rooms'[s] = Swept(rooms[s])
    BY <1>r DEF SweptRooms
  <2> QED
    BY <1>r, <2>1, SweepRevivesNone DEF Quiet
<1>1. CASE Unrouted
  BY <1>1, <1>s DEF Unrouted, Served
<1>2. ASSUME NEW bearer, Security(bearer)
      PROVE  Quiet
  BY <1>2, <1>s DEF Security, Served
<1>3. ASSUME NEW bearer, NEW op, FailedAuth(bearer, op)
      PROVE  Quiet
  BY <1>3, <1>s DEF FailedAuth, Served
<1>4. ASSUME NEW bearer, Create(bearer)
      PROVE  IssueRoom(bearer, "create")
  BY <1>4 DEF Create
<1>5. ASSUME NEW wellFormed \in BOOLEAN, CreateGuest(wellFormed)
      PROVE  Quiet \/ IssueRoom(ZeroHash, "create-guest")
  BY <1>5, <1>s DEF CreateGuest, Served
<1>6. ASSUME NEW invite, NEW name, NEW wellFormed \in BOOLEAN, Join(invite, name, wellFormed)
      PROVE  Quiet
  <2>1. ASSUME NEW r \in RoomId, Matches(invite, r),
               rooms' = [SweptRooms EXCEPT ![r] = Joined(@, r, name)]
        PROVE  Quiet
    <3>1. Live(Swept(rooms[r]))
      BY <2>1 DEF Matches, Live
    <3>2. rooms' = [SweptRooms EXCEPT ![r] = Joined(SweptRooms[r], r, name)]
      BY <2>1
    <3> QED
      BY <3>1, <3>2, <1>r
  <2> QED
    BY <1>6, <1>s, <2>1 DEF Join, Served
<1>7. CASE Authorized
  <2>1. PICK bearer \in Bearer, r \in RoomId, role \in Role : Authorized!(bearer, r, role)
    BY <1>7 DEF Authorized
  <2>2. Live(Swept(rooms[r]))
    BY <2>1 DEF Holds
  <2>3. ASSUME NEW op, NEW room, NEW kinds, Answered(bearer, op, r, room, kinds)
        PROVE  Quiet
    BY <2>2, <2>3, <1>r DEF Answered, Served
  <2>4. ASSUME NEW op, NEW status, Refused(bearer, op, r, role, status)
        PROVE  Quiet
    <3>1. rooms' = [SweptRooms EXCEPT ![r] = Seen(SweptRooms[r], role)]
      BY <2>4 DEF Refused, Served
    <3> QED
      BY <2>2, <3>1, <1>r
  <2>5. GetRoom(bearer, r, role) => Quiet
    BY <2>3 DEF GetRoom
  <2>6. End(bearer, r, role) => Quiet
    BY <2>3 DEF End
  <2>7. Accept(bearer, r, role) => Quiet
    BY <2>3, <2>4 DEF Accept
  <2>8. Malformed(bearer, r, role) => Quiet
    BY <2>4 DEF Malformed
  <2>9. \A type, print : Offer(bearer, r, role, type, print) => Quiet
    BY <2>3, <2>4 DEF Offer
  <2>10. \A type, print : Answer(bearer, r, role, type, print) => Quiet
    BY <2>3, <2>4 DEF Answer
  <2> QED
    BY <2>1, <2>5, <2>6, <2>7, <2>8, <2>9, <2>10
<1> QED
  BY <1>1, <1>2, <1>3, <1>4, <1>5, <1>6, <1>7 DEF Next

\* No more than Capacity rooms are ever held, however creations, ends, expiries
\* and prunings interleave.
THEOREM CapacityIsRespected == Spec => []CapacityRespected
<1> DEFINE Held(table) == {r \in RoomId : Live(table[r])}
<1>f. \A table : IsFiniteSet(Held(table)) /\ Cardinality(Held(table)) \in Nat
  BY LimitAssumption, FS_Subset, FS_CardinalityType
<1>m. ASSUME NEW a, NEW b, Held(a) \subseteq Held(b)
      PROVE  Cardinality(Held(a)) <= Cardinality(Held(b))
  BY <1>m, <1>f, FS_Subset
<1>c. Capacity \in Nat \ {0}
  BY LimitAssumption
<1>1. Init => CapacityRespected
  <2> SUFFICES ASSUME Init
               PROVE  Cardinality(Held(rooms)) <= Capacity
    BY DEF CapacityRespected
  <2>1. Held(rooms) = {}
    BY DEF Init, Absent, Live
  <2>2. Cardinality(Held(rooms)) = 0
    BY <2>1, FS_EmptySet
  <2> QED
    BY <2>2, <1>c
<1>2. TypeOK /\ TypeOK' /\ CapacityRespected /\ [Next]_vars => CapacityRespected'
  <2> SUFFICES ASSUME TypeOK, CapacityRespected, [Next]_vars
               PROVE  Cardinality(Held(rooms')) <= Capacity
    BY DEF CapacityRespected
  <2>0. Cardinality(Held(rooms)) <= Capacity
    BY DEF CapacityRespected
  <2>1. CASE Quiet
    <3>1. Cardinality(Held(rooms')) <= Cardinality(Held(rooms))
      BY <2>1, <1>m DEF Quiet
    <3> QED
      BY <3>1, <2>0, <1>f, <1>c
  <2>2. ASSUME NEW bearer, NEW op, IssueRoom(bearer, op)
        PROVE  Cardinality(Held(rooms')) <= Capacity
    <3>1. CASE rooms' = Pruned
      <4>1. Held(Pruned) \subseteq Held(rooms)
        BY SweepRevivesNone DEF Pruned, Prune, Absent, Live
      <4>2. Cardinality(Held(Pruned)) <= Cardinality(Held(rooms))
        BY <4>1, <1>m
      <4> QED
        BY <3>1, <4>2, <2>0, <1>f, <1>c
    <3>2. ASSUME NEW r \in RoomId, rooms' = [Pruned EXCEPT ![r] = NewRoom(r)],
                 ~ (Cardinality(Held(Pruned)) >= Capacity)
          PROVE  Cardinality(Held(rooms')) <= Capacity
      <4>1. Held(rooms') \subseteq Held(Pruned) \cup {r}
        BY <3>2 DEF Pruned
      <4>2. IsFiniteSet(Held(Pruned) \cup {r})
              /\ Cardinality(Held(Pruned) \cup {r}) <= Cardinality(Held(Pruned)) + 1
        BY <1>f, FS_AddElement
      <4>3. Cardinality(Held(rooms')) <= Cardinality(Held(Pruned) \cup {r})
        BY <4>1, <4>2, FS_Subset
      <4> DEFINE before == Cardinality(Held(Pruned))
                 after  == Cardinality(Held(rooms'))
                 most   == Cardinality(Held(Pruned) \cup {r})
      <4>4. before \in Nat /\ most \in Nat /\ after \in Nat
        BY <4>2, <1>f, FS_CardinalityType
      <4>5. most <= before + 1 /\ after <= most /\ ~ (before >= Capacity)
        BY <3>2, <4>2, <4>3
      <4> HIDE DEF before, after, most
      <4>6. after <= Capacity
        BY <4>4, <4>5, <1>c
      <4> QED
        BY <4>6 DEF after
    <3> QED
      BY <2>2, <3>1, <3>2 DEF IssueRoom, Served
  <2>3. CASE UNCHANGED vars \/ Tick
    BY <2>0, <2>3 DEF vars, Tick
  <2> QED
    BY <2>1, <2>2, <2>3, OnlyIssueRoomAdds
<1> QED
  BY <1>1, <1>2, TypeCorrect, PTL DEF Spec

------------------------------------------------------------------------------
(* What a response shows is fresh *)

\* The sweep leaves no room past its expiry, its invitation or a heartbeat.
LEMMA SweptIsFresh ==
    ASSUME NEW r \in RoomId, NEW room \in Room, RoomInv(r, room), now \in Nat \ {0}
    PROVE  Fresh(Swept(room))
<1>1. CASE SweepReason(room) = "session_expired"
  <2>1. Swept(room).state = "gone"
    BY <1>1 DEF Swept, Absent
  <2> QED
    BY <2>1 DEF Fresh, Live, Open
<1>2. CASE SweepReason(room) = "none"
  <2>1. Swept(room) = room
    BY <1>2 DEF Swept
  <2>2. ~Expired(room) /\ ~InviteLapsed(room) /\ ~HeartbeatLost(room)
    BY <1>2 DEF SweepReason
  <2>3. /\ Live(room) => room.hostSeen # Never
        /\ room.viewer # ZeroHash => room.viewerSeen # Never
    BY DEF RoomInv, Consistent
  <2>4. /\ room.expires \in Nat /\ room.inviteExpires \in Nat
        /\ room.hostSeen \in Nat /\ room.viewerSeen \in Nat /\ HeartbeatLimit \in Nat
    BY DurationAssumption DEF Room
  <2> QED
    BY <2>1, <2>2, <2>3, <2>4
    DEF Fresh, Expired, InviteLapsed, HeartbeatLost, Silent, Open, Live
<1>3. CASE SweepReason(room) \in {"invitation_expired", "heartbeat_lost"}
  <2>1. Live(room) /\ ~Expired(room)
    BY <1>3 DEF SweepReason, InviteLapsed, HeartbeatLost, Open, Live
  <2>2. SweepReason(room) \in Kind /\ Swept(room) = EndedRoom(room, SweepReason(room))
    BY <1>3 DEF Kind, Swept
  <2>3. Swept(room).state = "ended" /\ Swept(room).expires = room.expires
    BY <2>2 DEF EndedRoom, Recorded, Room
  <2>4. room.expires \in Nat
    BY DEF Room
  <2> QED
    BY <2>1, <2>3, <2>4 DEF Fresh, Expired, Open
<1> QED
  BY <1>1, <1>2, <1>3, SweptType

\* A fresh room stays fresh while its expiry stands, it does not open again and
\* whoever is heard from is heard from now.
LEMMA FreshnessIsKept ==
    ASSUME NEW old, NEW new, now \in Nat, Fresh(old), Live(old),
           new.expires = old.expires, Open(new) => Open(old), new.state # "waiting",
           new.hostSeen \in {old.hostSeen, now},
           \/ new.viewerSeen = now
           \/ new.viewerSeen = old.viewerSeen /\ new.viewer = old.viewer
    PROVE  Fresh(new)
BY DurationAssumption DEF Fresh

\* The record of an event changes the log alone.
LEMMA RecordedKeeps ==
    ASSUME NEW room \in Room, NEW kind
    PROVE  LET new == Recorded(room, kind) IN
           /\ new.state = room.state /\ new.expires = room.expires
           /\ new.inviteExpires = room.inviteExpires
           /\ new.hostSeen = room.hostSeen /\ new.viewerSeen = room.viewerSeen
           /\ new.viewer = room.viewer
BY DEF Recorded, Room

\* What a request leaves of a room is fresh.
LEMMA RoomStepIsFresh ==
    ASSUME NEW r \in RoomId, NEW old \in Room, NEW new, now \in Nat \ {0},
           RoomInv(r, old), RoomStep(r, old, new)
    PROVE  Fresh(new)
<1> DEFINE mid == Swept(old)
<1>1. mid \in Room /\ RoomInv(r, mid) /\ Fresh(mid)
  BY SweptType, SweptInv, SweptIsFresh
<1> HIDE DEF mid
<1>2. CASE new = mid
  BY <1>1, <1>2
<1>3. CASE new = Prune(mid)
  BY <1>1, <1>3 DEF Prune, Absent, Fresh, Live, Open
<1>4. CASE new = NewRoom(r)
  <2> DEFINE issued == [Absent("waiting") EXCEPT !.invite = InviteToken(r),
                                                 !.expires = now + RoomLife,
                                                 !.inviteExpires = now + InviteLife,
                                                 !.hostSeen = now]
  <2>1. now + RoomLife \in Nat /\ now + InviteLife \in Nat
    BY DurationAssumption
  <2>2. /\ issued \in Room /\ issued.state = "waiting" /\ issued.viewer = ZeroHash
        /\ issued.expires = now + RoomLife /\ issued.inviteExpires = now + InviteLife
        /\ issued.hostSeen = now
    BY <2>1, AbsentType DEF Absent, Room, Invite
  <2>3. new = Recorded(issued, "invitation_created")
    BY <1>4 DEF NewRoom
  <2> HIDE DEF issued
  <2>4. /\ new.state = "waiting" /\ new.viewer = ZeroHash /\ new.hostSeen = now
        /\ new.expires = now + RoomLife /\ new.inviteExpires = now + InviteLife
    BY <2>2, <2>3, RecordedKeeps
  <2> QED
    BY <2>4, DurationAssumption DEF Fresh
<1>5. ASSUME NEW name \in Name, mid.state = "waiting", new = Joined(mid, r, name)
      PROVE  Fresh(new)
  <2> DEFINE entered == [mid EXCEPT !.viewer = ViewerToken(r), !.invite = ZeroHash, !.name = name,
                                    !.state = "awaiting_consent", !.viewerSeen = now]
  <2>1. /\ entered \in Room /\ entered.state = "awaiting_consent"
        /\ entered.expires = mid.expires /\ entered.hostSeen = mid.hostSeen
        /\ entered.viewerSeen = now
    BY <1>1 DEF Room, State
  <2>2. new = Recorded(entered, "viewer_joined")
    BY <1>5 DEF Joined
  <2> HIDE DEF entered
  <2>3. /\ new.state = "awaiting_consent" /\ new.expires = mid.expires
        /\ new.hostSeen = mid.hostSeen /\ new.viewerSeen = now
    BY <2>1, <2>2, RecordedKeeps
  <2>4. Open(mid) /\ Live(mid)
    BY <1>5 DEF Open, Live
  <2> QED
    BY <1>1, <2>3, <2>4, FreshnessIsKept
<1>6. CASE Touches(old, new)
  <2>1. PICK role \in Role : Touches(old, new)!(role)
    BY <1>6 DEF Touches
  <2> DEFINE seen == Seen(mid, role)
  <2>2. Live(mid)
    BY <2>1 DEF mid
  <2>3. /\ seen \in Room /\ seen.state = mid.state /\ seen.expires = mid.expires
        /\ seen.inviteExpires = mid.inviteExpires /\ seen.viewer = mid.viewer
        /\ seen.hostSeen \in {mid.hostSeen, now}
        /\ seen.viewerSeen \in {mid.viewerSeen, now}
    BY <1>1 DEF Seen, Room
  <2> HIDE DEF seen
  <2>4. Fresh(seen) /\ Live(seen)
    BY <1>1, <2>2, <2>3, DurationAssumption DEF Fresh, Open, Live
  <2>5. CASE new = EndedRoom(seen, "session_ended")
    <3>1. new.state = "ended" /\ new.expires = seen.expires
      BY <2>3, <2>5 DEF EndedRoom, Recorded, Room
    <3> QED
      BY <2>4, <3>1 DEF Fresh, Open
  <2>6. ASSUME mid.state \notin {"waiting", "ended"}, NEW next \in Room,
               next.state # "waiting", next.expires = seen.expires,
               next.hostSeen = seen.hostSeen, next.viewerSeen = seen.viewerSeen,
               next.viewer = seen.viewer, NEW kind, new = next \/ new = Recorded(next, kind)
        PROVE  Fresh(new)
    <3>1. /\ new.state # "waiting" /\ new.expires = seen.expires /\ new.hostSeen = seen.hostSeen
          /\ new.viewerSeen = seen.viewerSeen /\ new.viewer = seen.viewer
      BY <2>6, RecordedKeeps
    <3>2. Open(seen)
      BY <2>3, <2>4, <2>6 DEF Open
    <3> QED
      BY <2>4, <3>1, <3>2, FreshnessIsKept
  <2>7. CASE /\ CanAccept(mid, role)
             /\ new = Recorded([seen EXCEPT !.state = "negotiating"], "host_accepted")
    <3> DEFINE next == [seen EXCEPT !.state = "negotiating"]
    <3>1. /\ next \in Room /\ next.state = "negotiating" /\ next.expires = seen.expires
          /\ next.hostSeen = seen.hostSeen /\ next.viewerSeen = seen.viewerSeen
          /\ next.viewer = seen.viewer
      BY <2>3 DEF Room, State
    <3> HIDE DEF next
    <3>2. mid.state = "awaiting_consent" /\ new = Recorded(next, "host_accepted")
      BY <2>7 DEF CanAccept, next
    <3> QED
      BY <2>6, <3>1, <3>2
  <2>8. ASSUME CanOffer(mid, role), NEW print \in Fingerprint, new = [seen EXCEPT !.offer = print]
        PROVE  Fresh(new)
    <3>1. /\ new \in Room /\ new.state = seen.state /\ new.expires = seen.expires
          /\ new.hostSeen = seen.hostSeen /\ new.viewerSeen = seen.viewerSeen
          /\ new.viewer = seen.viewer
      BY <2>3, <2>8 DEF Room
    <3>2. mid.state = "negotiating"
      BY <2>8 DEF CanOffer
    <3> QED
      BY <2>3, <2>6, <3>1, <3>2
  <2>9. ASSUME CanAnswer(mid, role), NEW print \in Fingerprint,
               new = Recorded([seen EXCEPT !.answer = print, !.state = "active"], "session_active")
        PROVE  Fresh(new)
    <3> DEFINE next == [seen EXCEPT !.answer = print, !.state = "active"]
    <3>1. /\ next \in Room /\ next.state = "active" /\ next.expires = seen.expires
          /\ next.hostSeen = seen.hostSeen /\ next.viewerSeen = seen.viewerSeen
          /\ next.viewer = seen.viewer
      BY <2>3 DEF Room, State
    <3> HIDE DEF next
    <3>2. mid.state = "negotiating" /\ new = Recorded(next, "session_active")
      BY <2>9 DEF CanAnswer, next
    <3> QED
      BY <2>6, <3>1, <3>2
  <2> QED
    BY <2>1, <2>4, <2>5, <2>7, <2>8, <2>9 DEF mid, seen
<1> QED
  BY <1>2, <1>3, <1>4, <1>5, <1>6 DEF RoomStep, mid

\* Whatever the clients send and however long nobody polled, once a request is
\* served no room is left open past its expiry, its invitation or a heartbeat.
THEOREM ServedStateIsAlwaysFresh == Spec => ServedStateIsFresh
<1>1. TypeOK /\ RoomsInv /\ [Next]_vars =>
        [now' = now => (\A r \in RoomId : Fresh(rooms[r]))']_vars
  <2> SUFFICES ASSUME TypeOK, RoomsInv, Next, now' = now, NEW r \in RoomId
               PROVE  Fresh(rooms[r])'
    OBVIOUS
  <2>1. rooms[r] \in Room /\ RoomInv(r, rooms[r]) /\ now \in Nat \ {0}
    BY DEF TypeOK, RoomsInv
  <2>2. ~Tick
    BY <2>1 DEF Tick
  <2>3. RoomStep(r, rooms[r], rooms'[r])
    BY <2>2, RequestIsRoomwise DEF Roomwise
  <2>4. Fresh(rooms'[r])
    BY <2>1, <2>3, RoomStepIsFresh
  <2> QED
    BY <2>4 DEF Fresh, Live, Open
<1> QED
  BY <1>1, TypeCorrect, RoomsInvariant, PTL DEF Spec, ServedStateIsFresh

------------------------------------------------------------------------------
(* Bearers open their own room and nothing else *)

\* A bearer that holds a room after the sweep is that room's own token.
LEMMA HoldersAreOwn ==
    ASSUME TypeOK, RoomsInv, NEW bearer, NEW r \in RoomId, NEW role \in Role,
           Holds(bearer, r, role, Swept(rooms[r]))
    PROVE  bearer \in {HostToken(r), ViewerToken(r)} /\ bearer # ZeroHash
<1>1. RoomInv(r, Swept(rooms[r]))
  BY SweptInv DEF TypeOK, RoomsInv
<1> QED
  BY <1>1 DEF Holds, RoomInv, Consistent, Role

\* No token opens two rooms.
LEMMA HoldersHoldOneRoom ==
    ASSUME TypeOK, RoomsInv, NEW bearer,
           NEW r \in RoomId, NEW role \in Role, Holds(bearer, r, role, Swept(rooms[r])),
           NEW s \in RoomId, NEW part \in Role, Holds(bearer, s, part, Swept(rooms[s]))
    PROVE  r = s
<1>1. bearer \in {HostToken(r), ViewerToken(r)} /\ bearer \in {HostToken(s), ViewerToken(s)}
  BY HoldersAreOwn
<1>2. bearer.room = r /\ bearer.room = s
  BY <1>1 DEF HostToken, ViewerToken
<1> QED
  BY <1>2

\* A room that a stop reached has ended.
LEMMA EndedRoomHasEnded ==
    ASSUME NEW room \in Room, NEW reason
    PROVE  EndedRoom(room, reason).state = "ended"
BY DEF EndedRoom, Recorded, Room

\* What every holder's request does: its own room alone is touched, its answer
\* is none of those of a failed authentication, and a stop ends the room.
LEMMA HoldersAnswer ==
    ASSUME TypeOK, Authorized
    PROVE  \E r \in RoomId, role \in Role : \E room :
              /\ Holds(reply'.bearer, r, role, Swept(rooms[r]))
              /\ rooms' = [SweptRooms EXCEPT ![r] = room]
              /\ reply'.status \notin {"unauthorized", "authentication_rate_limited"}
              /\ reply'.op = "end" => room.state = "ended"
<1>1. PICK bearer \in Bearer, r \in RoomId, role \in Role : Authorized!(bearer, r, role)
  BY DEF Authorized
<1>2. Holds(bearer, r, role, Swept(rooms[r]))
  BY <1>1
<1> DEFINE Done(room) ==
              /\ reply'.bearer = bearer
              /\ rooms' = [SweptRooms EXCEPT ![r] = room]
              /\ reply'.status \notin {"unauthorized", "authentication_rate_limited"}
              /\ reply'.op = "end" => room.state = "ended"
<1> SUFFICES \E room : Done(room)
  BY <1>2
<1>3. ASSUME NEW op \in {"room", "accept", "offer", "answer"}, NEW room, NEW kinds,
             Answered(bearer, op, r, room, kinds)
      PROVE  Done(room)
  BY <1>3 DEF Answered, Served, Replied
<1>4. ASSUME NEW op \in {"accept", "offer", "answer", "action"}, NEW status,
             status \notin {"unauthorized", "authentication_rate_limited"},
             Refused(bearer, op, r, role, status)
      PROVE  \E room : Done(room)
  <2>1. rooms' = [SweptRooms EXCEPT ![r] = Seen(SweptRooms[r], role)]
    BY <1>4 DEF Refused, Served
  <2>2. Done(Seen(SweptRooms[r], role))
    BY <1>4, <2>1 DEF Refused, Served, Replied
  <2> QED
    BY <2>2
<1>5. CASE GetRoom(bearer, r, role)
  BY <1>3, <1>5 DEF GetRoom
<1>6. CASE End(bearer, r, role)
  <2> DEFINE room == EndedRoom(Seen(Swept(rooms[r]), role), "session_ended")
  <2>1. room.state = "ended"
    <3>1. Swept(rooms[r]) \in Room /\ now \in Nat
      BY SweptType DEF TypeOK
    <3>2. Seen(Swept(rooms[r]), role) \in Room
      BY <3>1 DEF Seen, Room
    <3> QED
      BY <3>2, EndedRoomHasEnded
  <2> HIDE DEF room
  <2>2. Done(room)
    BY <1>6, <2>1 DEF End, room, Answered, Served, Replied
  <2> QED
    BY <2>2
<1>7. CASE Accept(bearer, r, role)
  BY <1>3, <1>4, <1>7 DEF Accept
<1>8. CASE Malformed(bearer, r, role)
  BY <1>4, <1>8 DEF Malformed
<1>v. ASSUME NEW can, NEW op, NEW type, NEW print
      PROVE  SdpVerdict(can, op, type, print)
                \notin {"unauthorized", "authentication_rate_limited"}
  BY DEF SdpVerdict
<1>9. ASSUME NEW type, NEW print, Offer(bearer, r, role, type, print)
      PROVE  \E room : Done(room)
  BY <1>3, <1>4, <1>9, <1>v DEF Offer
<1>10. ASSUME NEW type, NEW print, Answer(bearer, r, role, type, print)
       PROVE  \E room : Done(room)
  BY <1>3, <1>4, <1>10, <1>v DEF Answer
<1> HIDE DEF Done
<1> QED
  BY <1>1, <1>5, <1>6, <1>7, <1>8, <1>9, <1>10

\* Whoever holds a room after the sweep is served, for every bearer, room, budget
\* and clock: it is never taken for a failed authentication, and its stop ends
\* the room.
THEOREM HoldersAreAlwaysServed == Spec => HoldersAreServed
<1> DEFINE Served_ == \A r \in RoomId, role \in Role :
              Holds(reply'.bearer, r, role, Swept(rooms[r])) =>
                 /\ reply'.op \in {"room", "action"} =>
                        reply'.status \notin {"unauthorized", "authentication_rate_limited"}
                 /\ reply'.op = "end" => rooms'[r].state = "ended"
<1>1. TypeOK /\ RoomsInv /\ [Next]_vars => [Served_]_vars
  <2> SUFFICES ASSUME TypeOK, RoomsInv, Next, NEW r \in RoomId, NEW role \in Role,
                      Holds(reply'.bearer, r, role, Swept(rooms[r]))
               PROVE  /\ reply'.op \in {"room", "action"} =>
                            reply'.status \notin {"unauthorized", "authentication_rate_limited"}
                      /\ reply'.op = "end" => rooms'[r].state = "ended"
    OBVIOUS
  <2>1. reply'.bearer # ZeroHash
    BY DEF Holds
  <2>2. CASE Tick
    BY <2>1, <2>2 DEF Tick, NoReply
  <2>3. CASE Unrouted
    BY <2>1, <2>3 DEF Unrouted, Served, Replied
  <2>4. ASSUME NEW wellFormed \in BOOLEAN, CreateGuest(wellFormed)
        PROVE  FALSE
    BY <2>1, <2>4 DEF CreateGuest, IssueRoom, Served, Replied
  <2>5. ASSUME NEW invite, NEW name, NEW wellFormed \in BOOLEAN, Join(invite, name, wellFormed)
        PROVE  FALSE
    BY <2>1, <2>5 DEF Join, Served, Replied
  <2>6. ASSUME NEW bearer, Create(bearer) \/ Security(bearer)
        PROVE  reply'.op \in {"create", "security"}
    BY <2>6 DEF Create, IssueRoom, Security, Served, Replied
  <2>7. ASSUME NEW bearer, NEW op \in {"create", "security", "room", "action"},
               FailedAuth(bearer, op)
        PROVE  reply'.op \in {"create", "security"}
    <3>1. reply'.bearer = bearer /\ reply'.op = op
      BY <2>7 DEF FailedAuth, Served, Replied
    <3>2. Authenticated(bearer)
      BY <3>1 DEF Authenticated
    <3> QED
      BY <2>7, <3>1, <3>2 DEF FailedAuth, Rejects
  <2>8. CASE Authorized
    <3> DEFINE Answers(s, part, room) ==
                  /\ Holds(reply'.bearer, s, part, Swept(rooms[s]))
                  /\ rooms' = [SweptRooms EXCEPT ![s] = room]
                  /\ reply'.status \notin {"unauthorized", "authentication_rate_limited"}
                  /\ reply'.op = "end" => room.state = "ended"
    <3>1. PICK s \in RoomId, part \in Role : \E room : Answers(s, part, room)
      BY <2>8, HoldersAnswer
    <3>2. PICK room : Answers(s, part, room)
      BY <3>1
    <3>3. r = s
      BY <3>2, HoldersHoldOneRoom
    <3>4. rooms'[s] = room
      BY <3>2 DEF SweptRooms
    <3> QED
      BY <3>2, <3>3, <3>4
  <2> QED
    BY <2>2, <2>3, <2>4, <2>5, <2>6, <2>7, <2>8 DEF Next
<1> QED
  BY <1>1, TypeCorrect, RoomsInvariant, PTL DEF Spec, HoldersAreServed

\* What is left of the rooms no request speaks of.
LeftAlone(r) == rooms'[r] \in {Swept(rooms[r]), Prune(Swept(rooms[r]))}

\* The three ways a request may move a room: it creates it, its invitation opens
\* it, or its bearer is the room's own.
MayMove(r) ==
    \/ rooms[r].state = "free" /\ reply'.op \in {"create", "create-guest"}
    \/ rooms[r].state = "waiting" /\ reply'.op = "join"
    \/ reply'.bearer \in {HostToken(r), ViewerToken(r)}

\* A request leaves all rooms alone but at most one, that it may move.
LEMMA RequestsMoveTheirOwn ==
    ASSUME TypeOK, RoomsInv, Next, ~Tick
    PROVE  \/ \A s \in RoomId : LeftAlone(s)
           \/ \E r \in RoomId : MayMove(r) /\ \A s \in RoomId \ {r} : LeftAlone(s)
<1> DEFINE Goal == \/ \A s \in RoomId : LeftAlone(s)
                   \/ \E r \in RoomId : MayMove(r) /\ \A s \in RoomId \ {r} : LeftAlone(s)
<1>s. ASSUME rooms' = SweptRooms PROVE Goal
  BY <1>s DEF SweptRooms, LeftAlone
<1>r. ASSUME NEW r \in RoomId, NEW room, rooms' = [SweptRooms EXCEPT ![r] = room], MayMove(r)
      PROVE  Goal
  <2>1. \A s \in RoomId \ {r} : rooms'[s] = Swept(rooms[s])
    BY <1>r DEF SweptRooms
  <2> QED
    BY <1>r, <2>1 DEF LeftAlone
<1>i. ASSUME NEW bearer, NEW op \in {"create", "create-guest"}, IssueRoom(bearer, op)
      PROVE  Goal
  <2>1. CASE rooms' = Pruned
    BY <2>1 DEF Pruned, LeftAlone
  <2>2. ASSUME NEW r \in RoomId, rooms[r].state = "free",
               Served([Pruned EXCEPT ![r] = NewRoom(r)], <<"invitation_created">>, bearer, op, "ok")
        PROVE  Goal
    <3>1. \A s \in RoomId \ {r} : rooms'[s] = Prune(Swept(rooms[s]))
      BY <2>2 DEF Served, Pruned
    <3>2. MayMove(r)
      BY <2>2 DEF MayMove, Served, Replied
    <3> QED
      BY <3>1, <3>2 DEF LeftAlone
  <2> QED
    BY <1>i, <2>1, <2>2 DEF IssueRoom, Served
<1> SUFFICES Goal
  OBVIOUS
<1> HIDE DEF Goal
<1>1. CASE Unrouted
  BY <1>1, <1>s DEF Unrouted, Served
<1>2. ASSUME NEW bearer, Security(bearer)
      PROVE  Goal
  BY <1>2, <1>s DEF Security, Served
<1>3. ASSUME NEW bearer, NEW op, FailedAuth(bearer, op)
      PROVE  Goal
  BY <1>3, <1>s DEF FailedAuth, Served
<1>4. ASSUME NEW bearer, Create(bearer)
      PROVE  Goal
  BY <1>4, <1>i DEF Create
<1>5. ASSUME NEW wellFormed \in BOOLEAN, CreateGuest(wellFormed)
      PROVE  Goal
  BY <1>5, <1>s, <1>i DEF CreateGuest, Served
<1>6. ASSUME NEW invite, NEW name, NEW wellFormed \in BOOLEAN, Join(invite, name, wellFormed)
      PROVE  Goal
  <2>1. ASSUME NEW r \in RoomId, Matches(invite, r),
               Served([SweptRooms EXCEPT ![r] = Joined(@, r, name)], <<"viewer_joined">>,
                      ZeroHash, "join", "ok")
        PROVE  Goal
    <3>1. Swept(rooms[r]) = rooms[r] /\ rooms[r].state = "waiting"
      <4>1. rooms[r] \in Room /\ RoomInv(r, rooms[r])
        BY DEF TypeOK, RoomsInv
      <4>2. Swept(rooms[r]).state = "waiting"
        BY <2>1 DEF Matches
      <4>3. Open(Swept(rooms[r]))
        BY <4>2 DEF Open, Live
      <4> QED
        BY <4>1, <4>2, <4>3, SweptEdge
    <3>2. MayMove(r)
      BY <2>1, <3>1 DEF MayMove, Served, Replied
    <3>3. rooms' = [SweptRooms EXCEPT ![r] = Joined(SweptRooms[r], r, name)]
      BY <2>1 DEF Served
    <3> QED
      BY <3>2, <3>3, <1>r
  <2> QED
    BY <1>6, <1>s, <2>1 DEF Join, Served
<1>7. CASE Authorized
  <2>1. PICK r \in RoomId, role \in Role :
                /\ Holds(reply'.bearer, r, role, Swept(rooms[r]))
                /\ \E room : rooms' = [SweptRooms EXCEPT ![r] = room]
    BY <1>7, HoldersAnswer
  <2>2. MayMove(r)
    BY <2>1, HoldersAreOwn DEF MayMove
  <2> QED
    BY <2>1, <2>2, <1>r
<1> QED
  BY <1>1, <1>2, <1>3, <1>4, <1>5, <1>6, <1>7 DEF Next

\* Beyond the sweep and the pruning no request of any client moves a second room,
\* or one that neither its invitation nor its bearer opens.
THEOREM OnlyOwnRoomEverMoves == Spec => OnlyOwnRoomMoves
<1> DEFINE moved == {r \in RoomId : rooms'[r] \notin {rooms[r], Swept(rooms[r]), Prune(Swept(rooms[r]))}}
           Own == /\ Cardinality(moved) <= 1
                  /\ \A r \in moved :
                        \/ rooms[r].state = "free" /\ reply'.op \in {"create", "create-guest"}
                        \/ rooms[r].state = "waiting" /\ reply'.op = "join"
                        \/ reply'.bearer \in {HostToken(r), ViewerToken(r)}
<1>1. TypeOK /\ RoomsInv /\ [Next]_vars => [Own]_vars
  <2> SUFFICES ASSUME TypeOK, RoomsInv, Next
               PROVE  Own
    OBVIOUS
  <2>1. CASE moved = {}
    BY <2>1, FS_EmptySet
  <2>2. ASSUME NEW r \in RoomId, MayMove(r), moved \subseteq {r}
        PROVE  Own
    <3>1. IsFiniteSet({r}) /\ Cardinality({r}) = 1
      BY FS_Singleton
    <3> HIDE DEF moved
    <3>2. Cardinality(moved) <= 1
      BY <2>2, <3>1, FS_Subset
    <3> QED
      BY <2>2, <3>2 DEF MayMove
  <2>3. CASE Tick
    BY <2>1, <2>3 DEF Tick
  <2>4. CASE ~Tick
    BY <2>1, <2>2, <2>4, RequestsMoveTheirOwn DEF LeftAlone
  <2> QED
    BY <2>3, <2>4
<1> QED
  BY <1>1, TypeCorrect, RoomsInvariant, PTL DEF Spec, OnlyOwnRoomMoves
==============================================================================
