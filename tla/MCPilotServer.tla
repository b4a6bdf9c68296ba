---------------------------- MODULE MCPilotServer ----------------------------
(* The pilot server on small instances; see README.md for the bounds. *)
EXTENDS PilotServer, TLC

\* Rooms are interchangeable, and so are names and fingerprints.
Symmetry == Permutations(RoomId) \cup Permutations(Name) \cup Permutations(Fingerprint)

(***************************************************************************)
(* The safety runs identify states with the same future.  The handlers     *)
(* read instants only as differences from the clock, so a state is known   *)
(* by the ages of its instants; a lapsed budget behaves as an untouched    *)
(* one; an ended room's heartbeats are never read again; `events` and      *)
(* `reply` are only written.  Breadth-first search meets a shifted state   *)
(* at its earliest clock first, the one with the longest future.           *)
(***************************************************************************)
Current(b) ==
    IF b.start = Never \/ now - b.start >= Window
    THEN Untouched
    ELSE [b EXCEPT !.start = now - @]

Age(t) == IF t = Never THEN -1 ELSE now - t

Due(t) == IF t = Never THEN -1 ELSE t - now

RoomFuture(r) ==
    LET room == rooms[r] IN
    CASE ~Live(room) -> <<room.state>>
      [] room.state = "ended" ->
            <<"ended", room.viewer, room.events, Due(room.expires), Due(authority[r])>>
      [] OTHER ->
            <<room.state, room.name, room.offer, room.answer, room.events, Due(room.expires),
              Age(room.hostSeen), Age(room.viewerSeen), Due(authority[r])>>

Futures ==
    <<[r \in RoomId |-> RoomFuture(r)], Current(guests), Current(joins), Current(failedAuth)>>
==============================================================================
