---------------------------- MODULE RoomLifecycle ----------------------------
(***************************************************************************)
(* What the pilot server promises of one attended room, without clocks,    *)
(* tokens, budgets or requests: one viewer joins once, the host consents,  *)
(* an offer and an answer are fixed once each, and the room ends for good. *)
(* One server step may move many rooms (a sweep ends every stale one), so  *)
(* a step of this specification moves each room along one edge or none.    *)
(***************************************************************************)
CONSTANTS RoomId, Name, Fingerprint, NoName, NoFingerprint

VARIABLES
    phase,    \* RoomId -> the room's state, or "free" / "gone" outside its life
    viewer,   \* RoomId -> the name that joined
    offer,    \* RoomId -> the host's fingerprint
    answer    \* RoomId -> the viewer's fingerprint

lifecycle == <<phase, viewer, offer, answer>>

Phase == {"free", "waiting", "awaiting_consent", "negotiating", "active", "ended", "gone"}

Keeps(r, names, descriptions) ==
    /\ names => viewer'[r] = viewer[r]
    /\ descriptions => offer'[r] = offer[r] /\ answer'[r] = answer[r]

Invite(r) == phase[r] = "free" /\ phase'[r] = "waiting" /\ Keeps(r, TRUE, TRUE)

\* The single use of the invitation: only a waiting room takes a viewer.
Join(r) ==
    /\ phase[r] = "waiting" /\ phase'[r] = "awaiting_consent"
    /\ viewer'[r] \in Name
    /\ Keeps(r, FALSE, TRUE)

Consent(r) ==
    /\ phase[r] = "awaiting_consent" /\ phase'[r] = "negotiating"
    /\ Keeps(r, TRUE, TRUE)

Offer(r) ==
    /\ phase[r] = "negotiating" /\ phase'[r] = "negotiating"
    /\ offer[r] = NoFingerprint /\ offer'[r] \in Fingerprint
    /\ answer'[r] = answer[r] /\ viewer'[r] = viewer[r]

Answer(r) ==
    /\ phase[r] = "negotiating" /\ phase'[r] = "active"
    /\ offer[r] # NoFingerprint /\ answer[r] = NoFingerprint /\ answer'[r] \in Fingerprint
    /\ offer'[r] = offer[r] /\ viewer'[r] = viewer[r]

\* Any party, or the server's timers, may end a room; its descriptions go.
End(r) ==
    /\ phase[r] \notin {"free", "ended", "gone"} /\ phase'[r] = "ended"
    /\ offer'[r] = NoFingerprint /\ answer'[r] = NoFingerprint
    /\ viewer'[r] = viewer[r]

Forget(r) ==
    /\ phase[r] \notin {"free", "gone"} /\ phase'[r] = "gone"
    /\ viewer'[r] = NoName /\ offer'[r] = NoFingerprint /\ answer'[r] = NoFingerprint

Rests(r) == phase'[r] = phase[r] /\ Keeps(r, TRUE, TRUE)

Moves(r) ==
    \/ Invite(r) \/ Join(r) \/ Consent(r) \/ Offer(r)
    \/ Answer(r) \/ End(r) \/ Forget(r) \/ Rests(r)

Init ==
    /\ phase = [r \in RoomId |-> "free"]
    /\ viewer = [r \in RoomId |-> NoName]
    /\ offer = [r \in RoomId |-> NoFingerprint]
    /\ answer = [r \in RoomId |-> NoFingerprint]

Next ==
    /\ phase' \in [RoomId -> Phase]
    /\ viewer' \in [RoomId -> Name \cup {NoName}]
    /\ offer' \in [RoomId -> Fingerprint \cup {NoFingerprint}]
    /\ answer' \in [RoomId -> Fingerprint \cup {NoFingerprint}]
    /\ \A r \in RoomId : Moves(r)

Spec == Init /\ [][Next]_lifecycle
==============================================================================
