----------------------------- MODULE SessionGate -----------------------------
(***************************************************************************)
(* The session gate of native/agent-core/src/lib.rs: verification of       *)
(* authority-signed grants against the wall clock and a replay cache, and  *)
(* the gates it hands out, which run on the monotonic clock and admit      *)
(* capabilities and input packets.                                         *)
(*                                                                         *)
(* A grant is known by its identifier; the cryptography is one of three    *)
(* verdicts on an envelope.  Grants here belong to one session.            *)
(***************************************************************************)
EXTENDS Integers, FiniteSets, Sequences

CONSTANTS
    Jti,              \* grant identifiers
    Capability, ControlInput,
    Epoch,            \* input epochs the authority numbers its grants with
    Signable,         \* the grants the authority may sign
    PolicyScopes,     \* the scope lists a caller may pass
    RequiredScopes,   \* 5
    MaxLease,         \* 60 seconds
    CacheLimit,       \* 4096 grants remembered
    TicksPerSecond,
    MaxSequence,      \* bound on input sequence numbers
    MaxTime,          \* bound on both clocks, in ticks
    SetBack           \* may the wall clock be set back?

Grant == [issued : Nat, expires : Nat, capabilities : SUBSET Capability, epoch : Epoch]

ASSUME GateAssumption ==
    /\ {RequiredScopes, MaxLease, CacheLimit, TicksPerSecond, MaxSequence, MaxTime} \subseteq Nat \ {0}
    /\ ControlInput \in Capability /\ SetBack \in BOOLEAN
    /\ IsFiniteSet(Jti) /\ Signable \subseteq Grant
    /\ PolicyScopes \subseteq Seq(SUBSET Capability)

VARIABLES
    signed,     \* Jti -> what the authority signed under it
    wall,       \* the wall clock, in ticks
    mono,       \* the monotonic clock
    replay,     \* ReplayCache: Jti -> expiry remembered, or 0
    gate,       \* Jti -> the gate the grant opened
    answer,     \* what the last call returned
    accepted,   \* history: how often each grant was accepted
    entered     \* history: input packets accepted, with the grant of their gate

vars == <<signed, wall, mono, replay, gate, answer, accepted, entered>>

Channel == {"pointer", "critical"}
Packet  == [epoch : Epoch, channel : Channel, sequence : 1 .. MaxSequence]
Entry   == [grant : Jti, packet : Packet]

Gate == [deadline : Nat, allowed : SUBSET Capability, revoked : BOOLEAN,
         last : [Channel -> 0 .. MaxSequence], openedMono : Nat, openedWall : Nat]

\* No gate: one whose deadline has always been over.
NoGate == [deadline |-> 0, allowed |-> {}, revoked |-> TRUE,
           last |-> [c \in Channel |-> 0], openedMono |-> 0, openedWall |-> 0]

Verdict == {"ok", "message", "signature", "scope", "expired", "replay", "capability",
            "stale_input", "none"}

Says(op, subject, verdict) ==
    answer' = [op |-> op, subject |-> subject, verdict |-> verdict]

WallSeconds == wall \div TicksPerSecond

------------------------------------------------------------------------------
(* Verification *)

\* Not yet issued, over, or longer than any lease may be (saturating subtraction).
OutOfTime(grant) ==
    \/ grant.issued > WallSeconds
    \/ grant.expires <= WallSeconds
    \/ grant.expires - grant.issued > MaxLease

\* Mutant: the cache forgets a grant in its last second.
Kept_Early(expires) == expires > WallSeconds + 1

\* Mutant: the cache forgets nothing.
Kept_Always(expires) == TRUE

Kept(expires) == expires > WallSeconds

Retained == [j \in Jti |-> IF Kept(replay[j]) THEN replay[j] ELSE 0]

Remembered(cache) == {j \in Jti : cache[j] # 0}

\* Everything that is judged before the cache is looked at, in the code's order.
Preliminary(j, envelope, scoped) ==
    IF envelope # "sound" THEN envelope
    ELSE IF ~scoped THEN "scope"
    ELSE IF OutOfTime(signed[j]) THEN "expired"
    ELSE "ok"

Judged(j, policy) ==
    IF j \in Remembered(Retained) \/ Cardinality(Remembered(Retained)) >= CacheLimit
    THEN "replay"
    ELSE IF Len(policy) # RequiredScopes THEN "scope"
    ELSE "ok"

\* intersection: what the grant and every policy scope contain.
Allowed(grant, policy) ==
    {c \in grant.capabilities : \A i \in DOMAIN policy : c \in policy[i]}

\* Mutant: the second that has begun is counted in full, and one more.
DeadlineOf_Late(grant) == mono + (grant.expires - WallSeconds + 1) * TicksPerSecond

DeadlineOf(grant) == mono + (grant.expires - WallSeconds) * TicksPerSecond

NewGate(grant, policy) ==
    [deadline |-> DeadlineOf(grant), allowed |-> Allowed(grant, policy), revoked |-> FALSE,
     last |-> [c \in Channel |-> 0], openedMono |-> mono, openedWall |-> wall]

\* The cache is purged as soon as the grant is in time, whatever is decided next.
Verify(j, envelope, scoped, policy) ==
    LET early == Preliminary(j, envelope, scoped) IN
    /\ \/ /\ early # "ok"
          /\ Says("verify", j, early)
          /\ UNCHANGED <<replay, gate, accepted>>
       \/ /\ early = "ok" /\ Judged(j, policy) # "ok"
          /\ Says("verify", j, Judged(j, policy))
          /\ replay' = Retained
          /\ UNCHANGED <<gate, accepted>>
       \/ /\ early = "ok" /\ Judged(j, policy) = "ok"
          /\ Says("verify", j, "ok")
          /\ replay' = [Retained EXCEPT ![j] = signed[j].expires]
          /\ gate' = [gate EXCEPT ![j] = NewGate(signed[j], policy)]
          /\ accepted' = [accepted EXCEPT ![j] = @ + 1]
    /\ UNCHANGED <<signed, wall, mono, entered>>

------------------------------------------------------------------------------
(* The gates *)

\* Mutant: a revoked gate is judged by its deadline only.
Closed_DeadlineOnly(g) == mono >= g.deadline

Closed(g) == g.revoked \/ mono >= g.deadline

Checked(g, capability) ==
    IF Closed(g) THEN "expired"
    ELSE IF capability \notin g.allowed THEN "capability"
    ELSE "ok"

Check(j, capability) ==
    /\ Says("check", j, Checked(gate[j], capability))
    /\ UNCHANGED <<signed, wall, mono, replay, gate, accepted, entered>>

\* revoke and disconnect.
Revoke(j) ==
    /\ gate' = [gate EXCEPT ![j].revoked = TRUE]
    /\ Says("revoke", j, "none")
    /\ UNCHANGED <<signed, wall, mono, replay, accepted, entered>>

Stale(g, packet) == packet.sequence <= g.last[packet.channel]

\* Mutant: the packet's epoch is not compared.
OtherEpoch_Never(j, packet) == FALSE

OtherEpoch(j, packet) == packet.epoch # signed[j].epoch

InputVerdict(j, packet, wellFormed) ==
    IF Checked(gate[j], ControlInput) # "ok" THEN Checked(gate[j], ControlInput)
    ELSE IF ~wellFormed THEN "message"
    ELSE IF OtherEpoch(j, packet) \/ Stale(gate[j], packet) THEN "stale_input"
    ELSE "ok"

ValidateInput(j, packet, wellFormed) ==
    LET verdict == InputVerdict(j, packet, wellFormed) IN
    /\ Says("input", [grant |-> j, packet |-> packet], verdict)
    /\ IF verdict = "ok"
       THEN /\ gate' = [gate EXCEPT ![j].last[packet.channel] = packet.sequence]
            /\ entered' = entered \cup {[grant |-> j, packet |-> packet]}
       ELSE UNCHANGED <<gate, entered>>
    /\ UNCHANGED <<signed, wall, mono, replay, accepted>>

------------------------------------------------------------------------------
(* The clocks *)

Tick ==
    /\ wall < MaxTime /\ mono < MaxTime
    /\ wall' = wall + 1 /\ mono' = mono + 1
    /\ Says("clock", "tick", "none")
    /\ UNCHANGED <<signed, replay, gate, accepted, entered>>

\* The user or the network sets the wall clock.
SetClock(t) ==
    /\ t > wall \/ SetBack
    /\ wall' = t
    /\ Says("clock", "set", "none")
    /\ UNCHANGED <<signed, mono, replay, gate, accepted, entered>>

\* The authority draws a fresh identifier for every grant; epochs may repeat.
Init ==
    /\ signed \in [Jti -> Signable]
    /\ wall = 0 /\ mono = 0
    /\ replay = [j \in Jti |-> 0]
    /\ gate = [j \in Jti |-> NoGate]
    /\ answer = [op |-> "none", subject |-> "none", verdict |-> "none"]
    /\ accepted = [j \in Jti |-> 0]
    /\ entered = {}

Next ==
    \/ Tick
    \/ \E t \in 0 .. MaxTime : SetClock(t)
    \/ \E j \in Jti :
          \/ \E envelope \in {"message", "signature", "sound"}, scoped \in BOOLEAN,
                policy \in PolicyScopes : Verify(j, envelope, scoped, policy)
          \/ \E capability \in Capability : Check(j, capability)
          \/ Revoke(j)
          \/ \E packet \in Packet, wellFormed \in BOOLEAN : ValidateInput(j, packet, wellFormed)

Spec == Init /\ [][Next]_vars

------------------------------------------------------------------------------
(* What the gate promises *)

\* Every variable has its type; the cache stays within its limit.
TypeOK ==
    /\ signed \in [Jti -> Signable]
    /\ wall \in 0 .. MaxTime /\ mono \in 0 .. MaxTime
    /\ replay \in [Jti -> Nat]
    /\ Cardinality(Remembered(replay)) <= CacheLimit
    /\ gate \in [Jti -> Gate]
    /\ answer.verdict \in Verdict
    /\ accepted \in [Jti -> Nat]
    /\ entered \subseteq Entry

\* A lease is not renewable with the grant it came from: no grant is accepted
\* twice, although the cache forgets it when it expires.
GrantAcceptedOnce == \A j \in Jti : accepted[j] <= 1

\* A gate closes less than a second after its grant, as the wall clock stood
\* when it was opened, and never later than MaxLease after it was opened: whole
\* seconds of one clock are turned into an instant of the other.
LeaseIsTheGrants ==
    \A j \in Jti :
        accepted[j] > 0 =>
            LET g == gate[j] IN
            /\ g.deadline - g.openedMono < (signed[j].expires + 1) * TicksPerSecond - g.openedWall
            /\ g.deadline - g.openedMono <= MaxLease * TicksPerSecond

Over(j) == gate[j].revoked \/ mono >= gate[j].deadline

\* "Reconnection requires a new grant" (lib.rs:243): once revoked, disconnected
\* or past its deadline, the gate of a grant admits nothing and is not opened
\* again by presenting the same grant.
ClosedStaysClosed ==
    [][\A j \in Jti :
          accepted[j] > 0 /\ Over(j) =>
              /\ Over(j)'
              /\ answer'.op = "check" /\ answer'.subject = j => answer'.verdict # "ok"
              /\ answer'.op = "input" /\ answer'.subject.grant = j => answer'.verdict # "ok"]_vars

\* An input packet enters at most once through the gate of a grant, and having
\* entered it is not carried over to a gate of another epoch.
InputsEnterOnce ==
    [][answer'.op = "input" /\ answer'.verdict = "ok" =>
          \A entry \in entered :
             entry.packet = answer'.subject.packet =>
                 /\ entry.grant # answer'.subject.grant
                 /\ signed[entry.grant].epoch = signed[answer'.subject.grant].epoch]_vars

\* A full cache refuses, and recovers: a grant is refused as replayed only if it
\* was accepted before or CacheLimit accepted grants are still unexpired.
ReplayRefusalsAreDeserved ==
    [][answer'.op = "verify" /\ answer'.verdict = "replay" =>
          \/ accepted[answer'.subject] > 0
          \/ Cardinality({j \in Jti : accepted[j] > 0 /\ signed[j].expires > WallSeconds})
                >= CacheLimit]_vars
==============================================================================
