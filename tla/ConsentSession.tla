--------------------------- MODULE ConsentSession ----------------------------
(***************************************************************************)
(* A support session of the control plane's kernel                         *)
(* (services/api/internal/domain/security.go): the device's user answers,  *)
(* the technician renews, anyone may cancel, each under the session's lock *)
(* and with an instant the caller read before it.  Calls for another       *)
(* tenant, device, technician or policy version, and those refused without *)
(* a change of state, are no steps.  Nothing in the repository moves a     *)
(* session from negotiating to active, so a session starts either awaiting *)
(* consent or active, as its tests make them.  The clock is the kernel's:  *)
(* no step here moves it.                                                  *)
(***************************************************************************)
EXTENDS Integers

CONSTANTS
    ConsentTime,   \* ticks an answer is awaited at most, the caller's choice
    SetupTime,     \* 30 s for the negotiation
    LeaseTime      \* 60 s, the longest lease

VARIABLES
    clock,
    state,      \* Session.State
    deadline,   \* Session.Deadline
    consumed,   \* Session.consumed
    cancelled   \* history: Revoke has returned

vars == <<clock, state, deadline, consumed, cancelled>>

State == {"requested", "awaiting_consent", "negotiating", "authenticating",
          "active", "reconnecting", "ended", "failed"}
Terminal == {"ended", "failed"}

------------------------------------------------------------------------------
\* The order of a session's life, with the one loop of reconnecting
Successor ==
    {<<"requested", "awaiting_consent">>, <<"awaiting_consent", "negotiating">>,
     <<"negotiating", "authenticating">>, <<"authenticating", "active">>,
     <<"active", "reconnecting">>, <<"reconnecting", "authenticating">>}

\* Mutant: only a session that runs can end.
CanTransition_Late(from, to) ==
    /\ from \in State \ Terminal
    /\ (to \in Terminal /\ from = "active") \/ (<<from, to>> \in Successor)

CanTransition(from, to) ==
    from \in State \ Terminal /\ (to \in Terminal \/ (<<from, to>> \in Successor))

Consent(accepted, now) ==
    /\ state = "awaiting_consent" /\ ~consumed
    /\ IF now >= deadline
         THEN state' = "failed" /\ UNCHANGED <<deadline, consumed>>
         ELSE /\ consumed' = TRUE
              /\ IF accepted
                   THEN /\ state'    = "negotiating"
                        /\ deadline' = now + SetupTime
                   ELSE state' = "ended" /\ UNCHANGED deadline
    /\ UNCHANGED <<clock, cancelled>>

\* Mutant: the consent is used up, the state stays.
Revoke_Forgets ==
    /\ consumed'  = TRUE
    /\ cancelled' = TRUE
    /\ UNCHANGED <<clock, state, deadline>>

Revoke ==
    /\ state'     = "ended"
    /\ consumed'  = TRUE
    /\ cancelled' = TRUE
    /\ UNCHANGED <<clock, deadline>>

Renew(seconds, now) ==
    /\ state = "active"
    /\ IF now >= deadline
         THEN state' = "ended" /\ UNCHANGED deadline
         ELSE deadline' = now + seconds /\ UNCHANGED state
    /\ UNCHANGED <<clock, consumed, cancelled>>

Init ==
    /\ \/ state = "awaiting_consent" /\ deadline \in 1 .. ConsentTime
       \/ state = "active" /\ deadline \in 1 .. LeaseTime
    /\ consumed = FALSE /\ cancelled = FALSE

Next ==
    \/ Revoke
    \/ \E now \in 0 .. clock :
         \/ \E accepted \in BOOLEAN : Consent(accepted, now)
         \/ \E seconds \in 1 .. LeaseTime : Renew(seconds, now)

------------------------------------------------------------------------------
(* Properties *)

\* A session that anyone cancelled stays ended: no answer or renewal that was
\* waiting for the lock brings it back.  However often the technician renews, and
\* with clocks however old, the lease of an active one reaches no further than
\* one lease from the present.
AuthorityBounded ==
    /\ cancelled => state = "ended"
    /\ state = "active" => deadline <= clock + LeaseTime

\* The session's own steps are steps of the table CanTransition, which Consent,
\* Revoke and Renew do not consult; the one exception is that cancelling a
\* failed session ends it.
StepsFollowTheTable ==
    [][state' # state =>
         \/ CanTransition(state, state')
         \/ (state = "failed" /\ state' = "ended" /\ cancelled')]_vars
==============================================================================
