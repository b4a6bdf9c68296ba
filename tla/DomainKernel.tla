---------------------------- MODULE DomainKernel -----------------------------
(***************************************************************************)
(* The control plane's kernel (services/api/internal/domain/security.go):  *)
(* its token vault and a support session, each with a lock of its own and  *)
(* callers that read one clock before they wait for it.                    *)
(***************************************************************************)
EXTENDS TokenVault

CONSTANTS ConsentTime, SetupTime, LeaseTime   \* see ConsentSession

ASSUME KernelAssumption == {ConsentTime, SetupTime, LeaseTime} \subseteq Nat

VARIABLES state, deadline, consumed, cancelled

session == <<state, deadline, consumed, cancelled>>
kernel == <<vars, session>>

Support == INSTANCE ConsentSession

KernelInit == Init /\ Support!Init

KernelNext ==
    \/ Next /\ UNCHANGED session
    \/ Support!Next /\ UNCHANGED <<records, until, taker>>

KernelSpec == KernelInit /\ [][KernelNext]_kernel

------------------------------------------------------------------------------
(* Properties: the vault's are TokenVault's, these are the session's *)

\* A session that anyone cancelled stays ended: no answer or renewal that was
\* waiting for the lock brings it back.  However often the technician renews, and
\* with clocks however old, the lease of an active one reaches no further than
\* one lease from the present.
SessionAuthorityBounded == Support!AuthorityBounded

\* Consent, Revoke and Renew only make moves of the table CanTransition, which
\* they do not consult; cancelling a failed session is the one exception.
StepsFollowTheTable == Support!StepsFollowTheTable
==============================================================================
