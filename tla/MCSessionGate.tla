---------------------------- MODULE MCSessionGate ----------------------------
(* The session gate on small instances; see README.md for the bounds. *)
EXTENDS SessionGate, TLC

\* Grants of every lease up to one that is too long, and those that are not.
MCViewing ==
    {[issued |-> i, expires |-> i + n, capabilities |-> Capability \ {ControlInput}, epoch |-> e] :
        i \in 0 .. 1, n \in 1 .. MaxLease + 1, e \in Epoch}

\* Grants that may also control: one of a second in either epoch, the longest
\* there may be, issued a second later, and one that is too long.
MCMixed ==
    {[issued |-> t[1], expires |-> t[2], capabilities |-> Capability, epoch |-> t[3]] :
        t \in {<<0, 1, 1>>, <<0, 1, 2>>, <<1, MaxLease + 1, 1>>, <<0, MaxLease + 1, 1>>}}

\* The right number of scopes and one too few; and, for inputs, none that control.
MCCounted == {[i \in 1 .. n |-> Capability] : n \in {RequiredScopes - 1, RequiredScopes}}

MCPolicy ==
    MCCounted \cup {[i \in 1 .. RequiredScopes |-> Capability \ {ControlInput}]}

\* `answer` is only written: calls are judged as they happen.
Memory == <<signed, wall, mono, replay, gate, accepted, entered>>

Symmetry == Permutations(Jti)
==============================================================================
