---------------------------- MODULE OneUseToken ------------------------------
(***************************************************************************)
(* What an enrolment token vault promises: a token has at most one taker,  *)
(* and one that has lapsed or been taken never becomes good again.         *)
(***************************************************************************)
CONSTANTS Token, Caller

VARIABLE fate   \* Token -> "none", "good", "lapsed", or the caller that took it

Init == fate = [t \in Token |-> "none"]

Good == {t \in Token : fate[t] = "good"}

\* Some tokens lapse, which happens when the vault next looks, and some are issued.
Change(old, new) ==
    /\ old \subseteq Good
    /\ new \subseteq {t \in Token : fate[t] = "none"}
    /\ fate' = [t \in Token |-> IF t \in old THEN "lapsed"
                                ELSE IF t \in new THEN "good" ELSE fate[t]]

Take(t, c) ==
    /\ fate[t] = "good"
    /\ fate' = [fate EXCEPT ![t] = c]

Next ==
    \/ \E old \in SUBSET Token, new \in SUBSET Token : Change(old, new)
    \/ \E t \in Token, c \in Caller : Take(t, c)

Spec == Init /\ [][Next]_fate
==============================================================================
