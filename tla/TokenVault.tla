----------------------------- MODULE TokenVault ------------------------------
(***************************************************************************)
(* The in-memory enrolment token vault of the control plane's kernel       *)
(* (services/api/internal/domain/security.go).  Issue and Consume hold the *)
(* vault's lock, but the instant they compare with is their caller's and   *)
(* was read before the lock: any instant up to the present.  Calls that    *)
(* are refused change nothing and are no steps, but for an Issue refused   *)
(* for want of room, which still purges.                                   *)
(***************************************************************************)
EXTENDS Integers, FiniteSets

CONSTANTS
    Token,      \* what rand.Read may yield, no two calls the same
    Tenant,
    Caller,
    Capacity,   \* 10 000 records
    MaxTtl,     \* 24 hours
    MaxClock    \* bound: the last instant

ASSUME VaultAssumption ==
    /\ IsFiniteSet(Token)
    /\ {Capacity, MaxTtl, MaxClock} \subseteq Nat
    /\ {"none", "good", "lapsed"} \cap Caller = {}

VARIABLES
    clock,
    records,   \* TokenVault.records: a function on the tokens it holds
    until,     \* history: Token -> when it expires, 0 before its issue
    taker      \* history: Token -> the caller whose Consume succeeded last

vars == <<clock, records, until, taker>>

Record == [tenant : Tenant, expires : Nat, consumed : BOOLEAN]
NoTaker == "none"

------------------------------------------------------------------------------
\* Mutant: a token lapses in the last instant it is good for.
Unexpired_Early(now) == {t \in DOMAIN records : now + 1 < records[t].expires}

Unexpired(now) == {t \in DOMAIN records : now < records[t].expires}

HasRoom(held) == Cardinality(held) < Capacity

Issue(t, tenant, now, ttl) ==
    LET held == Unexpired(now) IN
    /\ until[t] = 0
    /\ IF HasRoom(held)
         THEN /\ records' = [u \in held \cup {t} |->
                               IF u = t THEN [tenant   |-> tenant,
                                              expires  |-> now + ttl,
                                              consumed |-> FALSE]
                               ELSE records[u]]
              /\ until' = [until EXCEPT ![t] = now + ttl]
         ELSE /\ records' = [u \in held |-> records[u]]
              /\ UNCHANGED until
    /\ UNCHANGED <<clock, taker>>

Redeemable(t, tenant, now) ==
    /\ t \in DOMAIN records
    /\ records[t].tenant = tenant
    /\ ~records[t].consumed
    /\ now < records[t].expires

\* Mutant: the copy is marked and not written back.
Consume_Copy(c, t, tenant, now) ==
    /\ Redeemable(t, tenant, now)
    /\ taker' = [taker EXCEPT ![t] = c]
    /\ UNCHANGED <<clock, records, until>>

Consume(c, t, tenant, now) ==
    /\ Redeemable(t, tenant, now)
    /\ records' = [records EXCEPT ![t] = [tenant   |-> tenant,
                                          expires  |-> @.expires,
                                          consumed |-> TRUE]]
    /\ taker'   = [taker EXCEPT ![t] = c]
    /\ UNCHANGED <<clock, until>>

Tick ==
    /\ clock < MaxClock
    /\ clock' = clock + 1
    /\ UNCHANGED <<records, until, taker>>

Init ==
    /\ clock = 0
    /\ records = [t \in {} |-> 0]
    /\ until = [t \in Token |-> 0]
    /\ taker = [t \in Token |-> NoTaker]

Next ==
    \/ Tick
    \/ \E t \in Token, tenant \in Tenant, now \in 0 .. clock :
         \/ \E ttl \in 1 .. MaxTtl : Issue(t, tenant, now, ttl)
         \/ \E c \in Caller : Consume(c, t, tenant, now)

Spec == Init /\ [][Next]_vars

------------------------------------------------------------------------------
(* Properties *)

\* The vault's records are records of tokens that were issued.
TypeOK ==
    /\ clock \in Nat
    /\ DOMAIN records \subseteq {t \in Token : until[t] > 0}
    /\ \A t \in DOMAIN records : records[t] \in Record /\ records[t].expires = until[t]
    /\ until \in [Token -> Nat]
    /\ taker \in [Token -> Caller \cup {NoTaker}]

\* However many tokens are issued at whatever instants, the vault never holds
\* more than it may.
VaultBounded == Cardinality(DOMAIN records) <= Capacity

\* A token that was issued, has not been taken and has not expired can still be
\* redeemed: no purge on behalf of another call loses it.
GoodTokensAreKept ==
    \A t \in Token :
      clock < until[t] /\ taker[t] = NoTaker => t \in DOMAIN records /\ ~records[t].consumed

\* The vault as the abstract one sees it: a token that is in the vault unused
\* is good, one that was purged unused has lapsed.
Fate == [t \in Token |->
           IF until[t] = 0 THEN "none"
           ELSE IF taker[t] # NoTaker THEN taker[t]
           ELSE IF t \in DOMAIN records THEN "good" ELSE "lapsed"]

Promise == INSTANCE OneUseToken WITH fate <- Fate

\* The vault keeps the promise of OneUseToken, with callers that race for the
\* lock and clocks read at different instants: one taker for each token, and
\* none once it has lapsed.
OneTaker == Promise!Spec
==============================================================================
