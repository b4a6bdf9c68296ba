----------------------------- MODULE FixedWindow -----------------------------
(***************************************************************************)
(* The fixed-window admission budget of the pilot server: `budget.allow`   *)
(* in security.go, and the same arithmetic inlined for guest rooms in      *)
(* server.go's createGuest (fields guestWindow and guestCreates).  A       *)
(* budget remembers when its current window was opened and how many        *)
(* requests it has admitted since; the first request that arrives a whole  *)
(* window later opens the next one.                                        *)
(***************************************************************************)
EXTENDS Integers

CONSTANT Window          \* length of a window in clock ticks (time.Minute)

ASSUME WindowAssumption == Window \in Nat \ {0}

\* The zero time.Time: real instants are positive.
Never == 0

Budget(limit) == [start : Nat, used : 0 .. limit]

Untouched == [start |-> Never, used |-> 0]

\* The budget a request arriving at instant t is charged to.
Opened(b, t) ==
    IF b.start = Never \/ t - b.start >= Window
    THEN [start |-> t, used |-> 0]
    ELSE b

Admits(b, t, limit) == Opened(b, t).used < limit

\* Mutant: the request that opens a window is not counted in it.
Spent_Uncounted(b, t, limit) ==
    IF b.start = Never \/ t - b.start >= Window THEN Opened(b, t)
    ELSE IF Admits(b, t, limit) THEN [b EXCEPT !.used = @ + 1] ELSE b

\* The budget after that request; a refused request spends nothing.
Spent(b, t, limit) ==
    IF Admits(b, t, limit)
    THEN [Opened(b, t) EXCEPT !.used = @ + 1]
    ELSE Opened(b, t)
==============================================================================
