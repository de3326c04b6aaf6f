----------------------------- MODULE RateLimit -----------------------------
(***************************************************************************)
(* A bucket of rate_limit_buckets: how many requests the present window    *)
(* has counted and how long it lasts.  allowRequest counts and restarts    *)
(* the window in one statement, so that concurrent requests are counted    *)
(* one after the other.  A refused request counts too.  Nothing calls       *)
(* cleanupRateLimits.                                                      *)
(***************************************************************************)
EXTENDS Naturals

CONSTANTS
    Limit,   \* requests per window
    Window   \* how long a window lasts

ASSUME RateAssumption == Limit \in Nat \ {0} /\ Window \in Nat \ {0}

\* A bucket without a row is one whose window is over.
NoBucket == [count |-> 0, left |-> 0]

\* Mutant: a request after the end would restart the count, not the window.
CountedUnwindowed(bucket) == IF bucket.left = 0 THEN [count |-> 1, left |-> 0] ELSE [bucket EXCEPT !.count = @ + 1]

Counted(bucket) ==
    IF bucket.left = 0 THEN [count |-> 1, left |-> Window] ELSE [bucket EXCEPT !.count = @ + 1]

Allowed(bucket) == Counted(bucket).count <= Limit

Later(bucket) == [bucket EXCEPT !.left = IF @ = 0 THEN 0 ELSE @ - 1]
=============================================================================
