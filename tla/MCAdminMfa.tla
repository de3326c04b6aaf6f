----------------------------- MODULE MCAdminMfa -----------------------------
EXTENDS AdminMfa, TLC

(* One administrator: no action reads a row of another.  Set-up and reset  *)
(* of the account run between any two steps of its requests.               *)

\* Requests differ in what they do only.
Interchangeable == Permutations(Handler)

\* A second token is drawn where there is one enrolment, no reset and no
\* stale save; everything else happens with one token.
SecondTokenAlone ==
    last.token = 2 => last.batch = 1 /\ lost = {} /\ \A u \in Admin : resets[u] = 0
=============================================================================
