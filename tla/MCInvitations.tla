--------------------------- MODULE MCInvitations ---------------------------
\* Two handlers and one address: two invitations, three tokens and one failure.
EXTENDS Invitations, TLC

Interchangeable == Permutations(Handler) \cup Permutations(Address)
=============================================================================
