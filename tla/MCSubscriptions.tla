-------------------------- MODULE MCSubscriptions --------------------------
\* An instance of the subscription's checks: one work, a scheduled and a manual
\* check that may overlap, one user.
EXTENDS Subscriptions

CONSTANTS book, first, second, user1

OneWork == {book}
TwoChecks == {first, second}
OneUser == {user1}
=============================================================================
