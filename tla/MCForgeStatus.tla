----------------------------- MODULE MCForgeStatus -----------------------------
\* Two issue numbers, for the form to wait for one while the other lands, and a
\* PR that is probed for.
EXTENDS ForgeStatus

CONSTANTS acme, fork, r1

MCKinds == {<<"issue", 1>>, <<"issue", 2>>, <<"pr", 1>>}

=============================================================================
