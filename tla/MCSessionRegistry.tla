------------------------- MODULE MCSessionRegistry -------------------------
(* Model values for TLC: two callers that race on two names.                *)
EXTENDS SessionRegistry

CONSTANTS c1, c2, default, lab, e1, e2

MCCallers == {c1, c2}
MCNames == {default, lab}
MCEntries == {e1, e2}
=============================================================================
