--------------------------- MODULE MC_HTTPSessions ---------------------------
(* A small instance of HTTPSessions.                                        *)
EXTENDS HTTPSessions
CONSTANTS h1, h2, s1

TwoHandlers == {h1, h2}
OneSession  == {s1}
=============================================================================
