----------------------------- MODULE MCPassStream -----------------------------
(* Small instances of PassStream for TLC. *)
EXTENDS PassStream

CONSTANTS p1, p2, m, a, b

\* Two passes that contend for the lock and a model download beside them.
TwoPasses == {p1, p2}
WithModel == {p1, p2, m}

\* One pass alone, with two kinds of events to tell an order from another.
OnePass == {p1}
TwoItems == {a, b}
OneItem == {a}
==============================================================================
