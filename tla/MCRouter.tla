------------------------------ MODULE MCRouter ------------------------------
(* Model-checking instances of Router.  a originates; b, c and d relay.      *)
EXTENDS Router
CONSTANTS a, b, c, d

Four == {a, b, c, d}

\* A ring behind a in which no two nodes hold sessions with each other, so
\* that dispatch lets the packets pass: a -> b -> c -> d -> b.
Ring == {<<a, b>>, <<b, c>>, <<c, d>>, <<d, b>>}

\* A second way to c, and b reconnects to c after a restart.
Later == {<<a, c>>, <<b, c>>}

\* c may come to know the bundle of a.
Verifier == {<<c, a>>}

\* a and b hold sessions with each other.
Mutual == {<<a, b>>, <<b, a>>}
=============================================================================
