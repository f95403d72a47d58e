----------------------------- MODULE MCTracker -----------------------------
EXTENDS Tracker

CONSTANTS i1, r1, r2, h1, h2

\* One bundle_id, which r1 answers twice and r2 once.
ThreeEvents == {<<<<i1, r1>>, h1>>, <<<<i1, r1>>, h2>>, <<<<i1, r2>>, h1>>}

\* One answer.
OneEvent == {<<<<i1, r1>>, h1>>}
=============================================================================
