----------------------------- MODULE MCProduct -----------------------------
EXTENDS Product

CONSTANTS a, b, link, up, bad, good, mixed

\* Content with line ends of two kinds, which only others write, is as good as what it becomes.
MCSatisfies == (bad :> {}) @@ (good :> Engines) @@ (mixed :> Engines)
MCAsText == (bad :> bad) @@ (good :> good) @@ (mixed :> good)
MCPatches == {{a, link}, {a, up}}
MCOrder == <<up, a, link, b>>
MCIntents == {[named |-> {a}, mentioned |-> {}, inferred |-> {}, properties |-> FALSE],
              [named |-> {}, mentioned |-> {a}, inferred |-> {a, b}, properties |-> TRUE]}

\* The package file, and the file where the link leads, are not there until somebody writes them.
MCInit == Init /\ files[b] = Missing /\ files[link] = Missing
MCSpec == MCInit /\ [][Next]_vars
=============================================================================
