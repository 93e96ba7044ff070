--------------------------- MODULE MCCachedParser ---------------------------
EXTENDS CachedParser

CONSTANTS one, two, h1, h2, h3

\* Of a budget of three, h1 and h2 take all; h3 is bigger than the budget.
MCBytes == [h \in Hashes |-> CASE h = h1 -> 1 [] h = h2 -> 2 [] OTHER -> 4]

\* Every failure but the two that go unnoticed ("open" and "write").
NoticedFaults == {"crash", "mkdir", "remove", "clean", "save", "read"}
=============================================================================
