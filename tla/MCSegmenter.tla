---- MODULE MCSegmenter ----
EXTENDS Segmenter

L(shape, length, words, stop, capital) ==
    [shape |-> shape, length |-> length, words |-> words, stop |-> stop, capital |-> capital]

\* A heading, a heading that is too long to be one, a blank line, a sentence, a sentence that
\* goes on, and a short end of one.
MCLines ==
    {L({"caps"}, 15, 2, FALSE, TRUE),
     L({"numbered"}, 36, 5, TRUE, TRUE),
     L({}, 0, 0, FALSE, FALSE),
     L({}, 45, 8, TRUE, TRUE),
     L({}, 12, 2, FALSE, TRUE),
     L({}, 9, 1, TRUE, FALSE)}

PagesOf(n) == UNION {[1..k -> MCLines] : k \in 0..n}

MCDocuments == {<<p>> : p \in PagesOf(4)} \cup {<<p, q>> : p \in PagesOf(3), q \in PagesOf(2)}
====
