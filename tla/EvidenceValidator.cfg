CONSTANTS
    c1 = c1
    c2 = c2
    c3 = c3
    d1 = d1
    d2 = d2
    d3 = d3
    t1 = t1
    t2 = t2
    p = p
    r = r
    None = None
    Clauses = {c1, c2, c3}
    Documents = {d1, d2, d3}
    Pages = {1, 2}
    Texts = {t1, t2}
    Pairs = {p, r}
    Quotes <- MCQuotes
    DocumentOf <- MCDocumentOf
    PageOf <- MCPageOf
    TextOf <- MCTextOf
    Within <- MCWithin
    SidesOf <- MCSidesOf
    Citations <- MCCitations
    MaxCitations = 3
SPECIFICATION Spec
INVARIANTS
    TypeOK
    FindingsAreSupported
    ConfidenceIsEarned
CHECK_DEADLOCK FALSE
