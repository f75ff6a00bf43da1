---- MODULE CandidateSelection ----
(***************************************************************************)
(* Topics (parsing/metadata.py) and the score by which pairs of clauses are *)
(* chosen for the language model (matching/scoring.py).  Weights and        *)
(* similarities are counted in sixtieths, so that the quotients of sets of  *)
(* up to six are whole; a score is in sixtieths of sixtieths.               *)
(***************************************************************************)
EXTENDS Naturals, Sequences, FiniteSets

CONSTANTS TopicWeight, EntityWeight, DateWeight, TfidfWeight, Threshold   \* of core/config.py

Unit == 60

ASSUME WeightsAssumption ==
    {TopicWeight, EntityWeight, DateWeight, TfidfWeight, Threshold} \subseteq Nat

\* Topics in the order of the table, with the words that give them away.
TopicTable == <<
    <<"termination", {"terminate", "termination", "end of agreement", "cancellation"}>>,
    <<"payment", {"pay", "payment", "fee", "invoice", "compensation", "remuneration", "due fifteen", "receipt"}>>,
    <<"liability", {"liability", "liable", "damages", "limitation of liability"}>>,
    <<"indemnification", {"indemnify", "indemnification", "hold harmless", "defend"}>>,
    <<"confidentiality", {"confidential", "confidentiality", "non-disclosure", "nda"}>>,
    <<"intellectual_property", {"intellectual property", "ip rights", "trademark", "copyright", "patent"}>>,
    <<"warranty", {"warranty", "warranties", "warrant", "as is"}>>,
    <<"insurance", {"insurance", "insured", "policy", "coverage"}>>,
    <<"notice", {"notice", "notices", "notify", "written notice"}>>,
    <<"governing_law", {"governing law", "jurisdiction", "applicable law", "choice of law"}>>,
    <<"dispute_resolution", {"dispute", "arbitration", "mediation", "resolve"}>>,
    <<"force_majeure", {"force majeure", "act of god", "unforeseeable"}>>,
    <<"assignment", {"assign", "assignment", "transfer"}>>,
    <<"amendment", {"amend", "amendment", "modify", "modification"}>>,
    <<"term_duration", {"term", "duration", "effective date", "commencement", "retention", "renewal"}>>,
    <<"scope_of_work", {"scope of work", "services", "deliverables", "statement of work"}>>,
    <<"compliance", {"comply", "compliance", "applicable laws", "regulations"}>>,
    <<"data_protection", {"data protection", "privacy", "gdpr", "ccpa", "personal data"}>>,
    <<"non_compete", {"non-compete", "non-solicitation", "compete"}>>,
    <<"representations", {"represent", "representations", "warrant and represent"}>> >>

TopicsIn(words) ==
    {TopicTable[i][1] : i \in {k \in DOMAIN TopicTable : TopicTable[k][2] \cap words # {}}}

Jaccard(A, B) == IF A \cup B = {} THEN 0 ELSE (Unit * Cardinality(A \cap B)) \div Cardinality(A \cup B)

PartialScore(a, b) ==
    TopicWeight * Jaccard(a.topics, b.topics)
    + EntityWeight * Jaccard(a.entities, b.entities)
    + DateWeight * Jaccard(a.dates, b.dates)

CompositeScore(a, b, similarity) == PartialScore(a, b) + TfidfWeight * similarity

\* Mutant: the early exit leaves out what the similarity can still add.
ExitTooEarly(a, b, similarity) ==
    IF PartialScore(a, b) < Threshold * Unit
    THEN PartialScore(a, b)
    ELSE CompositeScore(a, b, similarity)

ScorePair(a, b, similarity) ==
    IF PartialScore(a, b) + TfidfWeight * Unit < Threshold * Unit
    THEN PartialScore(a, b)
    ELSE CompositeScore(a, b, similarity)
====
