---- MODULE Questions ----
(***************************************************************************)
(* What a question asks for (parsing/intent.py), how relevant a clause is   *)
(* to it (matching/retrieval.py), in sixtieths, and what is accepted as     *)
(* evidence for an answer (services/evidence_validator.py).                 *)
(***************************************************************************)
EXTENDS CandidateSelection

\* The name of the first row of a table with one of the words, or "none".
FirstIn(table, words) ==
    LET hits == {i \in DOMAIN table : table[i][2] \cap words # {}}
    IN  IF hits = {} THEN "none" ELSE table[CHOOSE i \in hits : \A k \in hits : i <= k][1]

Fallback == <<
    <<"term_duration", {"retention", "renewal", "duration", "period"}>>,
    <<"intellectual_property", {"ip", "patent", "copyright", "ownership"}>>,
    <<"liability", {"cap", "limit", "liability"}>>,
    <<"payment", {"deadline", "payment", "invoice", "fee"}>> >>

Topic(words) ==
    IF FirstIn(TopicTable, words) # "none" THEN FirstIn(TopicTable, words) ELSE FirstIn(Fallback, words)

SubtopicTable == <<
    <<"notice_period", {"notice", "notice period", "notice_period"}>>,
    <<"renewal", {"renewal", "extension"}>>,
    <<"retention", {"retention", "storage"}>>,
    <<"deadline", {"deadline", "due date", "due"}>> >>

Subtopics(words) ==
    {SubtopicTable[i][1] : i \in {k \in DOMAIN SubtopicTable : SubtopicTable[k][2] \cap words # {}}}

Relationships == <<
    <<"conflict", {"conflict", "conflicting", "contradict", "contradictory", "inconsistent", "different",
                   "mismatch", "discrepancy", "differ", "vary", "clash"}>>,
    <<"override", {"override", "supersede", "amend", "amendment", "prevail"}>>,
    <<"consistent", {"consistent", "compatible", "match", "agree", "harmonious"}>>,
    <<"unnamed", {"between", "across", "compare", "versus", "vs"}>> >>

IsComparison(words) == FirstIn(Relationships, words) # "none"

AsksForNumbers(words) ==
    \/ words \cap {"days", "months", "years", "percent", "amount", "dollars", "notice", "cap", "limit"} # {}
    \/ "notice_period" \in Subtopics(words)

Intent(words) ==
    [topic |-> Topic(words), subtopics |-> Subtopics(words),
     isComparison |-> IsComparison(words), asksForNumbers |-> AsksForNumbers(words)]

\* Mutant: the section heading does not count.
TopicInTextOnly(intent, c) == intent.topic \in c.topics

MatchesTopic(intent, c) == intent.topic \in c.topics \cup c.section

Competing == {"payment", "liability", "confidentiality", "intellectual_property", "insurance", "governing_law"}

\* A clause of another of the competing topics, and not of the one asked for.
IsOffTopic(intent, c) ==
    /\ intent.topic # "none"
    /\ ~MatchesTopic(intent, c)
    /\ c.topics \cap (Competing \ {intent.topic}) # {}

Bonus(intent, c) ==
    (IF MatchesTopic(intent, c) THEN 24 ELSE 0)
    + 12 * Cardinality({t \in intent.subtopics : t \in c.topics \cup c.words \cup c.section})
    + (IF intent.asksForNumbers /\ c.duration THEN 9 ELSE 0)

Penalty(intent, c) == IF IsOffTopic(intent, c) THEN 30 ELSE 0

\* Between 0 and 1.
Relevance(intent, c, similarity) ==
    LET plus == similarity + Bonus(intent, c)
        minus == Penalty(intent, c)
    IN  IF plus <= minus THEN 0 ELSE IF plus - minus >= Unit THEN Unit ELSE plus - minus

MinRelevance == 15

(***************************************************************************)
(* Evidence is a set of spans, each a clause, the document it is said to be *)
(* of and a quote; a quote is one of the words of its clause, or wrong.     *)
(***************************************************************************)

Refusal == [evidence |-> {}, confidence |-> "NOT_ESTABLISHED"]

\* Mutant: two spans will do for a comparison.
TwoSpans(e, intent) == IF intent.isComparison THEN Cardinality(e) >= 2 ELSE e # {}

\* A comparison needs two clauses or two documents.
IsEnough(e, intent) ==
    IF intent.isComparison
    THEN \E p, r \in e : p.clause # r.clause \/ p.document # r.document
    ELSE e # {}
====
