---- MODULE EvidenceValidator ----
(***************************************************************************)
(* The check of the evidence a language model cites for its judgment of a   *)
(* pair of clauses (services/evidence_validator.py) and the cache that      *)
(* answers other pairs with the finding (consistency_engine.py).            *)
(*                                                                         *)
(* Texts and quotes are names; Within says which quote occurs in which text *)
(* once white space and case are ignored, and no empty quote occurs in any. *)
(* What the code decides depends on which citations there are, not on their *)
(* order or number, so the evidence is a set.                               *)
(***************************************************************************)
EXTENDS Naturals, FiniteSets

CONSTANTS
    Clauses, Documents, Pages, Texts, Quotes,
    DocumentOf, PageOf, TextOf,     \* of a clause
    Within,         \* the <<quote, text>> for which the quote occurs in the text
    Pairs,          \* the candidate pairs of all jobs
    SidesOf,        \* pair -> its two clauses
    Citations,      \* what a judgment may cite
    MaxCitations,   \* bound of the model on the evidence of one judgment
    None

\* The order of the three confidences, as in models/schemas.py.
Rank == [NOT_ESTABLISHED |-> 0, INTERPRETED |-> 1, STATED |-> 2]
Confidences == DOMAIN Rank

Citation == [document : Documents, clause : Clauses, page : Pages, quote : Quotes]

Judgments ==
    [evidence : {e \in SUBSET Citations : Cardinality(e) \in 1..MaxCitations},
     confidence : Confidences]

Findings == [evidence : SUBSET Citations, confidence : Confidences, validated : BOOLEAN]

ASSUME ClausesAssumption ==
    /\ DocumentOf \in [Clauses -> Documents]
    /\ PageOf \in [Clauses -> Pages]
    /\ TextOf \in [Clauses -> Texts]
    /\ Within \subseteq Quotes \X Texts
    /\ Citations \subseteq Citation
    /\ MaxCitations \in Nat

\* A pair is made of clauses of different documents (candidate_generator.py:20-25).
ASSUME PairsAssumption ==
    \A p \in Pairs : \E a, b \in Clauses :
        SidesOf[p] = {a, b} /\ DocumentOf[a] # DocumentOf[b]

ASSUME NoneAssumption == None \notin Judgments \cup Findings

VARIABLES
    judgment,   \* pair -> what the model said of it, if it was asked
    finding,    \* pair -> the answer of analyze_pair, or None
    cache       \* key -> the finding kept for it, or None

vars == <<judgment, finding, cache>>

\* The hash of the two texts in either order is the set of the texts.
KeyOf(p) == {TextOf[c] : c \in SidesOf[p]}
Keys == {KeyOf(p) : p \in Pairs}

Init ==
    /\ judgment = [p \in Pairs |-> None]
    /\ finding = [p \in Pairs |-> None]
    /\ cache = [k \in Keys |-> None]

(***************************************************************************)
(* validate_finding: a citation is kept when it names one of the two        *)
(* clauses by its document, its id and its page, and quotes it.             *)
(***************************************************************************)

Names(s, c) == s.document = DocumentOf[c] /\ s.clause = c /\ s.page = PageOf[c]

IsValid(s, p) == \E c \in SidesOf[p] : Names(s, c) /\ <<s.quote, TextOf[c]>> \in Within

Kept(j, p) == {s \in j.evidence : IsValid(s, p)}

\* Mutant: two citations are taken for two documents.
HasTwoCitations(e) == Cardinality(e) >= 2

HasBothDocs(e) == Cardinality({s.document : s \in e}) >= 2

\* Mutant: a citation that failed costs no confidence as long as both sides are cited.
ConfidenceIfBoth(j, p) ==
    IF HasBothDocs(Kept(j, p)) THEN j.confidence ELSE "NOT_ESTABLISHED"

Confidence(j, p) ==
    CASE ~HasBothDocs(Kept(j, p)) -> "NOT_ESTABLISHED"
      [] HasBothDocs(Kept(j, p)) /\ Kept(j, p) # j.evidence /\ j.confidence = "STATED" -> "INTERPRETED"
      [] OTHER -> j.confidence

ValidateFinding(j, p) ==
    [evidence |-> Kept(j, p),
     confidence |-> Confidence(j, p),
     validated |-> HasBothDocs(Kept(j, p))]

(***************************************************************************)
(* analyze_pair, as far as findings go.  PairAnalysis has its interleaving. *)
(* A pair may be judged although its key is cached, for the entry may have  *)
(* expired or been written while the pair waited; Reuse is also what a pair *)
(* does that joined the call of another.                                   *)
(***************************************************************************)

\* Mutant: the judgment is cached in place of the finding made of it.
CachesJudgment(p) ==
    /\ finding[p] = None
    /\ \E j \in Judgments :
          /\ judgment' = [judgment EXCEPT ![p] = j]
          /\ finding' = [finding EXCEPT ![p] = ValidateFinding(j, p)]
          /\ cache' = [cache EXCEPT ![KeyOf(p)] = j]

Judge(p) ==
    /\ finding[p] = None
    /\ \E j \in Judgments :
          /\ judgment' = [judgment EXCEPT ![p] = j]
          /\ finding' = [finding EXCEPT ![p] = ValidateFinding(j, p)]
          /\ cache' = [cache EXCEPT ![KeyOf(p)] = ValidateFinding(j, p)]

Reuse(p) ==
    /\ finding[p] = None
    /\ cache[KeyOf(p)] # None
    /\ finding' = [finding EXCEPT ![p] = cache[KeyOf(p)]]
    /\ UNCHANGED <<judgment, cache>>

Next == \E p \in Pairs : Judge(p) \/ Reuse(p)

Spec == Init /\ [][Next]_vars

(***************************************************************************)
(* Properties                                                              *)
(***************************************************************************)

\* Findings, in the cache too, have been validated; judgments stay apart from them.
TypeOK ==
    /\ judgment \in [Pairs -> Judgments \cup {None}]
    /\ finding \in [Pairs -> Findings \cup {None}]
    /\ cache \in [Keys -> Findings \cup {None}]

\* A citation points at text that is there, in the document and on the page it names,
\* and that text is one of those the key was made of.
Genuine(s, key) ==
    /\ s.document = DocumentOf[s.clause] /\ s.page = PageOf[s.clause]
    /\ <<s.quote, TextOf[s.clause]>> \in Within
    /\ TextOf[s.clause] \in key

Supported(f, key) ==
    /\ \A s \in f.evidence : Genuine(s, key)
    /\ f.validated => \A t \in key : \E s \in f.evidence : TextOf[s.clause] = t

\* What the report shows for a pair is backed by real text that reads as the pair's
\* own clauses do, and a validated finding by both of them, even when the finding was
\* made for another pair of other documents and came from the cache (validator:54-78,
\* engine:137-160).
FindingsAreSupported == \A p \in Pairs : finding[p] # None => Supported(finding[p], KeyOf(p))

Earned(f, j) ==
    /\ Rank[f.confidence] <= Rank[j.confidence]
    /\ f.confidence = "STATED" => f.evidence = j.evidence
    /\ f.confidence # "NOT_ESTABLISHED" => f.validated

\* Behind each finding is a judgment of these texts that was at least as confident.
\* STATED is shown only if every citation of that judgment held, and any confidence
\* at all only for a validated finding (validator:84-101).
ConfidenceIsEarned ==
    \A p \in Pairs : finding[p] # None =>
        \E r \in Pairs : /\ KeyOf(r) = KeyOf(p)
                         /\ judgment[r] # None
                         /\ Earned(finding[p], judgment[r])

\* The module's docstring (validator:4-7): a judgment with a citation that does not
\* exist ends as NOT_ESTABLISHED.
InvalidCitationsDowngrade ==
    \A p \in Pairs : judgment[p] # None /\ finding[p].evidence # judgment[p].evidence =>
        finding[p].confidence = "NOT_ESTABLISHED"

(***************************************************************************)
(* What the proofs need besides: the cache is as good as the findings.      *)
(***************************************************************************)

CacheIsSupported == \A k \in Keys : cache[k] # None => Supported(cache[k], k)

CacheIsEarned ==
    \A k \in Keys : cache[k] # None =>
        \E r \in Pairs : /\ KeyOf(r) = k
                         /\ judgment[r] # None
                         /\ Earned(cache[k], judgment[r])

JudgedHaveFindings == \A p \in Pairs : judgment[p] # None => finding[p] # None
====
