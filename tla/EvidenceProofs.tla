---- MODULE EvidenceProofs ----
(***************************************************************************)
(* Proofs about EvidenceValidator, for any clauses, pairs and citations.    *)
(***************************************************************************)
EXTENDS EvidenceValidator, FiniteSetTheorems, TLAPS

USE ClausesAssumption, PairsAssumption, NoneAssumption

Inv ==
    /\ TypeOK
    /\ CacheIsSupported /\ FindingsAreSupported
    /\ CacheIsEarned /\ ConfidenceIsEarned
    /\ JudgedHaveFindings

\* What is made of a judgment has the type of a finding and is as confident at most.
LEMMA ValidationTypes ==
    ASSUME NEW j \in Judgments, NEW p \in Pairs
    PROVE  ValidateFinding(j, p) \in Findings /\ Earned(ValidateFinding(j, p), j)
<1>1. j.evidence \in SUBSET Citations /\ j.confidence \in Confidences
  BY DEF Judgments
<1>2. Confidence(j, p) \in {"NOT_ESTABLISHED", "INTERPRETED", "STATED"}
  BY <1>1 DEF Confidence, Confidences, Rank
<1>3. ValidateFinding(j, p) \in Findings
  BY <1>1, <1>2 DEF ValidateFinding, Findings, Kept, HasBothDocs, Confidences, Rank
<1>4. Earned(ValidateFinding(j, p), j)
  BY <1>1 DEF Earned, ValidateFinding, Confidence, Confidences, Rank
<1> QED
  BY <1>3, <1>4

\* If only one of two documents is cited, the documents cited are at most one.
LEMMA BothDocsCited ==
    ASSUME NEW D, NEW x, NEW y, D \subseteq {x, y}, Cardinality(D) >= 2
    PROVE  x \in D /\ y \in D
<1>1. ASSUME NEW z, D \subseteq {z} PROVE FALSE
  <2>1. IsFiniteSet({z}) /\ Cardinality({z}) = 1
    BY FS_Singleton
  <2>2. Cardinality(D) <= 1 /\ Cardinality(D) \in Nat
    BY <1>1, <2>1, FS_Subset, FS_CardinalityType
  <2> QED
    BY <2>2
<1> QED
  BY <1>1

\* validate_finding keeps only what is in the pair's own clauses, and calls validated
\* only what cites both of them.
LEMMA ValidationSupports ==
    ASSUME NEW j \in Judgments, NEW p \in Pairs
    PROVE  Supported(ValidateFinding(j, p), KeyOf(p))
<1> DEFINE f == ValidateFinding(j, p)
<1>1. PICK a, b \in Clauses : SidesOf[p] = {a, b} /\ DocumentOf[a] # DocumentOf[b]
  OBVIOUS
<1>2. KeyOf(p) = {TextOf[a], TextOf[b]}
  BY <1>1 DEF KeyOf
<1>3. f.evidence = Kept(j, p) /\ f.validated = HasBothDocs(Kept(j, p))
  BY DEF ValidateFinding
<1>4. ASSUME NEW s \in Kept(j, p)
      PROVE  /\ s.clause \in {a, b}
             /\ s.document = DocumentOf[s.clause] /\ s.page = PageOf[s.clause]
             /\ <<s.quote, TextOf[s.clause]>> \in Within
  BY <1>1, <1>4 DEF Kept, IsValid, Names
<1>5. ASSUME NEW s \in f.evidence PROVE Genuine(s, KeyOf(p))
  BY <1>2, <1>3, <1>4, <1>5 DEF Genuine
<1>6. ASSUME f.validated, NEW t \in KeyOf(p)
      PROVE  \E s \in f.evidence : TextOf[s.clause] = t
  <2> DEFINE D == {s.document : s \in Kept(j, p)}
  <2>1. D \subseteq {DocumentOf[a], DocumentOf[b]}
    <3>1. ASSUME NEW s \in Kept(j, p) PROVE s.document \in {DocumentOf[a], DocumentOf[b]}
      BY <1>4, <3>1
    <3> QED
      BY <3>1
  <2>2. Cardinality(D) >= 2
    BY <1>3, <1>6 DEF HasBothDocs
  <2>3. DocumentOf[a] \in D /\ DocumentOf[b] \in D
    <3> HIDE DEF D
    <3> QED
      BY <2>1, <2>2, BothDocsCited
  <2>4. \E s \in Kept(j, p) : s.clause = a
    <3>1. PICK s \in Kept(j, p) : s.document = DocumentOf[a]
      BY <2>3
    <3> QED
      BY <1>1, <1>4, <3>1
  <2>5. \E s \in Kept(j, p) : s.clause = b
    <3>1. PICK s \in Kept(j, p) : s.document = DocumentOf[b]
      BY <2>3
    <3> QED
      BY <1>1, <1>4, <3>1
  <2> QED
    BY <1>2, <1>3, <2>4, <2>5
<1> HIDE DEF f
<1>7. Supported(f, KeyOf(p))
  BY <1>5, <1>6 DEF Supported
<1> QED
  BY <1>7 DEF f

LEMMA InvInit == Init => Inv
  BY DEF Init, Inv, TypeOK, CacheIsSupported, FindingsAreSupported, CacheIsEarned,
         ConfidenceIsEarned, JudgedHaveFindings

\* A judgment of p makes a supported finding of it and caches that; a judgment made
\* before is not replaced, for a judged pair has a finding.
LEMMA JudgeStep ==
    ASSUME Inv, NEW p \in Pairs, Judge(p)
    PROVE  Inv'
<1>1. PICK j \in Judgments :
          /\ judgment' = [judgment EXCEPT ![p] = j]
          /\ finding' = [finding EXCEPT ![p] = ValidateFinding(j, p)]
          /\ cache' = [cache EXCEPT ![KeyOf(p)] = ValidateFinding(j, p)]
  BY DEF Judge
<1> DEFINE f == ValidateFinding(j, p)
<1>2. f \in Findings /\ Earned(f, j) /\ Supported(f, KeyOf(p))
  BY ValidationTypes, ValidationSupports
<1>3. j # None /\ f # None
  BY <1>2
<1> HIDE DEF f
<1>4. KeyOf(p) \in Keys /\ finding[p] = None /\ judgment[p] = None
  BY DEF Judge, Keys, Inv, JudgedHaveFindings
<1>5. judgment' = [judgment EXCEPT ![p] = j] /\ finding' = [finding EXCEPT ![p] = f]
      /\ cache' = [cache EXCEPT ![KeyOf(p)] = f]
  BY <1>1 DEF f
<1>6. TypeOK'
  BY <1>2, <1>4, <1>5 DEF Inv, TypeOK
<1>7. judgment'[p] = j /\ \A r \in Pairs : judgment[r] # None => judgment'[r] = judgment[r]
  BY <1>4, <1>5 DEF Inv, TypeOK
<1>8. ASSUME NEW r \in Pairs, r # p
      PROVE  finding'[r] = finding[r] /\ judgment'[r] = judgment[r]
  BY <1>5, <1>8 DEF Inv, TypeOK
<1>9. finding'[p] = f /\ cache'[KeyOf(p)] = f
  BY <1>4, <1>5 DEF Inv, TypeOK
<1>10. \A k \in Keys : k # KeyOf(p) => cache'[k] = cache[k]
  BY <1>5 DEF Inv, TypeOK
<1>11. CacheIsSupported' /\ FindingsAreSupported'
  BY <1>2, <1>8, <1>9, <1>10 DEF Inv, CacheIsSupported, FindingsAreSupported
<1>12. CacheIsEarned'
  BY <1>2, <1>3, <1>7, <1>9, <1>10 DEF Inv, CacheIsEarned
<1>13. ConfidenceIsEarned'
  BY <1>2, <1>3, <1>7, <1>8, <1>9 DEF Inv, ConfidenceIsEarned
<1>14. JudgedHaveFindings'
  BY <1>3, <1>8, <1>9 DEF Inv, JudgedHaveFindings
<1> QED
  BY <1>6, <1>11, <1>12, <1>13, <1>14 DEF Inv

\* What the cache answers with is what some pair with these texts was found to be.
LEMMA ReuseStep ==
    ASSUME Inv, NEW p \in Pairs, Reuse(p)
    PROVE  Inv'
<1>1. KeyOf(p) \in Keys /\ cache[KeyOf(p)] # None /\ cache[KeyOf(p)] \in Findings
  BY DEF Reuse, Keys, Inv, TypeOK
<1>2. /\ finding' = [finding EXCEPT ![p] = cache[KeyOf(p)]]
      /\ UNCHANGED <<judgment, cache>>
  BY DEF Reuse
<1>3. finding'[p] = cache[KeyOf(p)]
      /\ \A r \in Pairs : r # p => finding'[r] = finding[r]
  BY <1>2 DEF Inv, TypeOK
<1>4. TypeOK'
  BY <1>1, <1>2 DEF Inv, TypeOK
<1>5. CacheIsSupported' /\ CacheIsEarned'
  BY <1>2 DEF Inv, CacheIsSupported, CacheIsEarned
<1>6. FindingsAreSupported'
  BY <1>1, <1>3 DEF Inv, CacheIsSupported, FindingsAreSupported
<1>7. ConfidenceIsEarned'
  BY <1>1, <1>2, <1>3 DEF Inv, CacheIsEarned, ConfidenceIsEarned
<1>8. JudgedHaveFindings'
  BY <1>1, <1>2, <1>3 DEF Inv, JudgedHaveFindings
<1> QED
  BY <1>4, <1>5, <1>6, <1>7, <1>8 DEF Inv

LEMMA Invariant == Spec => []Inv
<1>1. ASSUME Inv, [Next]_vars PROVE Inv'
  <2>1. ASSUME UNCHANGED vars PROVE Inv'
    BY <1>1, <2>1 DEF vars, Inv, TypeOK, CacheIsSupported, FindingsAreSupported,
         CacheIsEarned, ConfidenceIsEarned, JudgedHaveFindings
  <2> QED
    BY <1>1, <2>1, JudgeStep, ReuseStep DEF Next
<1> QED
  BY <1>1, InvInit, PTL DEF Spec

\* No judgment reaches the cache or a report without having been validated.
THEOREM TypeCorrect == Spec => []TypeOK
<1>1. Inv => TypeOK
  BY DEF Inv
<1> QED
  BY <1>1, Invariant, PTL

\* What is reported for a pair quotes texts that are the pair's own, both of them if
\* the finding is validated, whichever pair it was made for.
THEOREM ReportsAreSupported == Spec => []FindingsAreSupported
<1>1. Inv => FindingsAreSupported
  BY DEF Inv
<1> QED
  BY <1>1, Invariant, PTL

\* No finding is more confident than the judgment it was made of, nor confident at
\* all without evidence from both sides.
THEOREM ConfidenceIsBacked == Spec => []ConfidenceIsEarned
<1>1. Inv => ConfidenceIsEarned
  BY DEF Inv
<1> QED
  BY <1>1, Invariant, PTL
====
