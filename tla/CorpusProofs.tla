---- MODULE CorpusProofs ----
(***************************************************************************)
(* Proofs about Corpus, for any contents, sessions, jobs and questions.     *)
(***************************************************************************)
EXTENDS Corpus, FiniteSetTheorems, TLAPS

(***************************************************************************)
(* What is stored                                                          *)
(***************************************************************************)

\* The extractors give pages of the content, whatever its name.
LEMMA ExtractIsOfContent ==
    ASSUME NEW n \in Names, NEW c \in Contents, IsReadable(n, c)
    PROVE  Extract(n, c) \in ExtractsOf(c) /\ Extract(n, c) \in Seq(Page)
<1> DEFINE P == Page
           d == DataOf[c]
<1>1. /\ d.pdf \in Seq(P) \cup {Unreadable} /\ d.paragraphs \in Seq(P) \cup {Unreadable}
      /\ d.xml \in Seq(P) \cup {Unreadable} /\ d.plain \in P
  BY DataAssumption DEF Data
<1>2. ExtensionOf[n] \in {"pdf", "docx", "txt"} /\ Extract(n, c) # Unreadable
  BY DEF IsReadable, IsValid, IsWithinLimits
<1>3. Extract(n, c) \in {d.pdf, d.paragraphs, d.xml, <<d.plain>>}
  BY <1>2 DEF Extract
<1>4. Extract(n, c) \in Seq(P)
  <2> HIDE DEF P, d
  <2>1. <<d.plain>> \in Seq(P)
    BY <1>1
  <2> QED
    BY <1>1, <1>2, <1>3, <2>1
<1> QED
  BY <1>2, <1>3, <1>4 DEF ExtractsOf

\* A clause as the selection and the questions need it.
IsClause(k) == IsFiniteSet(k.topics) /\ IsFiniteSet(k.entities) /\ IsFiniteSet(k.dates)

\* A document: pages, each with its clauses.
IsDocument(d) ==
    \E n \in Nat :
        /\ n <= MaxPages
        /\ DOMAIN d.clauses = 1..n /\ Len(d.clauses) = n
        /\ \A p \in 1..n : \E m \in Nat :
              /\ DOMAIN d.clauses[p] = 1..m
              /\ \A i \in 1..m : IsClause(d.clauses[p][i])

LEMMA ImageIsFinite ==
    ASSUME NEW f, IsFiniteSet(DOMAIN f)
    PROVE  IsFiniteSet({f[x] : x \in DOMAIN f})
<1> DEFINE T == {f[x] : x \in DOMAIN f}
           g == [x \in DOMAIN f |-> f[x]]
<1>1. g \in Surjection(DOMAIN f, T)
  BY DEF Surjection
<1> HIDE DEF T, g
<1>2. IsFiniteSet(T)
  BY <1>1, FS_Surjection
<1> QED
  BY <1>2 DEF T

LEMMA NamesAreFinite ==
    ASSUME NEW table, NEW n \in Nat, DOMAIN table = 1..n, NEW words
    PROVE  IsFiniteSet({table[i][1] : i \in {k \in DOMAIN table : table[k][2] \cap words # {}}})
<1> DEFINE D == {k \in DOMAIN table : table[k][2] \cap words # {}}
           f == [i \in D |-> table[i][1]]
<1>1. IsFiniteSet(D)
  <2>1. IsFiniteSet(1..n)
    BY FS_Interval
  <2> QED
    BY <2>1, FS_Subset
<1>2. DOMAIN f = D /\ {f[i] : i \in DOMAIN f} = {table[i][1] : i \in D}
  OBVIOUS
<1> HIDE DEF D, f
<1>3. IsFiniteSet({f[i] : i \in DOMAIN f})
  BY <1>1, <1>2, ImageIsFinite
<1> QED
  BY <1>2, <1>3 DEF D

LEMMA TopicsAreFinite == \A words : IsFiniteSet(TopicsIn(words)) /\ IsFiniteSet(Subtopics(words))
<1>1. DOMAIN TopicTable = 1..20
  BY DEF TopicTable
<1>2. DOMAIN SubtopicTable = 1..4
  BY DEF SubtopicTable
<1> QED
  BY <1>1, <1>2, NamesAreFinite DEF TopicsIn, Subtopics

\* What is stored for a content that is read.
LEMMA ReadableIsDocument ==
    ASSUME NEW n \in Names, NEW c \in Contents, IsReadable(n, c)
    PROVE  IsDocument(DocumentFrom(n, c))
<1> DEFINE pages == Extract(n, c)
           d == DocumentFrom(n, c)
<1>1. pages \in ExtractsOf(c) /\ pages \in Seq(Page) /\ Len(pages) <= MaxPages
  BY ExtractIsOfContent DEF IsReadable, IsWithinLimits
<1>2. Len(pages) \in Nat /\ DOMAIN pages = 1..Len(pages)
  BY <1>1
<1>3. d.clauses = SegmentClauses(pages)
  BY DEF DocumentFrom
<1> HIDE DEF pages, d
<1>4. DOMAIN d.clauses = 1..Len(pages)
  BY <1>2, <1>3 DEF SegmentClauses
<1>5. Len(d.clauses) = Len(pages)
  BY <1>2, <1>4
<1>6. ASSUME NEW p \in 1..Len(pages)
      PROVE  \E m \in Nat : DOMAIN d.clauses[p] = 1..m /\ \A i \in 1..m : IsClause(d.clauses[p][i])
  <2> DEFINE texts == pages[p].texts
  <2>1. texts \in Seq(Text)
    <3>1. pages[p] \in Page
      BY <1>1, <1>2
    <3> QED
      BY <3>1 DEF Page
  <2>2. Len(texts) \in Nat /\ DOMAIN texts = 1..Len(texts)
    BY <2>1
  <2>3. \A i \in DOMAIN texts : IsFiniteSet(texts[i].entities) /\ IsFiniteSet(texts[i].dates)
    BY <1>1, <1>2, DataAssumption
  <2>4. d.clauses[p] = [i \in DOMAIN texts |->
            LET t == texts[i] IN
            [words |-> t.words, section |-> t.section, topics |-> TopicsIn(t.words),
             entities |-> t.entities, dates |-> t.dates, duration |-> t.duration]]
    BY <1>2, <1>3 DEF SegmentClauses
  <2> HIDE DEF texts
  <2>5. DOMAIN d.clauses[p] = 1..Len(texts)
    BY <2>2, <2>4
  <2>6. ASSUME NEW i \in 1..Len(texts) PROVE IsClause(d.clauses[p][i])
    <3>1. /\ d.clauses[p][i].topics = TopicsIn(texts[i].words)
          /\ d.clauses[p][i].entities = texts[i].entities
          /\ d.clauses[p][i].dates = texts[i].dates
      BY <2>2, <2>4
    <3> QED
      BY <2>2, <2>3, <3>1, TopicsAreFinite DEF IsClause
  <2> QED
    BY <2>2, <2>5, <2>6
<1> QED
  BY <1>1, <1>2, <1>4, <1>5, <1>6 DEF IsDocument, d

(***************************************************************************)
(* Documents and who may see them                                          *)
(***************************************************************************)

\* What is stored is a document, read from an upload that was accepted.
StoredIsRead ==
    \A c \in Contents : Stored(c) =>
        \E u \in tried : u[3] = c /\ IsReadable(u[2], c) /\ documents[c] = DocumentFrom(u[2], c)

\* AccessIsEarned but for the lists, and nobody is registered for what is not stored.
AccessInv ==
    /\ tried \subseteq Sessions \X Names \X Contents
    /\ DOMAIN documents = Contents
    /\ \A s \in Sessions, c \in Contents :
          <<s, c>> \in access => Stored(c) /\ \E n \in Names : <<s, n, c>> \in tried /\ IsValid(n, c)
    /\ access \subseteq Sessions \X Contents
    /\ \A u \in tried : IsReadable(u[2], u[3]) => CanGet(u[1], u[3])
    /\ StoredIsRead

LEMMA AccessStarts == Init => AccessInv
BY DEF Init, AccessInv, CanGet, Stored, StoredIsRead

LEMMA StoredIsDocument ==
    ASSUME AccessInv, NEW c \in Contents, Stored(c)
    PROVE  IsDocument(documents[c])
<1>1. PICK u \in tried : u[3] = c /\ IsReadable(u[2], c) /\ documents[c] = DocumentFrom(u[2], c)
  BY DEF AccessInv, StoredIsRead
<1>2. u[2] \in Names
  BY DEF AccessInv
<1> QED
  BY <1>1, <1>2, ReadableIsDocument

\* Nothing but an upload of something new changes what is stored.
LEMMA OthersLeaveUploads ==
    ASSUME [Next]_vars
    PROVE  \/ UNCHANGED <<tried, documents, access>>
           \/ \E s \in Sessions, n \in Names, c \in Contents :
                 RejectUpload(s, n, c) \/ UploadAgain(s, n, c) \/ UploadNew(s, n, c)
<1>1. ASSUME NEW s \in Sessions, NEW j \in Jobs, CreateJob(s, j) \/ \E r \in Requests, intent \in Intents : Ask(r, s, j, intent)
      PROVE  UNCHANGED <<tried, documents, access>>
  BY <1>1 DEF CreateJob, Ask
<1>2. ASSUME NEW j \in Jobs, SelectCandidates(j) PROVE UNCHANGED <<tried, documents, access>>
  BY <1>2 DEF SelectCandidates
<1>3. ASSUME NEW r \in Requests, Answer(r) \/ ProviderFails(r) PROVE UNCHANGED <<tried, documents, access>>
  BY <1>3 DEF Answer, ProviderFails
<1> QED
  BY <1>1, <1>2, <1>3 DEF Next, vars

\* What is stored stays as it is.
LEMMA DocumentsStay ==
    ASSUME AccessInv, [Next]_vars
    PROVE  /\ DOMAIN documents' = Contents
           /\ \A c \in Contents : Stored(c) => Stored(c)' /\ documents'[c] = documents[c]
<1>1. CASE UNCHANGED <<tried, documents, access>>
  BY <1>1 DEF AccessInv, Stored
<1>2. ASSUME NEW s \in Sessions, NEW n \in Names, NEW c \in Contents,
             RejectUpload(s, n, c) \/ UploadAgain(s, n, c) \/ UploadNew(s, n, c)
      PROVE  /\ DOMAIN documents' = Contents
             /\ \A d \in Contents : Stored(d) => Stored(d)' /\ documents'[d] = documents[d]
  BY <1>2 DEF RejectUpload, UploadAgain, UploadNew, AccessInv, Stored
<1> QED
  BY <1>1, <1>2, OthersLeaveUploads

LEMMA AccessStep == AccessInv /\ [Next]_vars => AccessInv'
<1> SUFFICES ASSUME AccessInv, [Next]_vars PROVE AccessInv'
  OBVIOUS
<1>1. CASE UNCHANGED <<tried, documents, access>>
  BY <1>1 DEF AccessInv, CanGet, Stored, StoredIsRead
<1>2. ASSUME NEW s \in Sessions, NEW n \in Names, NEW c \in Contents, RejectUpload(s, n, c)
      PROVE  AccessInv'
  <2>1. tried' = tried \cup {<<s, n, c>>} /\ documents' = documents /\ access' = access
    BY <1>2 DEF RejectUpload, Try
  <2>2. ~IsReadable(n, c)
    BY <1>2 DEF RejectUpload, IsReadable
  <2> QED
    BY <2>1, <2>2 DEF AccessInv, CanGet, Stored, StoredIsRead
<1>3. ASSUME NEW s \in Sessions, NEW n \in Names, NEW c \in Contents, UploadAgain(s, n, c)
      PROVE  AccessInv'
  <2>1. /\ tried' = tried \cup {<<s, n, c>>} /\ documents' = documents /\ access' = access \cup {<<s, c>>}
        /\ IsValid(n, c) /\ Stored(c)
    BY <1>3 DEF UploadAgain, Try
  <2> QED
    BY <2>1 DEF AccessInv, CanGet, Stored, StoredIsRead
<1>4. ASSUME NEW s \in Sessions, NEW n \in Names, NEW c \in Contents, UploadNew(s, n, c)
      PROVE  AccessInv'
  <2>1. /\ tried' = tried \cup {<<s, n, c>>} /\ access' = access \cup {<<s, c>>}
        /\ documents' = [documents EXCEPT ![c] = DocumentFrom(n, c)]
        /\ IsReadable(n, c) /\ IsValid(n, c)
    BY <1>4 DEF UploadNew, Try, IsReadable
  <2>2. /\ DOMAIN documents' = Contents /\ documents'[c] = DocumentFrom(n, c) /\ Stored(c)'
        /\ \A d \in Contents \ {c} : documents'[d] = documents[d] /\ (Stored(d)' <=> Stored(d))
    BY <2>1, CorpusAssumption DEF AccessInv, Stored
  <2> DEFINE u == <<s, n, c>>
  <2>3. u \in tried' /\ u[3] = c /\ u[2] = n /\ u[1] = s
    BY <2>1
  <2>4. StoredIsRead'
    <3> SUFFICES ASSUME NEW d \in Contents, Stored(d)'
                 PROVE  \E v \in tried' : v[3] = d /\ IsReadable(v[2], d) /\ documents'[d] = DocumentFrom(v[2], d)
      BY DEF StoredIsRead
    <3>1. CASE d = c
      <4> HIDE DEF u
      <4> QED
        BY <2>1, <2>2, <2>3, <3>1
    <3>2. CASE d # c
      <4>1. PICK v \in tried : v[3] = d /\ IsReadable(v[2], d) /\ documents[d] = DocumentFrom(v[2], d)
        BY <2>2, <3>2 DEF AccessInv, StoredIsRead
      <4> QED
        BY <2>1, <2>2, <3>2, <4>1
    <3> QED
      BY <3>1, <3>2
  <2>5. \A v \in tried' : IsReadable(v[2], v[3]) => CanGet(v[1], v[3])'
    BY <2>1, <2>2 DEF AccessInv, CanGet
  <2> QED
    BY <2>1, <2>2, <2>4, <2>5 DEF AccessInv
<1> QED
  BY <1>1, <1>2, <1>3, <1>4, OthersLeaveUploads

(***************************************************************************)
(* The selection of pairs                                                  *)
(***************************************************************************)

\* A set of numbers has a smallest one.
LEMMA SmallestNumber ==
    ASSUME NEW S, S \subseteq Nat, S # {}
    PROVE  \E f \in S : \A x \in S : f <= x
<1>1. PICK f \in S : \A y \in S : <<y, f>> \notin OpToRel(<, Nat)
  <2> DEFINE R == OpToRel(<, Nat)
  <2>1. IsWellFoundedOn(R, Nat)
    BY NatLessThanWellFounded
  <2> HIDE DEF R
  <2>2. \E f \in S : \A y \in S : ~(<<y, f>> \in R)
    BY <2>1, WFMin
  <2> QED
    BY <2>2 DEF R
<1>2. ASSUME NEW x \in S, x < f PROVE FALSE
  <2>1. <<x, f>> \in OpToRel(<, Nat)
    BY <1>2 DEF OpToRel
  <2> QED
    BY <1>1, <2>1
<1>3. \A x \in S : x \in Nat
  OBVIOUS
<1> QED
  BY <1>2, <1>3

\* The place of a document in a job's list is one of its places.
LEMMA PlaceIsPlace ==
    ASSUME NEW j \in Jobs, NEW c \in DocumentsOf(j)
    PROVE  Place(j, c) \in Nat /\ j[Place(j, c)] = c
<1> DEFINE S == {n \in DOMAIN j : j[n] = c}
           IsFirst(n) == j[n] = c /\ \A m \in 1..n - 1 : j[m] # c
<1>1. DOMAIN j = 1..Len(j) /\ Len(j) \in Nat
  BY CorpusAssumption
<1>2. S # {} /\ S \subseteq Nat
  BY <1>1 DEF DocumentsOf
<1>3. PICK f \in S : \A x \in S : f <= x
  <2> HIDE DEF S
  <2> QED
    BY <1>2, SmallestNumber
<1>4. IsFirst(f) /\ f \in DOMAIN j
  BY <1>1, <1>3
<1>5. Place(j, c) = CHOOSE n \in DOMAIN j : IsFirst(n)
  BY DEF Place
<1>6. Place(j, c) \in DOMAIN j /\ IsFirst(Place(j, c))
  <2> HIDE DEF IsFirst
  <2> QED
    BY <1>4, <1>5
<1> QED
  BY <1>1, <1>6

LEMMA ClauseIdsAreOfDocument ==
    ASSUME NEW c, NEW a \in ClauseIds(c)
    PROVE  /\ Stored(c) /\ a[1] = c /\ a = <<a[1], a[2], a[3]>>
           /\ a[2] \in DOMAIN documents[c].clauses
           /\ a[3] \in DOMAIN documents[c].clauses[a[2]]
BY DEF ClauseIds

\* The candidates are the pairs of clauses whose documents come one after the other.
LEMMA CandidatesAre ==
    ASSUME NEW j \in Jobs, NEW a, NEW b
    PROVE  <<a, b>> \in CandidatePairs(j) <=>
               /\ a[1] \in DocumentsOf(j) /\ b[1] \in DocumentsOf(j)
               /\ a \in ClauseIds(a[1]) /\ b \in ClauseIds(b[1])
               /\ Place(j, a[1]) < Place(j, b[1])
<1>1. ASSUME <<a, b>> \in CandidatePairs(j)
      PROVE  /\ a[1] \in DocumentsOf(j) /\ b[1] \in DocumentsOf(j)
             /\ a \in ClauseIds(a[1]) /\ b \in ClauseIds(b[1])
             /\ Place(j, a[1]) < Place(j, b[1])
  <2>1. PICK q \in DocumentsOf(j) \X DocumentsOf(j) :
            Place(j, q[1]) < Place(j, q[2]) /\ <<a, b>> \in ClauseIds(q[1]) \X ClauseIds(q[2])
    BY <1>1 DEF CandidatePairs
  <2>2. a \in ClauseIds(q[1]) /\ b \in ClauseIds(q[2])
    BY <2>1
  <2>3. a[1] = q[1] /\ b[1] = q[2]
    BY <2>2, ClauseIdsAreOfDocument
  <2> QED
    BY <2>1, <2>2, <2>3
<1>2. ASSUME a[1] \in DocumentsOf(j), b[1] \in DocumentsOf(j),
             a \in ClauseIds(a[1]), b \in ClauseIds(b[1]),
             Place(j, a[1]) < Place(j, b[1])
      PROVE  <<a, b>> \in CandidatePairs(j)
  <2> DEFINE q == <<a[1], b[1]>>
  <2>1. q \in {r \in DocumentsOf(j) \X DocumentsOf(j) : Place(j, r[1]) < Place(j, r[2])}
    BY <1>2
  <2>2. <<a, b>> \in ClauseIds(q[1]) \X ClauseIds(q[2])
    BY <1>2
  <2> HIDE DEF q
  <2> QED
    BY <2>1, <2>2 DEF CandidatePairs
<1> QED
  BY <1>1, <1>2

LEMMA CandidateIsPair ==
    ASSUME NEW j \in Jobs, NEW p \in CandidatePairs(j)
    PROVE  p = <<p[1], p[2]>>
BY DEF CandidatePairs

LEMMA CandidatesArePairedOnce ==
    ASSUME NEW j \in Jobs
    PROVE  PairedOnce(CandidatePairs(j))
<1> DEFINE S == CandidatePairs(j)
           ids == {p[1] : p \in S} \cup {p[2] : p \in S}
<1>1. ASSUME NEW a \in ids PROVE a[1] \in DocumentsOf(j) /\ a \in ClauseIds(a[1])
  <2>1. PICK p \in S : a = p[1] \/ a = p[2]
    OBVIOUS
  <2>2. <<p[1], p[2]>> \in S
    BY CandidateIsPair
  <2> QED
    BY <2>1, <2>2, CandidatesAre
<1>2. ASSUME NEW a \in ids, NEW b \in ids
      PROVE  IF a[1] = b[1] THEN <<a, b>> \notin S ELSE <<a, b>> \in S <=> <<b, a>> \notin S
  <2>1. /\ a[1] \in DocumentsOf(j) /\ a \in ClauseIds(a[1])
        /\ b[1] \in DocumentsOf(j) /\ b \in ClauseIds(b[1])
    BY <1>1
  <2>2. /\ Place(j, a[1]) \in Nat /\ j[Place(j, a[1])] = a[1]
        /\ Place(j, b[1]) \in Nat /\ j[Place(j, b[1])] = b[1]
    BY <2>1, PlaceIsPlace
  <2>3. <<a, b>> \in S <=> Place(j, a[1]) < Place(j, b[1])
    BY <2>1, CandidatesAre
  <2>4. <<b, a>> \in S <=> Place(j, b[1]) < Place(j, a[1])
    BY <2>1, CandidatesAre
  <2> HIDE DEF S
  <2>5. CASE a[1] = b[1]
    BY <2>2, <2>3, <2>5
  <2>6. CASE a[1] # b[1]
    <3>1. Place(j, a[1]) # Place(j, b[1])
      BY <2>2, <2>6
    <3> QED
      BY <2>2, <2>3, <2>4, <2>6, <3>1
  <2> QED
    BY <2>5, <2>6
<1> QED
  BY <1>2 DEF PairedOnce

LEMMA JaccardIsNatural ==
    ASSUME NEW A, NEW B, IsFiniteSet(A), IsFiniteSet(B)
    PROVE  Jaccard(A, B) \in Nat
<1>1. CASE A \cup B = {}
  BY <1>1 DEF Jaccard
<1>2. CASE A \cup B # {}
  <2> DEFINE m == Cardinality(A \cap B)
             n == Cardinality(A \cup B)
  <2>1. IsFiniteSet(A \cup B) /\ IsFiniteSet(A \cap B)
    BY FS_Union, FS_Intersection
  <2>2. m \in Nat /\ n \in Nat /\ n # 0
    BY <1>2, <2>1, FS_CardinalityType, FS_EmptySet
  <2>3. Jaccard(A, B) = (Unit * m) \div n
    BY <1>2 DEF Jaccard
  <2> HIDE DEF m, n
  <2>4. Unit * m \in Nat
    BY <2>2 DEF Unit
  <2>5. \A x \in Nat : x \div n \in Nat
    BY <2>2
  <2> QED
    BY <2>3, <2>4, <2>5
<1> QED
  BY <1>1, <1>2

LEMMA PartialScoreIsNatural ==
    ASSUME NEW a, NEW b, IsClause(a), IsClause(b)
    PROVE  PartialScore(a, b) \in Nat
<1>1. /\ Jaccard(a.topics, b.topics) \in Nat /\ Jaccard(a.entities, b.entities) \in Nat
      /\ Jaccard(a.dates, b.dates) \in Nat
  BY JaccardIsNatural DEF IsClause
<1>2. TopicWeight \in Nat /\ EntityWeight \in Nat /\ DateWeight \in Nat
  BY WeightsAssumption
<1>3. \A x, y \in Nat : x * y \in Nat
  OBVIOUS
<1> QED
  BY <1>1, <1>2, <1>3 DEF PartialScore

\* What the early exit leaves out could not have lifted the score over the threshold.
LEMMA EarlyExitIsSafe ==
    ASSUME NEW a, NEW b, IsClause(a), IsClause(b), NEW x \in 0..Unit
    PROVE  ScorePair(a, b, x) >= Threshold * Unit <=> CompositeScore(a, b, x) >= Threshold * Unit
<1> DEFINE s == PartialScore(a, b)
           w == TfidfWeight * x
           top == TfidfWeight * Unit
           t == Threshold * Unit
<1>1. s \in Nat
  BY PartialScoreIsNatural
<1>2. TfidfWeight \in Nat /\ Threshold \in Nat
  BY WeightsAssumption
<1>3. w \in Nat /\ top \in Nat /\ w <= top /\ t \in Nat
  BY <1>2 DEF Unit
<1>4. /\ ScorePair(a, b, x) = IF s + top < t THEN s ELSE s + w
      /\ CompositeScore(a, b, x) = s + w
  BY DEF ScorePair, CompositeScore
<1> HIDE DEF s, w, top, t
<1>5. ScorePair(a, b, x) >= t <=> CompositeScore(a, b, x) >= t
  BY <1>1, <1>3, <1>4
<1> QED
  BY <1>5 DEF t

LEMMA ClauseStays ==
    ASSUME AccessInv, [Next]_vars, NEW c \in Contents, NEW id \in ClauseIds(c)
    PROVE  id \in ClauseIds(c)' /\ ClauseAt(id)' = ClauseAt(id)
<1>1. Stored(c) /\ id[1] = c
  BY ClauseIdsAreOfDocument
<1>2. Stored(c)' /\ documents'[c] = documents[c]
  BY <1>1, DocumentsStay
<1> QED
  BY <1>1, <1>2 DEF ClauseIds, ClauseAt

LEMMA ClauseIsClause ==
    ASSUME AccessInv, NEW c \in Contents, NEW id \in ClauseIds(c)
    PROVE  /\ IsClause(ClauseAt(id))
           /\ id[1] = c /\ id[2] \in Nat /\ id[3] \in Nat /\ id = <<id[1], id[2], id[3]>>
<1>1. /\ Stored(c) /\ id[1] = c /\ id = <<id[1], id[2], id[3]>>
      /\ id[2] \in DOMAIN documents[c].clauses
      /\ id[3] \in DOMAIN documents[c].clauses[id[2]]
  BY ClauseIdsAreOfDocument
<1>2. IsDocument(documents[c])
  BY <1>1, StoredIsDocument
<1> QED
  BY <1>1, <1>2 DEF IsDocument, ClauseAt

LEMMA ClauseIdsAreFinite ==
    ASSUME AccessInv, NEW c \in Contents
    PROVE  IsFiniteSet(ClauseIds(c))
<1>1. CASE ~Stored(c)
  BY <1>1, FS_EmptySet DEF ClauseIds
<1>2. CASE Stored(c)
  <2> DEFINE d == documents[c]
             ids(p) == {<<c, p, i>> : i \in DOMAIN d.clauses[p]}
             f == [p \in DOMAIN d.clauses |-> ids(p)]
  <2>1. IsDocument(d)
    BY <1>2, StoredIsDocument
  <2>2. IsFiniteSet(DOMAIN d.clauses)
    <3>1. PICK n \in Nat : DOMAIN d.clauses = 1..n
      BY <2>1 DEF IsDocument
    <3> QED
      BY <3>1, FS_Interval
  <2>3. ASSUME NEW p \in DOMAIN d.clauses PROVE IsFiniteSet(ids(p))
    <3> DEFINE g == [i \in DOMAIN d.clauses[p] |-> <<c, p, i>>]
    <3>1. PICK m \in Nat : DOMAIN d.clauses[p] = 1..m
      BY <2>1 DEF IsDocument
    <3>2. IsFiniteSet(DOMAIN g)
      BY <3>1, FS_Interval
    <3>3. ids(p) = {g[i] : i \in DOMAIN g}
      OBVIOUS
    <3> HIDE DEF g, ids
    <3> QED
      BY <3>2, <3>3, ImageIsFinite
  <2>4. IsFiniteSet({f[p] : p \in DOMAIN f})
    <3>1. IsFiniteSet(DOMAIN f)
      BY <2>2
    <3> HIDE DEF f
    <3> QED
      BY <3>1, ImageIsFinite
  <2>5. \A T \in {f[p] : p \in DOMAIN f} : IsFiniteSet(T)
    <3> HIDE DEF ids
    <3> QED
      BY <2>3
  <2>6. ClauseIds(c) = UNION {f[p] : p \in DOMAIN f}
    <3>1. ClauseIds(c) = UNION {ids(p) : p \in DOMAIN d.clauses}
      BY <1>2, Zenon DEF ClauseIds
    <3>2. {ids(p) : p \in DOMAIN d.clauses} = {f[p] : p \in DOMAIN f}
      <4> HIDE DEF ids
      <4> QED
        OBVIOUS
    <3> QED
      BY <3>1, <3>2
  <2> HIDE DEF f
  <2> QED
    BY <2>4, <2>5, <2>6, FS_UNION
<1> QED
  BY <1>1, <1>2

\* What the sum of v over S computes, for every part of S: the equation of the fold.
IsSumOf(h, v, S) ==
    h = [s \in SUBSET S |->
            IF s = {} THEN 0 ELSE LET x == CHOOSE y \in s : TRUE IN v[x] + h[s \ {x}]]

\* Where v counts sets that do not meet, the sum counts their union.
LEMMA SumCounts ==
    ASSUME NEW S, IsFiniteSet(S), NEW v, NEW T,
           \A x \in S : IsFiniteSet(T[x]) /\ v[x] = Cardinality(T[x]),
           \A x, y \in S : x # y => T[x] \cap T[y] = {}
    PROVE  /\ \E h : IsSumOf(h, v, S)
           /\ \A h : IsSumOf(h, v, S) => h[S] = Cardinality(UNION {T[x] : x \in S})
           /\ IsFiniteSet(UNION {T[x] : x \in S})
<1> DEFINE All(s) == UNION {T[x] : x \in s}
           g == [s \in SUBSET S |-> Cardinality(All(s))]
<1>1. ASSUME NEW s \in SUBSET S PROVE IsFiniteSet(s) /\ IsFiniteSet(All(s))
  <2> DEFINE f == [x \in s |-> T[x]]
  <2>1. IsFiniteSet(s)
    BY FS_Subset
  <2>2. DOMAIN f = s /\ {f[x] : x \in DOMAIN f} = {T[x] : x \in s}
    OBVIOUS
  <2> HIDE DEF f
  <2>3. IsFiniteSet({T[x] : x \in s})
    BY <2>1, <2>2, ImageIsFinite
  <2> QED
    BY <2>1, <2>3, FS_UNION
<1>2. ASSUME NEW s \in SUBSET S, NEW x \in s
      PROVE  /\ s \ {x} \in SUBSET S
             /\ Cardinality(All(s)) = v[x] + Cardinality(All(s \ {x}))
             /\ Cardinality(All(s \ {x})) \in Nat /\ v[x] \in Nat
  <2> DEFINE r == s \ {x}
  <2>1. r \in SUBSET S /\ IsFiniteSet(All(r))
    BY <1>1
  <2>2. All(s) = T[x] \cup All(r)
    OBVIOUS
  <2>3. T[x] \cap All(r) = {}
    OBVIOUS
  <2>4. IsFiniteSet(T[x]) /\ v[x] = Cardinality(T[x])
    OBVIOUS
  <2> HIDE DEF All, r
  <2>5. /\ Cardinality(T[x]) \in Nat /\ Cardinality(All(r)) \in Nat
        /\ Cardinality(T[x] \cap All(r)) = 0
    BY <2>1, <2>3, <2>4, FS_CardinalityType, FS_EmptySet
  <2>6. Cardinality(T[x] \cup All(r)) =
            Cardinality(T[x]) + Cardinality(All(r)) - Cardinality(T[x] \cap All(r))
    BY <2>1, <2>4, FS_Union
  <2> QED
    BY <2>1, <2>2, <2>4, <2>5, <2>6 DEF r
<1>3. Cardinality(All({})) = 0
  BY FS_EmptySet
<1> HIDE DEF All
<1>4. IsSumOf(g, v, S)
  <2>1. ASSUME NEW s \in SUBSET S, s # {}
        PROVE  LET x == CHOOSE y \in s : TRUE IN Cardinality(All(s)) = v[x] + g[s \ {x}]
    <3> DEFINE x == CHOOSE y \in s : TRUE
    <3>1. x \in s
      BY <2>1
    <3> HIDE DEF x
    <3>2. Cardinality(All(s)) = v[x] + g[s \ {x}]
      BY <1>2, <3>1
    <3> QED
      BY <3>2 DEF x
  <2>2. \A s \in SUBSET S :
            g[s] = IF s = {} THEN 0 ELSE LET x == CHOOSE y \in s : TRUE IN v[x] + g[s \ {x}]
    BY <1>3, <2>1
  <2>3. g = [s \in SUBSET S |-> g[s]]
    OBVIOUS
  <2> HIDE DEF g
  <2> QED
    BY <2>2, <2>3 DEF IsSumOf
<1>5. ASSUME NEW h, IsSumOf(h, v, S) PROVE h[S] = Cardinality(All(S))
  <2> DEFINE Bad == {s \in SUBSET S : h[s] # Cardinality(All(s))}
             Sizes == {Cardinality(s) : s \in Bad}
  <2>1. h[{}] = 0
    BY <1>5 DEF IsSumOf
  <2>2. ASSUME NEW s \in SUBSET S, s # {} PROVE \E x \in s : h[s] = v[x] + h[s \ {x}]
    <3> DEFINE x == CHOOSE y \in s : TRUE
    <3>1. h[s] = v[x] + h[s \ {x}]
      BY <2>2, <1>5 DEF IsSumOf
    <3>2. x \in s
      BY <2>2
    <3> HIDE DEF x
    <3> QED
      BY <3>1, <3>2
  <2>3. Sizes \subseteq Nat
    BY <1>1, FS_CardinalityType
  <2>4. Bad = {}
    <3> SUFFICES ASSUME Bad # {} PROVE FALSE
      OBVIOUS
    <3>1. PICK k \in Sizes : \A m \in Sizes : k <= m
      <4>1. Sizes # {}
        OBVIOUS
      <4> HIDE DEF Sizes
      <4> QED
        BY <2>3, <4>1, SmallestNumber
    <3>2. PICK s \in Bad : Cardinality(s) = k
      OBVIOUS
    <3>3. s \in SUBSET S /\ s # {} /\ h[s] # Cardinality(All(s))
      BY <1>3, <2>1, <3>2
    <3>4. PICK x \in s : h[s] = v[x] + h[s \ {x}]
      BY <2>2, <3>3
    <3>5. s \ {x} \notin Bad
      <4>1. IsFiniteSet(s)
        BY <1>1, <3>3
      <4>2. Cardinality(s \ {x}) = Cardinality(s) - 1 /\ Cardinality(s) \in Nat
        BY <3>4, <4>1, FS_RemoveElement, FS_CardinalityType
      <4>3. s \ {x} \in Bad => k <= Cardinality(s \ {x})
        BY <3>1
      <4> QED
        BY <3>2, <4>2, <4>3
    <3>6. h[s \ {x}] = Cardinality(All(s \ {x}))
      BY <1>2, <3>3, <3>4, <3>5
    <3> QED
      BY <1>2, <3>3, <3>4, <3>6
  <2> QED
    BY <2>4
<1>6. \E h : IsSumOf(h, v, S)
  BY <1>4
<1>7. IsFiniteSet(All(S))
  BY <1>1
<1> QED
  BY <1>5, <1>6, <1>7 DEF All

LEMMA DocumentsAreFinite ==
    ASSUME NEW j \in Jobs
    PROVE  IsFiniteSet(DocumentsOf(j)) /\ DocumentsOf(j) \subseteq Contents
<1>1. DOMAIN j = 1..Len(j) /\ Len(j) \in Nat /\ \A n \in DOMAIN j : j[n] \in Contents
  BY CorpusAssumption
<1>2. IsFiniteSet({j[n] : n \in DOMAIN j})
  <2>1. IsFiniteSet(DOMAIN j)
    BY <1>1, FS_Interval
  <2> QED
    BY <2>1, ImageIsFinite
<1>3. DocumentsOf(j) \subseteq {j[n] : n \in DOMAIN j}
  BY DEF DocumentsOf
<1> QED
  BY <1>1, <1>2, <1>3, FS_Subset

\* The pairs of clauses of c and d, when d comes after c.
PairsOf(j, c, d) == IF Place(j, c) < Place(j, d) THEN ClauseIds(c) \X ClauseIds(d) ELSE {}

LEMMA PairOfBoth ==
    ASSUME NEW j, NEW c, NEW d, NEW p \in PairsOf(j, c, d)
    PROVE  p[1][1] = c /\ p[2][1] = d
BY ClauseIdsAreOfDocument DEF PairsOf

\* The inner sum of count_naive_pairs counts the pairs of the clauses of c.
LEMMA InnerSum ==
    ASSUME AccessInv, NEW j \in Jobs, NEW c \in DocumentsOf(j)
    PROVE  LET pairs == UNION {PairsOf(j, c, d) : d \in DocumentsOf(j)} IN
           /\ IsFiniteSet(pairs)
           /\ MapThenSumSet(
                  LAMBDA d : IF Place(j, c) < Place(j, d)
                             THEN Cardinality(ClauseIds(c)) * Cardinality(ClauseIds(d)) ELSE 0,
                  DocumentsOf(j)) = Cardinality(pairs)
<1> DEFINE D == DocumentsOf(j)
           value(d) == IF Place(j, c) < Place(j, d)
                       THEN Cardinality(ClauseIds(c)) * Cardinality(ClauseIds(d)) ELSE 0
           IsIter(h) == h = [s \in SUBSET D |->
                                IF s = {} THEN 0 ELSE LET x == CHOOSE y \in s : TRUE IN value(x) + h[s \ {x}]]
           sum == MapThenSumSet(
                      LAMBDA d : IF Place(j, c) < Place(j, d)
                                 THEN Cardinality(ClauseIds(c)) * Cardinality(ClauseIds(d)) ELSE 0, D)
           v == [d \in D |-> value(d)]
           T == [d \in D |-> PairsOf(j, c, d)]
<1>1. sum = (CHOOSE h : IsIter(h))[D]
  BY DEF MapThenSumSet, MapThenFoldSet
<1>2. IsFiniteSet(D)
  BY DocumentsAreFinite
<1>3. ASSUME NEW d \in D PROVE IsFiniteSet(PairsOf(j, c, d)) /\ value(d) = Cardinality(PairsOf(j, c, d))
  <2>1. IsFiniteSet(ClauseIds(c)) /\ IsFiniteSet(ClauseIds(d))
    BY DocumentsAreFinite, ClauseIdsAreFinite
  <2>2. /\ IsFiniteSet(ClauseIds(c) \X ClauseIds(d))
        /\ Cardinality(ClauseIds(c) \X ClauseIds(d)) = Cardinality(ClauseIds(c)) * Cardinality(ClauseIds(d))
    BY <2>1, FS_Product
  <2> QED
    BY <2>2, FS_EmptySet DEF PairsOf
<1>4. \A d \in D : T[d] = PairsOf(j, c, d) /\ v[d] = value(d)
  OBVIOUS
<1>5. ASSUME NEW d \in D, NEW e \in D, d # e PROVE T[d] \cap T[e] = {}
  <2>1. \A p : ~(p \in PairsOf(j, c, d) /\ p \in PairsOf(j, c, e))
    BY <1>5, PairOfBoth
  <2> QED
    BY <1>4, <2>1
<1>6. ASSUME NEW h PROVE IsIter(h) <=> IsSumOf(h, v, D)
  <2>1. ASSUME NEW s \in SUBSET D
        PROVE  (IF s = {} THEN 0 ELSE LET x == CHOOSE y \in s : TRUE IN value(x) + h[s \ {x}])
             = (IF s = {} THEN 0 ELSE LET x == CHOOSE y \in s : TRUE IN v[x] + h[s \ {x}])
    <3> DEFINE x == CHOOSE y \in s : TRUE
    <3>1. s # {} => x \in s
      OBVIOUS
    <3> HIDE DEF x, value, v
    <3>2. s # {} => value(x) = v[x]
      BY <1>4, <3>1
    <3>3. (IF s = {} THEN 0 ELSE value(x) + h[s \ {x}]) = (IF s = {} THEN 0 ELSE v[x] + h[s \ {x}])
      BY <3>2
    <3> QED
      BY <3>3 DEF x
  <2> HIDE DEF v, value, D
  <2> QED
    BY <2>1 DEF IsSumOf
<1> HIDE DEF v, T, value, D, IsIter
<1>7. /\ \E h : IsSumOf(h, v, D)
      /\ \A h : IsSumOf(h, v, D) => h[D] = Cardinality(UNION {T[d] : d \in D})
      /\ IsFiniteSet(UNION {T[d] : d \in D})
  BY <1>2, <1>3, <1>4, <1>5, SumCounts
<1>8. IsIter(CHOOSE h : IsIter(h))
  BY <1>6, <1>7
<1>9. sum = Cardinality(UNION {T[d] : d \in D})
  BY <1>1, <1>6, <1>7, <1>8
<1>10. {T[d] : d \in D} = {PairsOf(j, c, d) : d \in D}
  BY <1>4
<1> QED
  BY <1>7, <1>9, <1>10 DEF D

\* count_naive_pairs counts the candidates.
LEMMA NaiveCountIsExact ==
    ASSUME AccessInv, NEW j \in Jobs
    PROVE  NaiveCount(j) = Cardinality(CandidatePairs(j))
<1> DEFINE D == DocumentsOf(j)
           value(c) == MapThenSumSet(
                           LAMBDA d : IF Place(j, c) < Place(j, d)
                                      THEN Cardinality(ClauseIds(c)) * Cardinality(ClauseIds(d)) ELSE 0, D)
           IsIter(h) == h = [s \in SUBSET D |->
                                IF s = {} THEN 0 ELSE LET x == CHOOSE y \in s : TRUE IN value(x) + h[s \ {x}]]
           PairsFrom(c) == UNION {PairsOf(j, c, d) : d \in D}
           v == [c \in D |-> value(c)]
           T == [c \in D |-> PairsFrom(c)]
<1>1. NaiveCount(j) = MapThenSumSet(LAMBDA c : value(c), D)
  BY DEF NaiveCount
<1>2. ASSUME NEW c \in D PROVE IsFiniteSet(PairsFrom(c)) /\ value(c) = Cardinality(PairsFrom(c))
  BY InnerSum
<1> HIDE DEF value
<1>3. MapThenSumSet(LAMBDA c : value(c), D) = (CHOOSE h : IsIter(h))[D]
  BY DEF MapThenSumSet, MapThenFoldSet
<1>4. IsFiniteSet(D)
  BY DocumentsAreFinite
<1>5. \A c \in D : T[c] = PairsFrom(c) /\ v[c] = value(c)
  OBVIOUS
<1>6. ASSUME NEW c \in D, NEW e \in D, c # e PROVE T[c] \cap T[e] = {}
  <2>1. \A p \in PairsFrom(c) : p[1][1] = c
    BY PairOfBoth
  <2>2. \A p \in PairsFrom(e) : p[1][1] = e
    BY PairOfBoth
  <2> HIDE DEF PairsFrom
  <2> QED
    BY <1>5, <1>6, <2>1, <2>2
<1>7. ASSUME NEW h PROVE IsIter(h) <=> IsSumOf(h, v, D)
  <2>1. ASSUME NEW s \in SUBSET D
        PROVE  (IF s = {} THEN 0 ELSE LET x == CHOOSE y \in s : TRUE IN value(x) + h[s \ {x}])
             = (IF s = {} THEN 0 ELSE LET x == CHOOSE y \in s : TRUE IN v[x] + h[s \ {x}])
    <3> DEFINE x == CHOOSE y \in s : TRUE
    <3>1. s # {} => x \in s
      OBVIOUS
    <3> HIDE DEF x, v
    <3>2. s # {} => value(x) = v[x]
      BY <1>5, <3>1
    <3>3. (IF s = {} THEN 0 ELSE value(x) + h[s \ {x}]) = (IF s = {} THEN 0 ELSE v[x] + h[s \ {x}])
      BY <3>2
    <3> QED
      BY <3>3 DEF x
  <2> HIDE DEF v, D
  <2> QED
    BY <2>1 DEF IsSumOf
<1>8. UNION {T[c] : c \in D} = CandidatePairs(j)
  <2>1. ASSUME NEW p PROVE p \in UNION {T[c] : c \in D} <=> p \in CandidatePairs(j)
    <3>1. p \in UNION {T[c] : c \in D} <=> \E c, d \in D : p \in PairsOf(j, c, d)
      BY <1>5
    <3>2. ASSUME NEW c \in D, NEW d \in D, p \in PairsOf(j, c, d) PROVE p \in CandidatePairs(j)
      <4>1. Place(j, c) < Place(j, d) /\ p \in ClauseIds(c) \X ClauseIds(d)
        BY <3>2 DEF PairsOf
      <4>2. p = <<p[1], p[2]>> /\ p[1] \in ClauseIds(c) /\ p[2] \in ClauseIds(d)
        BY <4>1
      <4>3. p[1][1] = c /\ p[2][1] = d
        BY <4>2, ClauseIdsAreOfDocument
      <4> QED
        BY <4>1, <4>2, <4>3, CandidatesAre
    <3>3. ASSUME p \in CandidatePairs(j) PROVE \E c, d \in D : p \in PairsOf(j, c, d)
      <4>1. p = <<p[1], p[2]>>
        BY <3>3, CandidateIsPair
      <4>2. /\ p[1][1] \in D /\ p[2][1] \in D
            /\ p[1] \in ClauseIds(p[1][1]) /\ p[2] \in ClauseIds(p[2][1])
            /\ Place(j, p[1][1]) < Place(j, p[2][1])
        BY <3>3, <4>1, CandidatesAre
      <4>3. p \in ClauseIds(p[1][1]) \X ClauseIds(p[2][1])
        BY <4>1, <4>2
      <4> QED
        BY <4>2, <4>3 DEF PairsOf
    <3> QED
      BY <3>1, <3>2, <3>3
  <2> QED
    BY <2>1
<1> HIDE DEF v, T, D, PairsFrom, IsIter
<1>9. /\ \E h : IsSumOf(h, v, D)
      /\ \A h : IsSumOf(h, v, D) => h[D] = Cardinality(UNION {T[c] : c \in D})
      /\ IsFiniteSet(UNION {T[c] : c \in D})
  <2>1. \A c \in D : IsFiniteSet(T[c]) /\ v[c] = Cardinality(T[c])
    BY <1>2, <1>5
  <2>2. \A c, e \in D : c # e => T[c] \cap T[e] = {}
    BY <1>6
  <2> QED
    BY <1>4, <2>1, <2>2, SumCounts
<1>10. IsIter(CHOOSE h : IsIter(h))
  BY <1>7, <1>9
<1> QED
  BY <1>1, <1>3, <1>7, <1>8, <1>9, <1>10

\* The selection of a job, with where its clauses are.
SelectionOK(j) ==
    /\ \A p \in Scored(j) : /\ p[1][1] \in Contents /\ p[1] \in ClauseIds(p[1][1])
                            /\ p[2][1] \in Contents /\ p[2] \in ClauseIds(p[2][1])
    /\ Selected(j) \subseteq Scored(j)
    /\ SelectedByScore(j)
    /\ PairedOnce(Scored(j))
    /\ selection[j].naive = Cardinality(Scored(j))

SelectionInv ==
    /\ DOMAIN selection = Jobs
    /\ \A j \in Jobs : selection[j] # None => SelectionOK(j)

LEMMA SelectionStays ==
    ASSUME AccessInv, [Next]_vars, NEW j \in Jobs, SelectionOK(j), selection'[j] = selection[j]
    PROVE  SelectionOK(j)'
<1>1. Selected(j)' = Selected(j) /\ Scored(j)' = Scored(j) /\ selection'[j].similarity = selection[j].similarity
  BY DEF Selected, Scored
<1>2. PairedOnce(Scored(j)')
  BY <1>1 DEF SelectionOK
<1>3. ASSUME NEW p \in Scored(j)
      PROVE  /\ p[1][1] \in Contents /\ p[1] \in ClauseIds(p[1][1])' /\ ClauseAt(p[1])' = ClauseAt(p[1])
             /\ p[2][1] \in Contents /\ p[2] \in ClauseIds(p[2][1])' /\ ClauseAt(p[2])' = ClauseAt(p[2])
  BY ClauseStays DEF SelectionOK
<1>4. SelectedByScore(j)'
  <2> SUFFICES ASSUME NEW p \in Scored(j)
               PROVE  p \in Selected(j) <=>
                          CompositeScore(ClauseAt(p[1])', ClauseAt(p[2])', selection[j].similarity[p]) >= Threshold * Unit
    BY <1>1 DEF SelectedByScore
  <2> QED
    BY <1>3 DEF SelectionOK, SelectedByScore
<1> QED
  BY <1>1, <1>2, <1>3, <1>4 DEF SelectionOK

LEMMA SelectionIsMade ==
    ASSUME AccessInv, SelectionInv, NEW j \in Jobs, SelectCandidates(j)
    PROVE  SelectionOK(j)' /\ \A i \in Jobs \ {j} : selection'[i] = selection[i]
<1>1. PICK similarity \in [CandidatePairs(j) -> Similarities] :
          selection' = [selection EXCEPT ![j] =
              [similarity |-> similarity, pairs |-> Filtered(j, similarity), naive |-> NaiveCount(j)]]
  BY DEF SelectCandidates
<1>2. documents' = documents
  BY DEF SelectCandidates
<1>3. /\ selection'[j].similarity = similarity /\ selection'[j].pairs = Filtered(j, similarity)
      /\ selection'[j].naive = NaiveCount(j)
      /\ \A i \in Jobs \ {j} : selection'[i] = selection[i]
  BY <1>1 DEF SelectionInv
<1>4. Scored(j)' = CandidatePairs(j) /\ Selected(j)' = Filtered(j, similarity)
  BY <1>3 DEF Scored, Selected
<1>5. \A c : ClauseIds(c)' = ClauseIds(c) /\ ClauseAt(c)' = ClauseAt(c)
  BY <1>2 DEF ClauseIds, ClauseAt, Stored
<1>6. ASSUME NEW p \in CandidatePairs(j)
      PROVE  /\ p[1][1] \in Contents /\ p[1] \in ClauseIds(p[1][1])
             /\ p[2][1] \in Contents /\ p[2] \in ClauseIds(p[2][1])
  <2>1. <<p[1], p[2]>> \in CandidatePairs(j)
    BY CandidateIsPair
  <2>2. p[1][1] \in DocumentsOf(j) /\ p[2][1] \in DocumentsOf(j)
    BY <2>1, CandidatesAre
  <2>3. \A n \in DOMAIN j : j[n] \in Contents
    BY CorpusAssumption
  <2> QED
    BY <2>1, <2>2, <2>3, CandidatesAre DEF DocumentsOf
<1>7. ASSUME NEW p \in CandidatePairs(j)
      PROVE  p \in Filtered(j, similarity) <=>
                 CompositeScore(ClauseAt(p[1]), ClauseAt(p[2]), similarity[p]) >= Threshold * Unit
  <2>1. IsClause(ClauseAt(p[1])) /\ IsClause(ClauseAt(p[2]))
    BY <1>6, ClauseIsClause
  <2>2. similarity[p] \in 0..Unit
    BY CorpusAssumption
  <2> QED
    BY <2>1, <2>2, EarlyExitIsSafe DEF Filtered
<1>8. SelectedByScore(j)'
  BY <1>3, <1>4, <1>5, <1>7 DEF SelectedByScore
<1>9. PairedOnce(Scored(j)')
  BY <1>4, CandidatesArePairedOnce
<1>10. Selected(j)' \subseteq Scored(j)'
  BY <1>4 DEF Filtered
<1>11. selection'[j].naive = Cardinality(Scored(j)')
  BY <1>3, <1>4, NaiveCountIsExact
<1> QED
  BY <1>3, <1>4, <1>5, <1>6, <1>8, <1>9, <1>10, <1>11 DEF SelectionOK

LEMMA SelectionStep == AccessInv /\ SelectionInv /\ [Next]_vars => SelectionInv'
<1> SUFFICES ASSUME AccessInv, SelectionInv, [Next]_vars PROVE SelectionInv'
  OBVIOUS
<1>1. CASE UNCHANGED selection
  BY <1>1, SelectionStays DEF SelectionInv
<1>2. ASSUME NEW j \in Jobs, SelectCandidates(j) PROVE SelectionInv'
  <2>1. SelectionOK(j)' /\ \A i \in Jobs \ {j} : selection'[i] = selection[i]
    BY <1>2, SelectionIsMade
  <2>2. DOMAIN selection' = Jobs
    BY <1>2 DEF SelectCandidates, SelectionInv
  <2> QED
    BY <2>1, <2>2, SelectionStays DEF SelectionInv
<1>3. ASSUME NEW s \in Sessions, NEW n \in Names, NEW c \in Contents,
             RejectUpload(s, n, c) \/ UploadAgain(s, n, c) \/ UploadNew(s, n, c)
      PROVE  UNCHANGED selection
  BY <1>3 DEF RejectUpload, UploadAgain, UploadNew
<1>4. ASSUME NEW s \in Sessions, NEW j \in Jobs, CreateJob(s, j) \/ \E r \in Requests, intent \in Intents : Ask(r, s, j, intent)
      PROVE  UNCHANGED selection
  BY <1>4 DEF CreateJob, Ask
<1>5. ASSUME NEW r \in Requests, Answer(r) \/ ProviderFails(r) PROVE UNCHANGED selection
  BY <1>5 DEF Answer, ProviderFails
<1> QED
  BY <1>1, <1>2, <1>3, <1>4, <1>5 DEF Next, vars

\* The pairs analysed are those whose full score reaches the threshold, whatever the
\* weights and in spite of the early exit; each is there in one order only; and the number
\* reported, counted by document sizes alone, is the number of all pairs.
THEOREM SelectionExact == Spec => []SelectionIsExact
<1>1. Init => AccessInv /\ SelectionInv
  BY AccessStarts DEF Init, SelectionInv
<1>2. AccessInv /\ SelectionInv /\ [Next]_vars => (AccessInv /\ SelectionInv)'
  BY AccessStep, SelectionStep
<1>3. ASSUME SelectionInv PROVE SelectionIsExact
  BY <1>3 DEF SelectionInv, SelectionOK, SelectionIsExact
<1> QED
  BY <1>1, <1>2, <1>3, PTL DEF Spec

(***************************************************************************)
(* What a question reads, and in which order                               *)
(***************************************************************************)

LEMMA ReadIsOfJob ==
    ASSUME NEW j \in Jobs, NEW x \in Read(j)
    PROVE  /\ x = <<x[1], x[2], x[3], x[4]>>
           /\ x[1] \in DOMAIN j /\ x[1] \in Nat /\ j[x[1]] = x[2] /\ x[2] \in Contents
           /\ IdOf(x) \in ClauseIds(x[2])
<1>1. PICK n \in DOMAIN j : \E id \in ClauseIds(j[n]) : x = <<n, id[1], id[2], id[3]>>
  BY DEF Read
<1>2. PICK id \in ClauseIds(j[n]) : x = <<n, id[1], id[2], id[3]>>
  BY <1>1
<1>3. id[1] = j[n] /\ id = <<id[1], id[2], id[3]>>
  BY ClauseIdsAreOfDocument
<1>4. n \in Nat /\ j[n] \in Contents
  BY CorpusAssumption
<1>5. x[1] = n /\ x[2] = j[n] /\ IdOf(x) = id /\ x = <<x[1], x[2], x[3], x[4]>>
  BY <1>2, <1>3 DEF IdOf
<1> QED
  BY <1>2, <1>4, <1>5

LEMMA ReadIsFinite ==
    ASSUME AccessInv, NEW j \in Jobs
    PROVE  IsFiniteSet(Read(j))
<1> DEFINE part(n) == {<<n, id[1], id[2], id[3]>> : id \in ClauseIds(j[n])}
           f == [n \in DOMAIN j |-> part(n)]
<1>1. DOMAIN j = 1..Len(j) /\ Len(j) \in Nat /\ \A n \in DOMAIN j : j[n] \in Contents
  BY CorpusAssumption
<1>2. ASSUME NEW n \in DOMAIN j PROVE IsFiniteSet(part(n))
  <2> DEFINE g == [id \in ClauseIds(j[n]) |-> <<n, id[1], id[2], id[3]>>]
  <2>1. IsFiniteSet(DOMAIN g)
    BY <1>1, ClauseIdsAreFinite
  <2>2. part(n) = {g[id] : id \in DOMAIN g}
    OBVIOUS
  <2> HIDE DEF g, part
  <2> QED
    BY <2>1, <2>2, ImageIsFinite
<1>3. IsFiniteSet({f[n] : n \in DOMAIN f})
  <2>1. IsFiniteSet(DOMAIN f)
    BY <1>1, FS_Interval
  <2> HIDE DEF f
  <2> QED
    BY <2>1, ImageIsFinite
<1>4. \A T \in {f[n] : n \in DOMAIN f} : IsFiniteSet(T)
  <2> HIDE DEF part
  <2> QED
    BY <1>2
<1>5. Read(j) = UNION {f[n] : n \in DOMAIN f}
  BY DEF Read
<1> HIDE DEF f
<1> QED
  BY <1>3, <1>4, <1>5, FS_UNION

\* Of finitely many things with a strict order, given by a relation, one is last.
LEMMA LastThere ==
    ASSUME NEW S, IsFiniteSet(S), S # {}, NEW better,
           \A x \in S : <<x, x>> \notin better,
           \A x, y, z \in S : <<x, y>> \in better /\ <<y, z>> \in better => <<x, z>> \in better
    PROVE  \E w \in S : \A y \in S : <<w, y>> \notin better
<1> DEFINE Below(x) == {y \in S : <<x, y>> \in better}
           T == {Below(x) : x \in S}
<1>1. T # {} /\ T \subseteq FiniteSubsetsOf(S)
  <2>1. \A x \in S : Below(x) \in SUBSET S
    OBVIOUS
  <2>2. \A x \in S : IsFiniteSet(Below(x))
    BY <2>1, FS_Subset
  <2> HIDE DEF Below
  <2> QED
    BY <2>1, <2>2 DEF FiniteSubsetsOf
<1>2. \E b \in T : \A a \in T : <<a, b>> \notin StrictSubsetOrdering(S)
  <2> HIDE DEF T
  <2> QED
    BY <1>1, FS_StrictSubsetOrderingWellFounded, WFMin, Zenon
<1>3. PICK w \in S : \A x \in S : <<Below(x), Below(w)>> \notin StrictSubsetOrdering(S)
  <2> HIDE DEF Below
  <2> QED
    BY <1>2
<1>4. ASSUME NEW y \in S, <<w, y>> \in better PROVE FALSE
  <2>1. Below(y) \subseteq Below(w)
    BY <1>4
  <2>2. y \in Below(w) /\ y \notin Below(y)
    BY <1>4
  <2>3. Below(y) \in SUBSET S /\ Below(w) \in SUBSET S
    OBVIOUS
  <2> HIDE DEF Below
  <2> QED
    BY <1>3, <2>1, <2>2, <2>3 DEF StrictSubsetOrdering
<1> QED
  BY <1>4

\* At most k of the things in S have fewer than k others before them.
LEMMA AtMostK ==
    ASSUME NEW S, IsFiniteSet(S), NEW better, NEW k \in Nat,
           \A x \in S : <<x, x>> \notin better,
           \A x, y, z \in S : <<x, y>> \in better /\ <<y, z>> \in better => <<x, z>> \in better,
           \A x, y \in S : x # y => <<x, y>> \in better \/ <<y, x>> \in better
    PROVE  Cardinality({x \in S : Cardinality({y \in S : <<y, x>> \in better}) < k}) <= k
<1> DEFINE Before(x) == {y \in S : <<y, x>> \in better}
           R == {x \in S : Cardinality(Before(x)) < k}
<1>1. IsFiniteSet(R) /\ R \subseteq S
  <2>1. R \in SUBSET S
    OBVIOUS
  <2> HIDE DEF R
  <2> QED
    BY <2>1, FS_Subset
<1>2. CASE R = {}
  <2>1. Cardinality(R) = 0
    BY <1>2, FS_EmptySet
  <2> HIDE DEF R
  <2>2. Cardinality(R) <= k
    BY <2>1
  <2> QED
    BY <2>2 DEF R
<1>3. CASE R # {}
  <2>1. \E w \in R : \A y \in R : <<w, y>> \notin better
    <3>1. \A x \in R : <<x, x>> \notin better
      BY <1>1
    <3>2. \A x, y, z \in R : <<x, y>> \in better /\ <<y, z>> \in better => <<x, z>> \in better
      BY <1>1
    <3> HIDE DEF R
    <3> QED
      BY <1>1, <1>3, <3>1, <3>2, LastThere
  <2>2. PICK w \in R : \A y \in R : <<w, y>> \notin better
    BY <2>1
  <2>3. R \ {w} \subseteq Before(w)
    BY <2>2
  <2>4. IsFiniteSet(Before(w)) /\ Cardinality(Before(w)) < k
    <3>1. Before(w) \in SUBSET S /\ w \in R
      OBVIOUS
    <3>2. Cardinality(Before(w)) < k
      BY <3>1
    <3> HIDE DEF Before
    <3> QED
      BY <3>1, <3>2, FS_Subset
  <2> HIDE DEF R, Before
  <2>5. Cardinality(R \ {w}) <= Cardinality(Before(w)) /\ Cardinality(Before(w)) \in Nat
    BY <2>3, <2>4, FS_Subset, FS_CardinalityType
  <2>6. Cardinality(R \ {w}) = Cardinality(R) - 1 /\ Cardinality(R) \in Nat
    BY <1>1, <2>2, FS_RemoveElement, FS_CardinalityType
  <2>7. Cardinality(R) <= k
    BY <2>4, <2>5, <2>6
  <2> QED
    BY <2>7 DEF R, Before
<1> QED
  BY <1>2, <1>3

LEMMA ScoreIsNatural ==
    ASSUME NEW intent \in Intents, NEW c, NEW s \in 0..Unit
    PROVE  /\ Relevance(intent, c, s) \in Nat
           /\ MatchesTopic(intent, c) => Relevance(intent, c, s) >= MinRelevance
<1> DEFINE named == {t \in intent.subtopics : t \in c.topics \cup c.words \cup c.section}
           n == Cardinality(named)
           bonus == Bonus(intent, c)
           minus == Penalty(intent, c)
<1>1. n \in Nat
  <2>1. PICK words \in Queries : intent = Intent(words)
    BY DEF Intents
  <2>2. IsFiniteSet(intent.subtopics)
    BY <2>1, TopicsAreFinite DEF Intent
  <2>3. named \in SUBSET intent.subtopics
    OBVIOUS
  <2> HIDE DEF named
  <2> QED
    BY <2>2, <2>3, FS_Subset, FS_CardinalityType
<1>2. bonus \in Nat /\ (MatchesTopic(intent, c) => bonus >= 24)
  <2>1. bonus = (IF MatchesTopic(intent, c) THEN 24 ELSE 0) + 12 * n
                + (IF intent.asksForNumbers /\ c.duration THEN 9 ELSE 0)
    BY DEF Bonus
  <2> HIDE DEF n, bonus
  <2> QED
    BY <1>1, <2>1
<1>3. minus \in {0, 30} /\ (MatchesTopic(intent, c) => minus = 0)
  BY DEF Penalty, IsOffTopic
<1>4. Relevance(intent, c, s) =
          IF s + bonus <= minus THEN 0
          ELSE IF (s + bonus) - minus >= Unit THEN Unit ELSE (s + bonus) - minus
  BY DEF Relevance
<1> HIDE DEF bonus, minus
<1> QED
  BY <1>2, <1>3, <1>4 DEF Unit, MinRelevance

\* The scores of all that is read.
LEMMA ScoresOfRead ==
    ASSUME AccessInv, NEW j \in Jobs, NEW intent \in Intents,
           NEW similarity \in [{IdOf(x) : x \in Read(j)} -> Similarities], NEW x \in Read(j)
    PROVE  /\ Score(intent, similarity, x) \in Nat
           /\ MatchesTopic(intent, ClauseAt(IdOf(x))) => Score(intent, similarity, x) >= MinRelevance
<1>1. similarity[IdOf(x)] \in 0..Unit
  BY CorpusAssumption
<1> QED
  BY <1>1, ScoreIsNatural DEF Score

LEMMA EarlierIsOrder ==
    ASSUME AccessInv, NEW j \in Jobs
    PROVE  /\ \A x \in Read(j) : ~Earlier(x, x)
           /\ \A x, y, z \in Read(j) : Earlier(x, y) /\ Earlier(y, z) => Earlier(x, z)
           /\ \A x, y \in Read(j) : x # y => Earlier(x, y) \/ Earlier(y, x)
<1>1. ASSUME NEW x \in Read(j)
      PROVE  /\ x[1] \in Nat /\ x[3] \in Nat /\ x[4] \in Nat
             /\ x = <<x[1], x[2], x[3], x[4]>> /\ x[2] = j[x[1]]
  <2>1. /\ x = <<x[1], x[2], x[3], x[4]>> /\ x[1] \in Nat /\ j[x[1]] = x[2]
        /\ x[2] \in Contents /\ IdOf(x) \in ClauseIds(x[2])
    BY ReadIsOfJob
  <2>2. IdOf(x)[2] \in Nat /\ IdOf(x)[3] \in Nat
    BY <2>1, ClauseIsClause
  <2> QED
    BY <2>1, <2>2 DEF IdOf
<1>2. ASSUME NEW x \in Read(j), NEW y \in Read(j), x # y PROVE Earlier(x, y) \/ Earlier(y, x)
  <2>1. /\ x[1] \in Nat /\ x[3] \in Nat /\ x[4] \in Nat /\ y[1] \in Nat /\ y[3] \in Nat /\ y[4] \in Nat
    BY <1>1
  <2>2. x[1] # y[1] \/ x[3] # y[3] \/ x[4] # y[4]
    <3>1. x = <<x[1], j[x[1]], x[3], x[4]>> /\ y = <<y[1], j[y[1]], y[3], y[4]>>
      BY <1>1
    <3> QED
      BY <1>2, <3>1
  <2> QED
    BY <2>1, <2>2 DEF Earlier
<1>3. ASSUME NEW x \in Read(j), NEW y \in Read(j), NEW z \in Read(j), Earlier(x, y), Earlier(y, z)
      PROVE  Earlier(x, z)
  <2>1. /\ x[1] \in Nat /\ x[3] \in Nat /\ x[4] \in Nat /\ y[1] \in Nat /\ y[3] \in Nat /\ y[4] \in Nat
        /\ z[1] \in Nat /\ z[3] \in Nat /\ z[4] \in Nat
    BY <1>1
  <2> QED
    BY <1>3, <2>1 DEF Earlier
<1>4. ASSUME NEW x \in Read(j) PROVE ~Earlier(x, x)
  BY <1>1 DEF Earlier
<1> QED
  BY <1>2, <1>3, <1>4

\* What is shown is at most TopK, and a clause on the topic is left out for TopK others.
LEMMA BestAreShown ==
    ASSUME AccessInv, NEW j \in Jobs, NEW intent \in Intents,
           NEW similarity \in [{IdOf(x) : x \in Read(j)} -> Similarities]
    PROVE  LET read == Read(j)
               score == [x \in read |-> Score(intent, similarity, x)]
               relevant == Relevant(intent, similarity, read)
           IN  /\ relevant \subseteq read
               /\ Cardinality(relevant) <= TopK
               /\ \A x \in read \ relevant : MatchesTopic(intent, ClauseAt(IdOf(x))) =>
                     Cardinality({y \in read \ {x} : score[y] >= score[x]}) >= TopK
<1> DEFINE read == Read(j)
           score == [x \in read |-> Score(intent, similarity, x)]
           relevant == Relevant(intent, similarity, read)
           Better(y, x) == score[y] > score[x] \/ (score[y] = score[x] /\ Earlier(y, x))
           better == {q \in read \X read : Better(q[1], q[2])}
           first == {x \in read : Cardinality({y \in read : <<y, x>> \in better}) < TopK}
<1>1. IsFiniteSet(read)
  BY ReadIsFinite
<1>2. \A x \in read : score[x] \in Nat /\ (MatchesTopic(intent, ClauseAt(IdOf(x))) => score[x] >= MinRelevance)
  BY ScoresOfRead
<1>3. /\ \A x \in read : ~Earlier(x, x)
      /\ \A x, y, z \in read : Earlier(x, y) /\ Earlier(y, z) => Earlier(x, z)
      /\ \A x, y \in read : x # y => Earlier(x, y) \/ Earlier(y, x)
  BY EarlierIsOrder
<1>4. relevant = {x \in read : score[x] >= MinRelevance /\ Cardinality({y \in read : Better(y, x)}) < TopK}
  BY DEF Relevant
<1> HIDE DEF read, score, relevant
<1>5. \A x, y \in read : <<y, x>> \in better <=> Better(y, x)
  OBVIOUS
<1>6. ASSUME NEW x \in read PROVE {y \in read : <<y, x>> \in better} = {y \in read : Better(y, x)}
  BY <1>5
<1>7. Cardinality(first) <= TopK
  <2>1. \A x \in read : <<x, x>> \notin better
    BY <1>2, <1>3, <1>5
  <2>2. \A x, y, z \in read : <<x, y>> \in better /\ <<y, z>> \in better => <<x, z>> \in better
    <3> SUFFICES ASSUME NEW x \in read, NEW y \in read, NEW z \in read, Better(x, y), Better(y, z)
                 PROVE  Better(x, z)
      BY <1>5
    <3>1. score[x] \in Nat /\ score[y] \in Nat /\ score[z] \in Nat
      BY <1>2
    <3>2. Earlier(x, y) /\ Earlier(y, z) => Earlier(x, z)
      BY <1>3
    <3> QED
      BY <3>1, <3>2
  <2>3. \A x, y \in read : x # y => <<x, y>> \in better \/ <<y, x>> \in better
    BY <1>2, <1>3, <1>5
  <2>4. TopK \in Nat
    BY CorpusAssumption
  <2> HIDE DEF better
  <2> QED
    BY <1>1, <2>1, <2>2, <2>3, <2>4, AtMostK
<1>8. relevant \subseteq first /\ first \subseteq read
  BY <1>4, <1>6
<1>9. Cardinality(relevant) <= TopK
  <2> HIDE DEF first
  <2>1. IsFiniteSet(first) /\ first \in SUBSET read
    BY <1>1, <1>8, FS_Subset
  <2>2. IsFiniteSet(relevant) /\ Cardinality(relevant) <= Cardinality(first)
    BY <1>8, <2>1, FS_Subset
  <2>3. Cardinality(relevant) \in Nat /\ Cardinality(first) \in Nat /\ TopK \in Nat
    BY <2>1, <2>2, FS_CardinalityType, CorpusAssumption
  <2> QED
    BY <1>7, <2>2, <2>3
<1>10. ASSUME NEW x \in read \ relevant, MatchesTopic(intent, ClauseAt(IdOf(x)))
       PROVE  Cardinality({y \in read \ {x} : score[y] >= score[x]}) >= TopK
  <2> DEFINE before == {y \in read : Better(y, x)}
             others == {y \in read \ {x} : score[y] >= score[x]}
  <2>1. ~(Cardinality(before) < TopK)
    BY <1>2, <1>4, <1>10
  <2>2. before \subseteq others
    BY <1>2, <1>3
  <2>3. others \in SUBSET read
    OBVIOUS
  <2> HIDE DEF before, others
  <2>4. IsFiniteSet(others)
    BY <1>1, <2>3, FS_Subset
  <2>5. IsFiniteSet(before) /\ Cardinality(before) <= Cardinality(others)
    BY <2>2, <2>4, FS_Subset
  <2>6. Cardinality(before) \in Nat /\ Cardinality(others) \in Nat /\ TopK \in Nat
    BY <2>4, <2>5, FS_CardinalityType, CorpusAssumption
  <2>7. Cardinality(others) >= TopK
    BY <2>1, <2>5, <2>6
  <2> QED
    BY <2>7 DEF others
<1> QED
  BY <1>4, <1>9, <1>10 DEF read, score, relevant

(***************************************************************************)
(* Questions and their answers                                             *)
(***************************************************************************)

\* A question with what it read, showed and was answered.
QueryOK(q) ==
    /\ q = [session |-> q.session, job |-> q.job, intent |-> q.intent, similarity |-> q.similarity,
            read |-> q.read, relevant |-> q.relevant, answer |-> q.answer]
    /\ q.session \in Sessions /\ q.job \in Jobs /\ q.intent \in Intents
    /\ q.relevant \subseteq q.read
    /\ \A x \in q.read : /\ \E n \in DOMAIN q.job : q.job[n] = x[2]
                         /\ x[2] \in Contents /\ IdOf(x) \in ClauseIds(x[2])
    /\ q.answer # None => IsAnswer(q.answer) /\ IsGrounded(q)
    /\ TopicIsShown(q)

QueryInv ==
    /\ owner \in [Jobs -> Sessions \cup {None}]
    /\ DOMAIN query = Requests
    /\ \A r \in Requests : query[r] # None => QueryOK(query[r]) /\ owner[query[r].job] = query[r].session

LEMMA OwnerStays ==
    ASSUME QueryInv, [Next]_vars
    PROVE  /\ owner' \in [Jobs -> Sessions \cup {None}]
           /\ \A j \in Jobs : owner[j] # None => owner'[j] = owner[j]
<1>1. ASSUME NEW s \in Sessions, NEW j \in Jobs, CreateJob(s, j)
      PROVE  /\ owner' \in [Jobs -> Sessions \cup {None}]
             /\ \A i \in Jobs : owner[i] # None => owner'[i] = owner[i]
  BY <1>1 DEF CreateJob, QueryInv
<1>2. CASE UNCHANGED owner
  BY <1>2 DEF QueryInv
<1>3. ASSUME NEW s \in Sessions, NEW n \in Names, NEW c \in Contents,
             RejectUpload(s, n, c) \/ UploadAgain(s, n, c) \/ UploadNew(s, n, c)
      PROVE  UNCHANGED owner
  BY <1>3 DEF RejectUpload, UploadAgain, UploadNew
<1>4. ASSUME NEW r \in Requests, NEW s \in Sessions, NEW j \in Jobs, NEW intent \in Intents, Ask(r, s, j, intent)
      PROVE  UNCHANGED owner
  BY <1>4 DEF Ask
<1>5. ASSUME NEW r \in Requests, Answer(r) \/ ProviderFails(r) PROVE UNCHANGED owner
  BY <1>5 DEF Answer, ProviderFails
<1>6. ASSUME NEW j \in Jobs, SelectCandidates(j) PROVE UNCHANGED owner
  BY <1>6 DEF SelectCandidates
<1> QED
  BY <1>1, <1>2, <1>3, <1>4, <1>5, <1>6 DEF Next, vars

\* Nobody changes a clause that was read.
LEMMA QueryStays ==
    ASSUME AccessInv, [Next]_vars, NEW q, QueryOK(q)
    PROVE  QueryOK(q)'
<1>1. ASSUME NEW x \in q.read
      PROVE  /\ x[2] \in Contents /\ IdOf(x) \in ClauseIds(x[2])'
             /\ ClauseAt(IdOf(x))' = ClauseAt(IdOf(x))
             /\ Score(q.intent, q.similarity, x)' = Score(q.intent, q.similarity, x)
  <2>1. x[2] \in Contents /\ IdOf(x) \in ClauseIds(x[2])
    BY DEF QueryOK
  <2>2. IdOf(x) \in ClauseIds(x[2])' /\ ClauseAt(IdOf(x))' = ClauseAt(IdOf(x))
    BY <2>1, ClauseStays
  <2> QED
    BY <2>1, <2>2 DEF Score
<1>2. ASSUME q.answer # None PROVE IsGrounded(q)'
  <2>1. IsGrounded(q)
    BY <1>2 DEF QueryOK
  <2>2. ASSUME NEW p \in q.answer.evidence PROVE ClauseAt(p.clause)' = ClauseAt(p.clause)
    <3>1. PICK x \in q.relevant : IdOf(x) = p.clause
      BY <2>1 DEF IsGrounded
    <3>2. x \in q.read
      BY DEF QueryOK
    <3> QED
      BY <1>1, <3>1, <3>2
  <2> QED
    BY <2>1, <2>2 DEF IsGrounded
<1>3. TopicIsShown(q)'
  <2> DEFINE score == [x \in q.read |-> Score(q.intent, q.similarity, x)]
             OnTopic(c) == q.intent.topic \in c.topics \cup c.section
             others(x) == {y \in q.read \ {x} : score[y] >= score[x]}
  <2>1. /\ Cardinality(q.relevant) <= TopK
        /\ \A x \in q.read \ q.relevant : OnTopic(ClauseAt(IdOf(x))) => Cardinality(others(x)) >= TopK
    BY DEF QueryOK, TopicIsShown
  <2>2. score' = score
    BY <1>1
  <2>3. \A x \in q.read : ClauseAt(IdOf(x))' = ClauseAt(IdOf(x))
    BY <1>1
  <2>4. \A x : others(x)' = others(x)
    <3> HIDE DEF score
    <3> QED
      BY <2>2
  <2>5. \A x \in q.read \ q.relevant : OnTopic(ClauseAt(IdOf(x))') => Cardinality(others(x)') >= TopK
    <3> HIDE DEF others, score
    <3> QED
      BY <2>1, <2>3, <2>4
  <2> QED
    BY <2>1, <2>5 DEF TopicIsShown
<1> QED
  BY <1>1, <1>2, <1>3 DEF QueryOK

\* A request whose record does not change, while jobs keep their owners.
LEMMA RequestStays ==
    ASSUME AccessInv, QueryInv, [Next]_vars, NEW r \in Requests, query'[r] = query[r], query[r] # None
    PROVE  QueryOK(query[r])' /\ owner'[query[r].job] = query[r].session
<1>1. QueryOK(query[r]) /\ owner[query[r].job] = query[r].session
  BY DEF QueryInv
<1>2. PICK q : q = query[r]
  OBVIOUS
<1>3. QueryOK(q)'
  BY <1>1, <1>2, QueryStays
<1>4. q.job \in Jobs /\ q.session \in Sessions /\ owner[q.job] # None
  BY <1>1, <1>2, CorpusAssumption DEF QueryOK
<1> QED
  BY <1>1, <1>2, <1>3, <1>4, OwnerStays

\* A refusal claims nothing.
LEMMA RefusalIsGrounded ==
    ASSUME NEW q, q.answer = Refusal
    PROVE  IsAnswer(q.answer) /\ IsGrounded(q)
BY DEF Refusal, IsAnswer, IsGrounded

LEMMA AskedIsOK ==
    ASSUME AccessInv, QueryInv, NEW r \in Requests, NEW s \in Sessions, NEW j \in Jobs,
           NEW intent \in Intents, Ask(r, s, j, intent)
    PROVE  QueryOK(query'[r]) /\ query'[r].session = s /\ query'[r].job = j
<1> DEFINE read == Read(j)
<1>1. PICK similarity \in [{IdOf(x) : x \in read} -> Similarities] :
          query' = [query EXCEPT ![r] =
              [session |-> s, job |-> j, intent |-> intent, similarity |-> similarity,
               read |-> read, relevant |-> Relevant(intent, similarity, read),
               answer |-> IF TooFew(intent, Relevant(intent, similarity, read)) THEN Refusal ELSE None]]
  BY DEF Ask
<1> DEFINE relevant == Relevant(intent, similarity, read)
           answer == IF TooFew(intent, relevant) THEN Refusal ELSE None
           q == [session |-> s, job |-> j, intent |-> intent, similarity |-> similarity,
                 read |-> read, relevant |-> relevant, answer |-> answer]
<1>2. query'[r] = q
  BY <1>1 DEF QueryInv
<1> HIDE DEF relevant, answer
<1>3. relevant \subseteq read
  BY BestAreShown DEF relevant
<1>4. ASSUME NEW x \in read
      PROVE  /\ \E n \in DOMAIN j : j[n] = x[2]
             /\ x[2] \in Contents /\ IdOf(x) \in ClauseIds(x[2])
  BY ReadIsOfJob
<1>5. q.answer # None => q.answer = Refusal
  BY DEF answer
<1>6. q.answer # None => IsAnswer(q.answer) /\ IsGrounded(q)
  <2> HIDE DEF q
  <2> QED
    BY <1>5, RefusalIsGrounded
<1>7. TopicIsShown(q)
  <2>1. LET score == [x \in read |-> Score(intent, similarity, x)]
        IN  /\ Cardinality(relevant) <= TopK
            /\ \A x \in read \ relevant : MatchesTopic(intent, ClauseAt(IdOf(x))) =>
                  Cardinality({y \in read \ {x} : score[y] >= score[x]}) >= TopK
    BY BestAreShown DEF relevant
  <2>2. /\ q.read = read /\ q.relevant = relevant /\ q.intent = intent /\ q.similarity = similarity
    OBVIOUS
  <2> HIDE DEF q, read
  <2> QED
    BY <2>1, <2>2 DEF TopicIsShown, MatchesTopic
<1>8. /\ q.session = s /\ q.job = j /\ q.intent = intent /\ q.read = read /\ q.relevant = relevant
      /\ q = [session |-> q.session, job |-> q.job, intent |-> q.intent, similarity |-> q.similarity,
              read |-> q.read, relevant |-> q.relevant, answer |-> q.answer]
  OBVIOUS
<1>9. QueryOK(q)
  <2> HIDE DEF q, read
  <2> QED
    BY <1>3, <1>4, <1>6, <1>7, <1>8 DEF QueryOK
<1> HIDE DEF q
<1> QED
  BY <1>2, <1>8, <1>9

\* The answer to a question changes nothing else of it.
LEMMA AnsweredIsOK ==
    ASSUME NEW q, QueryOK(q), NEW a, NEW b, b = [q EXCEPT !.answer = a],
           a # None => IsAnswer(a) /\ IsGrounded(b)
    PROVE  QueryOK(b) /\ b.session = q.session /\ b.job = q.job
<1>1. b = [session |-> q.session, job |-> q.job, intent |-> q.intent, similarity |-> q.similarity,
           read |-> q.read, relevant |-> q.relevant, answer |-> a]
  BY DEF QueryOK
<1>2. /\ b.session = q.session /\ b.job = q.job /\ b.intent = q.intent /\ b.similarity = q.similarity
      /\ b.read = q.read /\ b.relevant = q.relevant /\ b.answer = a
      /\ b = [session |-> b.session, job |-> b.job, intent |-> b.intent, similarity |-> b.similarity,
              read |-> b.read, relevant |-> b.relevant, answer |-> b.answer]
  BY <1>1
<1>3. TopicIsShown(b)
  <2> DEFINE Shown(read, relevant, intent, similarity) ==
                 LET score == [x \in read |-> Score(intent, similarity, x)]
                     OnTopic(c) == intent.topic \in c.topics \cup c.section
                 IN  /\ Cardinality(relevant) <= TopK
                     /\ \A x \in read \ relevant : OnTopic(ClauseAt(IdOf(x))) =>
                           Cardinality({y \in read \ {x} : score[y] >= score[x]}) >= TopK
  <2>1. Shown(q.read, q.relevant, q.intent, q.similarity)
    BY DEF QueryOK, TopicIsShown
  <2>2. TopicIsShown(b) <=> Shown(b.read, b.relevant, b.intent, b.similarity)
    BY Zenon DEF TopicIsShown
  <2> HIDE DEF Shown
  <2> QED
    BY <1>2, <2>1, <2>2
<1>4. /\ b.session \in Sessions /\ b.job \in Jobs /\ b.intent \in Intents
      /\ b.relevant \subseteq b.read
      /\ \A x \in b.read : /\ \E n \in DOMAIN b.job : b.job[n] = x[2]
                           /\ x[2] \in Contents /\ IdOf(x) \in ClauseIds(x[2])
  BY <1>2 DEF QueryOK
<1>5. b.answer # None => IsAnswer(b.answer) /\ IsGrounded(b)
  BY <1>2
<1>6. b = [session |-> b.session, job |-> b.job, intent |-> b.intent, similarity |-> b.similarity,
           read |-> b.read, relevant |-> b.relevant, answer |-> b.answer]
  BY <1>2
<1>7. QueryOK(b)
  BY <1>3, <1>4, <1>5, <1>6, Zenon DEF QueryOK
<1> QED
  BY <1>2, <1>7

\* What is kept of the evidence is there to be read.
LEMMA KeptIsGrounded ==
    ASSUME NEW q, QueryOK(q), NEW evidence \in SUBSET Spans, NEW b,
           b = [q EXCEPT !.answer = [evidence |-> Kept(q, evidence), confidence |-> "STATED"]],
           IsEnough(Kept(q, evidence), q.intent)
    PROVE  IsAnswer(b.answer) /\ IsGrounded(b)
<1> DEFINE kept == Kept(q, evidence)
<1>1. /\ b.intent = q.intent /\ b.relevant = q.relevant /\ b.job = q.job
      /\ b.answer = [evidence |-> kept, confidence |-> "STATED"]
  <2>1. b = [session |-> q.session, job |-> q.job, intent |-> q.intent, similarity |-> q.similarity,
             read |-> q.read, relevant |-> q.relevant, answer |-> [evidence |-> kept, confidence |-> "STATED"]]
    BY DEF QueryOK
  <2> HIDE DEF kept
  <2> QED
    BY <2>1
<1>2. \A p \in kept : /\ p \in Spans /\ p.quote \in ClauseAt(p.clause).words
                      /\ \E x \in q.relevant : IdOf(x) = p.clause
  BY DEF Kept
<1>3. ASSUME NEW p \in kept PROVE \E n \in DOMAIN q.job : q.job[n] = p.clause[1]
  <2>1. PICK x \in q.relevant : IdOf(x) = p.clause
    BY <1>2
  <2>2. /\ \E n \in DOMAIN q.job : q.job[n] = x[2]
        /\ IdOf(x)[1] = x[2]
    BY DEF QueryOK, IdOf
  <2> QED
    BY <2>1, <2>2
<1>4. kept # {} /\ (q.intent.isComparison => \E p, r \in kept : p.clause # r.clause \/ p.document # r.document)
  BY DEF IsEnough
<1>5. q.intent.isComparison =>
          /\ \E p, r \in kept : p # r
          /\ (\A p \in kept : p.document = p.clause[1]) => \E p, r \in kept : p.clause # r.clause
  <2> HIDE DEF kept
  <2> SUFFICES ASSUME q.intent.isComparison
               PROVE  /\ \E p, r \in kept : p # r
                      /\ (\A p \in kept : p.document = p.clause[1]) => \E p, r \in kept : p.clause # r.clause
    OBVIOUS
  <2>1. PICK p \in kept, r \in kept : p.clause # r.clause \/ p.document # r.document
    BY <1>4
  <2>2. p # r
    BY <2>1
  <2>3. ASSUME \A s \in kept : s.document = s.clause[1] PROVE p.clause # r.clause
    BY <2>1, <2>3
  <2> QED
    BY <2>2, <2>3
<1> HIDE DEF kept
<1>6. b.answer.evidence = kept /\ b.answer.confidence = "STATED" /\ DOMAIN b.answer = {"evidence", "confidence"}
  BY <1>1
<1>7. IsAnswer(b.answer)
  BY <1>2, <1>6 DEF IsAnswer
<1>8. IsGrounded(b)
  BY <1>1, <1>2, <1>3, <1>4, <1>5, <1>6 DEF IsGrounded
<1> QED
  BY <1>7, <1>8

LEMMA AnswerIsOK ==
    ASSUME QueryInv, NEW r \in Requests, Answer(r) \/ ProviderFails(r)
    PROVE  /\ query[r] # None /\ QueryOK(query'[r])
           /\ query'[r].session = query[r].session /\ query'[r].job = query[r].job
<1> DEFINE q == query[r]
<1>1. query[r] # None /\ QueryOK(q)
  BY DEF Answer, ProviderFails, IsPending, QueryInv
<1>2. \/ query'[r] = [q EXCEPT !.answer = Refusal]
      \/ \E evidence \in SUBSET Spans :
            /\ IsEnough(Kept(q, evidence), q.intent)
            /\ query'[r] = [q EXCEPT !.answer = [evidence |-> Kept(q, evidence), confidence |-> "STATED"]]
  BY DEF Answer, ProviderFails, QueryInv
<1> DEFINE b == query'[r]
<1> HIDE DEF q, b
<1>3. CASE b = [q EXCEPT !.answer = Refusal]
  <2>1. b.answer = Refusal
    BY <1>1, <1>3 DEF QueryOK
  <2>2. IsAnswer(Refusal) /\ IsGrounded(b)
    BY <2>1, RefusalIsGrounded
  <2>3. QueryOK(b) /\ b.session = q.session /\ b.job = q.job
    BY <1>1, <1>3, <2>2, AnsweredIsOK
  <2> QED
    BY <1>1, <2>3 DEF q, b
<1>4. ASSUME NEW evidence \in SUBSET Spans, IsEnough(Kept(q, evidence), q.intent),
             b = [q EXCEPT !.answer = [evidence |-> Kept(q, evidence), confidence |-> "STATED"]]
      PROVE  QueryOK(b) /\ b.session = q.session /\ b.job = q.job
  <2> DEFINE a == [evidence |-> Kept(q, evidence), confidence |-> "STATED"]
  <2>1. IsAnswer(b.answer) /\ IsGrounded(b)
    BY <1>1, <1>4, KeptIsGrounded
  <2>2. b = [q EXCEPT !.answer = a]
    BY <1>4
  <2>3. b.answer = a
    <3> HIDE DEF a
    <3> QED
      BY <1>1, <2>2 DEF QueryOK
  <2> HIDE DEF a
  <2> QED
    BY <1>1, <2>1, <2>2, <2>3, AnsweredIsOK
<1> QED
  BY <1>1, <1>2, <1>3, <1>4 DEF q, b

LEMMA QueryStep == AccessInv /\ QueryInv /\ [Next]_vars => QueryInv'
<1> SUFFICES ASSUME AccessInv, QueryInv, [Next]_vars PROVE QueryInv'
  OBVIOUS
<1>1. owner' \in [Jobs -> Sessions \cup {None}]
  BY OwnerStays
<1>2. CASE UNCHANGED query
  <2> SUFFICES ASSUME NEW r \in Requests, query'[r] # None
               PROVE  QueryOK(query[r])' /\ owner'[query'[r].job] = query'[r].session
    BY <1>1, <1>2 DEF QueryInv
  <2> QED
    BY <1>2, RequestStays
<1>3. ASSUME NEW r \in Requests, UNCHANGED owner,
             DOMAIN query' = Requests, \A i \in Requests \ {r} : query'[i] = query[i],
             QueryOK(query'[r]), owner[query'[r].job] = query'[r].session
      PROVE  QueryInv'
  <2> SUFFICES ASSUME NEW i \in Requests, query'[i] # None
               PROVE  QueryOK(query[i])' /\ owner'[query'[i].job] = query'[i].session
    BY <1>1, <1>3 DEF QueryInv
  <2>1. CASE i = r
    <3>1. PICK q : q = query'[r]
      OBVIOUS
    <3>2. QueryOK(q)'
      BY <1>3, <3>1, QueryStays
    <3> QED
      BY <1>3, <2>1, <3>1, <3>2
  <2>2. CASE i # r
    BY <1>3, <2>2, RequestStays
  <2> QED
    BY <2>1, <2>2
<1>4. ASSUME NEW r \in Requests, NEW s \in Sessions, NEW j \in Jobs, NEW intent \in Intents, Ask(r, s, j, intent)
      PROVE  QueryInv'
  <2>1. QueryOK(query'[r]) /\ query'[r].session = s /\ query'[r].job = j
    BY <1>4, AskedIsOK
  <2>2. /\ owner[j] = s /\ UNCHANGED owner
        /\ DOMAIN query' = Requests /\ \A i \in Requests \ {r} : query'[i] = query[i]
    BY <1>4 DEF Ask, QueryInv
  <2> QED
    BY <1>3, <2>1, <2>2
<1>5. ASSUME NEW r \in Requests, Answer(r) \/ ProviderFails(r)
      PROVE  QueryInv'
  <2>1. /\ query[r] # None /\ QueryOK(query'[r])
        /\ query'[r].session = query[r].session /\ query'[r].job = query[r].job
    BY <1>5, AnswerIsOK
  <2>2. /\ UNCHANGED owner
        /\ DOMAIN query' = Requests /\ \A i \in Requests \ {r} : query'[i] = query[i]
    BY <1>5 DEF Answer, ProviderFails, QueryInv
  <2>3. owner[query[r].job] = query[r].session
    BY <2>1 DEF QueryInv
  <2> QED
    BY <1>3, <2>1, <2>2, <2>3
<1>6. ASSUME NEW s \in Sessions, NEW n \in Names, NEW c \in Contents,
             RejectUpload(s, n, c) \/ UploadAgain(s, n, c) \/ UploadNew(s, n, c)
      PROVE  UNCHANGED query
  BY <1>6 DEF RejectUpload, UploadAgain, UploadNew
<1>7. ASSUME NEW s \in Sessions, NEW j \in Jobs, CreateJob(s, j) PROVE UNCHANGED query
  BY <1>7 DEF CreateJob
<1>8. ASSUME NEW j \in Jobs, SelectCandidates(j) PROVE UNCHANGED query
  BY <1>8 DEF SelectCandidates
<1> QED
  BY <1>2, <1>4, <1>5, <1>6, <1>7, <1>8 DEF Next, vars

CInv == AccessInv /\ SelectionInv /\ QueryInv

LEMMA CorpusStarts == Init => CInv
BY AccessStarts DEF Init, CInv, SelectionInv, QueryInv

LEMMA CorpusStep == CInv /\ [Next]_vars => CInv'
BY AccessStep, SelectionStep, QueryStep DEF CInv

LEMMA CorpusIsTyped == CInv => TypeOK
<1> SUFFICES ASSUME CInv PROVE TypeOK
  OBVIOUS
<1>1. ASSUME NEW c \in Contents, Stored(c) PROVE Len(documents[c].clauses) <= MaxPages
  <2>1. IsDocument(documents[c])
    BY <1>1, StoredIsDocument DEF CInv
  <2> QED
    BY <2>1 DEF IsDocument
<1>2. /\ tried \subseteq Sessions \X Names \X Contents /\ DOMAIN documents = Contents
      /\ access \subseteq Sessions \X Contents
  BY DEF CInv, AccessInv
<1>3. DOMAIN selection = Jobs /\ DOMAIN query = Requests /\ owner \in [Jobs -> Sessions \cup {None}]
  BY DEF CInv, SelectionInv, QueryInv
<1>4. ASSUME NEW r \in Requests, query[r] # None
      PROVE  /\ query[r].session \in Sessions /\ query[r].job \in Jobs /\ query[r].intent \in Intents
             /\ query[r].relevant \subseteq query[r].read
             /\ query[r].answer = None \/ IsAnswer(query[r].answer)
  <2>1. QueryOK(query[r])
    BY <1>4 DEF CInv, QueryInv
  <2> HIDE DEF CInv
  <2> QED
    BY <2>1 DEF QueryOK
<1> QED
  BY <1>1, <1>2, <1>3, <1>4 DEF TypeOK

\* A list under a plain id has what its session gets, and beyond it only what comes from a
\* key that holds another kind of id.
LEMMA ListsOfPlain ==
    ASSUME AccessInv, owner \in [Jobs -> Sessions \cup {None}], NEW s \in Plain, NEW c \in Contents
    PROVE  /\ CanGet(s, c) => c \in Listed(s)
           /\ c \in Listed(s) =>
                 CanGet(s, c) \/ \E k \in KeysHeld : k[1] \notin Plain /\ DocumentIn[k] = c
<1>1. ASSUME CanGet(s, c) PROVE c \in Listed(s)
  <2> DEFINE k == <<s, c>>
  <2>1. k \in Keys /\ k[1] = s /\ k[2] = c /\ k \in KeysHeld /\ Stored(c)
    BY <1>1, ListingAssumption DEF CanGet, Keys, KeysHeld
  <2> HIDE DEF k
  <2>2. <<s, k>> \in Matches /\ DocumentIn[k] = c
    BY <2>1, ListingAssumption
  <2> QED
    BY <2>1, <2>2 DEF Listed
<1>2. ASSUME c \in Listed(s), \A k \in KeysHeld : DocumentIn[k] = c => k[1] \in Plain
      PROVE  CanGet(s, c)
  <2>1. PICK k \in KeysHeld : <<s, k>> \in Matches /\ DocumentIn[k] = c /\ Stored(c)
    BY <1>2 DEF Listed
  <2>2. k[1] \in Plain
    BY <1>2, <2>1
  <2>3. CASE k \in access
    <3>1. k \in Keys /\ k = <<k[1], k[2]>>
      BY <2>3 DEF AccessInv, Keys
    <3>2. s = k[1] /\ k[2] \in Contents /\ DocumentIn[k] = k[2]
      BY <2>1, <2>2, <3>1, ListingAssumption
    <3> QED
      BY <2>1, <2>3, <3>1, <3>2 DEF CanGet
  <2>4. ASSUME NEW j \in Jobs, owner[j] # None, k = <<owner[j], j>>
        PROVE  FALSE
    <3>1. k \in Keys /\ k[2] = j
      BY <2>4 DEF Keys
    <3>2. k[2] \in Contents
      BY <2>1, <2>2, <3>1, ListingAssumption
    <3> QED
      BY <3>1, <3>2, ListingAssumption
  <2> QED
    BY <2>3, <2>4 DEF KeysHeld
<1> QED
  BY <1>1, <1>2

\* A session gets what it has uploaded acceptably and nothing else; the list of a plain id
\* agrees with that, unless a key with another kind of id brings something in.
THEOREM AccessEarned == Spec => []AccessIsEarned
<1>1. CInv => AccessIsEarned
  BY ListsOfPlain DEF CInv, QueryInv, AccessInv, AccessIsEarned, CanGet, StoredIsRead
<1> QED
  BY <1>1, CorpusStarts, CorpusStep, PTL DEF Spec

\* What is stored is within the limits, and everything has its type.
THEOREM CorpusTyped == Spec => []TypeOK
<1>1. CInv => TypeOK
  BY CorpusIsTyped
<1> QED
  BY <1>1, CorpusStarts, CorpusStep, PTL DEF Spec

\* An answer is STATED with evidence that can be read in the clauses shown, for any
\* language model, and is about a job of the session that asks.
THEOREM AnswersGrounded == Spec => []AnswersAreGrounded
<1>1. CInv => AnswersAreGrounded
  BY DEF CInv, QueryInv, QueryOK, AnswersAreGrounded
<1> QED
  BY <1>1, CorpusStarts, CorpusStep, PTL DEF Spec

\* A clause on the topic is shown, unless TopK others are as relevant, and never more than
\* TopK are.
THEOREM TopicShown == Spec => []TopicMatchesRetrieved
<1>1. CInv => TopicMatchesRetrieved
  BY DEF CInv, QueryInv, QueryOK, TopicMatchesRetrieved
<1> QED
  BY <1>1, CorpusStarts, CorpusStep, PTL DEF Spec

(***************************************************************************)
(* Nothing is taken back                                                   *)
(***************************************************************************)

LEMMA AccessGrows ==
    ASSUME [Next]_vars
    PROVE  access \subseteq access'
<1>1. ASSUME NEW s \in Sessions, NEW n \in Names, NEW c \in Contents,
             RejectUpload(s, n, c) \/ UploadAgain(s, n, c) \/ UploadNew(s, n, c)
      PROVE  access \subseteq access'
  BY <1>1 DEF RejectUpload, UploadAgain, UploadNew
<1> QED
  BY <1>1, OthersLeaveUploads

\* A question is asked once, and answered once.
LEMMA AnsweredOnce ==
    ASSUME QueryInv, [Next]_vars, NEW r \in Requests, query[r] # None
    PROVE  /\ \A f \in {"session", "job", "intent", "similarity", "read", "relevant"} : query'[r][f] = query[r][f]
           /\ query[r].answer # None => query'[r] = query[r]
<1> DEFINE Kind(p, q) ==
      /\ \A f \in {"session", "job", "intent", "similarity", "read", "relevant"} : q[f] = p[f]
      /\ p.answer # None => q = p
<1>1. ASSUME query'[r] = query[r] PROVE Kind(query[r], query'[r])
  BY <1>1
<1>2. ASSUME NEW i \in Requests, NEW s \in Sessions, NEW j \in Jobs, NEW intent \in Intents, Ask(i, s, j, intent)
      PROVE  query'[r] = query[r]
  BY <1>2 DEF Ask, QueryInv
<1>3. ASSUME NEW i \in Requests, Answer(i) \/ ProviderFails(i)
      PROVE  Kind(query[r], query'[r])
  <2>1. IsPending(i) /\ \E a : query' = [query EXCEPT ![i].answer = a]
    BY <1>3 DEF Answer, ProviderFails
  <2>2. PICK a : query' = [query EXCEPT ![i].answer = a]
    BY <2>1
  <2>3. CASE i # r
    BY <1>1, <2>2, <2>3 DEF QueryInv
  <2>4. CASE i = r
    <3>1. query[r].answer = None
      BY <2>1, <2>4 DEF IsPending
    <3>2. query'[r] = [query[r] EXCEPT !.answer = a]
      BY <2>2, <2>4 DEF QueryInv
    <3>3. \A f \in {"session", "job", "intent", "similarity", "read", "relevant"} : f \in DOMAIN query[r]
      BY DEF QueryInv, QueryOK
    <3> QED
      BY <3>1, <3>2, <3>3
  <2> QED
    BY <2>3, <2>4
<1>4. CASE UNCHANGED query
  BY <1>1, <1>4
<1>5. ASSUME NEW s \in Sessions, NEW n \in Names, NEW c \in Contents,
             RejectUpload(s, n, c) \/ UploadAgain(s, n, c) \/ UploadNew(s, n, c)
      PROVE  UNCHANGED query
  BY <1>5 DEF RejectUpload, UploadAgain, UploadNew
<1>6. ASSUME NEW s \in Sessions, NEW j \in Jobs, CreateJob(s, j) PROVE UNCHANGED query
  BY <1>6 DEF CreateJob
<1>7. ASSUME NEW j \in Jobs, SelectCandidates(j) PROVE UNCHANGED query
  BY <1>7 DEF SelectCandidates
<1>8. Kind(query[r], query'[r])
  <2> HIDE DEF Kind
  <2> QED
    BY <1>1, <1>2, <1>3, <1>4, <1>5, <1>6, <1>7 DEF Next, vars
<1> QED
  BY <1>8

\* What a step may not take back: a document that a session can get, its text, the owner of
\* a job, what a question was asked with, and the answer to it.  So what an answer cites is
\* there for good, although the documents of a job are read again for every question.
NothingIsRevoked ==
    /\ \A s \in Sessions, c \in Contents : CanGet(s, c) => CanGet(s, c)'
    /\ \A c \in Contents : Stored(c) => documents'[c] = documents[c]
    /\ \A j \in Jobs : owner[j] # None => owner'[j] = owner[j]
    /\ \A r \in Requests : query[r] # None =>
          /\ \A f \in {"session", "job", "intent", "similarity", "read", "relevant"} : query'[r][f] = query[r][f]
          /\ query[r].answer # None => query'[r] = query[r]

\* Uploads, jobs and answers are for good, whatever other sessions do
\* (document_service:97-149, job_manager:67-98, qa_service:66-156).
THEOREM NothingIsTakenBack == Spec => [][NothingIsRevoked]_vars
<1>1. ASSUME CInv, [Next]_vars PROVE NothingIsRevoked
  <2>1. \A c \in Contents : Stored(c) => Stored(c)' /\ documents'[c] = documents[c]
    BY <1>1, DocumentsStay DEF CInv
  <2>2. access \subseteq access'
    BY <1>1, AccessGrows
  <2>3. \A j \in Jobs : owner[j] # None => owner'[j] = owner[j]
    BY <1>1, OwnerStays DEF CInv
  <2>4. ASSUME NEW r \in Requests, query[r] # None
        PROVE  /\ \A f \in {"session", "job", "intent", "similarity", "read", "relevant"} : query'[r][f] = query[r][f]
               /\ query[r].answer # None => query'[r] = query[r]
    BY <1>1, <2>4, AnsweredOnce DEF CInv
  <2> QED
    BY <2>1, <2>2, <2>3, <2>4 DEF NothingIsRevoked, CanGet
<1> QED
  BY <1>1, CorpusStarts, CorpusStep, PTL DEF Spec
====
