---- MODULE Corpus ----
(***************************************************************************)
(* The documents the service keeps and what is read of them: uploads and    *)
(* who may see them (services/document_service.py, api/documents.py), the   *)
(* selection of candidate pairs (services/consistency_engine.py) and        *)
(* questions about a job's documents (services/qa_service.py, api/qa.py).   *)
(*                                                                         *)
(* An upload runs without giving way to another request; a question waits   *)
(* for the language model.  A job is known by the sorted list of its        *)
(* documents, as its id is; JobLifecycle has its states and PairAnalysis    *)
(* what is done with the pairs.  (A pair is oriented by the order in which  *)
(* the request names its documents; here it is that of the list.)  A        *)
(* request that is refused changes nothing.                                 *)
(***************************************************************************)
EXTENDS Uploads, Questions

CONSTANTS
    Sessions,
    Plain,         \* those whose id has no colon and no character of a pattern, as the frontend's
    Matches,       \* <<session, key>>: the pattern that the session's id makes matches the key
    DocumentIn,    \* key -> what stands in it after the third colon, if a document, or None
    Jobs,          \* lists of documents to analyse, which may name one twice
    Queries,       \* sets of words: the words of the vocabularies that occur in a question
    Similarities,  \* the cosines of TF-IDF vectors, in sixtieths
    Spans,         \* the evidence a language model may give
    MaxSpans,      \* bound of the model on the spans of one answer
    MaxUploads,    \* bound of the model on the uploads
    Requests,      \* the questions asked, and a bound of the model on their number
    TopK,          \* clauses shown to the language model
    None

VARIABLES
    tried,      \* the uploads so far, accepted or not: <<session, name, content>>
    documents,  \* content -> its document with its clauses, or None
    access,     \* the <<session, content>> registered
    owner,      \* job -> the session that created it, or None
    selection,  \* job -> its candidate pairs, when analysed last
    query       \* request -> the question asked with it and its answer, or None

vars == <<tried, documents, access, owner, selection, query>>

Init ==
    /\ tried = {}
    /\ documents = [c \in Contents |-> None]
    /\ access = {}
    /\ owner = [j \in Jobs |-> None]
    /\ selection = [j \in Jobs |-> None]
    /\ query = [r \in Requests |-> None]

(***************************************************************************)
(* Uploads                                                                 *)
(***************************************************************************)

Stored(c) == documents[c] # None

\* Accepted as new.
IsReadable(n, c) == IsValid(n, c) /\ IsWithinLimits(Extract(n, c))

DocumentFrom(n, c) == [filename |-> SafeName[n], clauses |-> SegmentClauses(Extract(n, c))]

ASSUME CorpusAssumption ==
    /\ Jobs \subseteq Seq(Contents)
    /\ Similarities \subseteq 0..Unit
    /\ TopK \in Nat
    /\ None \notin Sessions
    /\ \A n \in Names, c \in Contents : IsReadable(n, c) => DocumentFrom(n, c) # None

\* The keys of documents and of jobs, each with the session's id in the middle.
Keys == Sessions \X (Contents \cup Jobs)

\* Of plain ids, a pattern matches the keys of its own documents.
ASSUME ListingAssumption ==
    /\ Plain \subseteq Sessions
    /\ Contents \cap Jobs = {}
    /\ \A k \in Keys : k[1] \in Plain =>
          /\ k[2] \in Contents => DocumentIn[k] = k[2]
          /\ \A s \in Plain : <<s, k>> \in Matches <=> s = k[1] /\ k[2] \in Contents

Try(s, n, c) ==
    /\ Cardinality(tried) < MaxUploads
    /\ tried' = tried \cup {<<s, n, c>>}

\* ValidationError or SecurityError.
RejectUpload(s, n, c) ==
    /\ ~IsValid(n, c) \/ (~Stored(c) /\ ~IsReadable(n, c))
    /\ Try(s, n, c)
    /\ UNCHANGED <<documents, access, owner, selection, query>>

\* Mutant: who uploads what is known already is not registered.
AnswerFromCache(s, n, c) ==
    /\ IsValid(n, c) /\ Stored(c)
    /\ Try(s, n, c)
    /\ UNCHANGED <<documents, access, owner, selection, query>>

\* The content is not read again: its document keeps the first name and text.
UploadAgain(s, n, c) ==
    /\ IsValid(n, c) /\ Stored(c)
    /\ Try(s, n, c)
    /\ access' = access \cup {<<s, c>>}
    /\ UNCHANGED <<documents, owner, selection, query>>

UploadNew(s, n, c) ==
    /\ IsReadable(n, c) /\ ~Stored(c)
    /\ Try(s, n, c)
    /\ documents' = [documents EXCEPT ![c] = DocumentFrom(n, c)]
    /\ access' = access \cup {<<s, c>>}
    /\ UNCHANGED <<owner, selection, query>>

\* get_document looks for one key.
CanGet(s, c) == <<s, c>> \in access /\ Stored(c)

KeysHeld == access \cup {<<owner[j], j>> : j \in {i \in Jobs : owner[i] # None}}

\* The list takes every key that the pattern made of the id matches, whosever it is, and
\* looks up what it finds at the place where a document has its name.
Listed(s) ==
    {c \in Contents : Stored(c) /\ \E k \in KeysHeld : <<s, k>> \in Matches /\ DocumentIn[k] = c}

(***************************************************************************)
(* Jobs.  The documents are taken as they come: nobody asks whose they are, *)
(* nor whether they are there.                                             *)
(***************************************************************************)

CreateJob(s, j) ==
    /\ owner[j] = None
    /\ owner' = [owner EXCEPT ![j] = s]
    /\ UNCHANGED <<tried, documents, access, selection, query>>

\* The clauses of a document; the id of one is its place.
ClauseIds(c) ==
    IF ~Stored(c) THEN {}
    ELSE UNION {{<<c, p, i>> : i \in DOMAIN documents[c].clauses[p]} : p \in DOMAIN documents[c].clauses}

ClauseAt(id) == documents[id[1]].clauses[id[2]][id[3]]

DocumentsOf(j) == {c \in {j[n] : n \in DOMAIN j} : Stored(c)}

Place(j, c) == CHOOSE n \in DOMAIN j : j[n] = c /\ \A m \in 1..n - 1 : j[m] # c

\* generate_candidate_pairs.
CandidatePairs(j) ==
    LET before == {b \in DocumentsOf(j) \X DocumentsOf(j) : Place(j, b[1]) < Place(j, b[2])}
    IN  UNION {ClauseIds(b[1]) \X ClauseIds(b[2]) : b \in before}

\* count_naive_pairs.
NaiveCount(j) ==
    MapThenSumSet(
        LAMBDA c : MapThenSumSet(
            LAMBDA d : IF Place(j, c) < Place(j, d)
                       THEN Cardinality(ClauseIds(c)) * Cardinality(ClauseIds(d)) ELSE 0,
            DocumentsOf(j)),
        DocumentsOf(j))

\* The pairs that are analysed, by their scores; those with one score in any order.
Filtered(j, similarity) ==
    {p \in CandidatePairs(j) :
        ScorePair(ClauseAt(p[1]), ClauseAt(p[2]), similarity[p]) >= Threshold * Unit}

\* The first part of analyze.  Anew for every submission, for all the worker knows.
SelectCandidates(j) ==
    /\ owner[j] # None
    /\ \E similarity \in [CandidatePairs(j) -> Similarities] :
          selection' = [selection EXCEPT ![j] =
              [similarity |-> similarity, pairs |-> Filtered(j, similarity), naive |-> NaiveCount(j)]]
    /\ UNCHANGED <<tried, documents, access, owner, query>>

(***************************************************************************)
(* Questions                                                               *)
(***************************************************************************)

\* The clauses of a job in their order, by the place of the document in its list.  A
\* document that is named twice comes twice.
Read(j) == UNION {{<<n, id[1], id[2], id[3]>> : id \in ClauseIds(j[n])} : n \in DOMAIN j}

IdOf(x) == <<x[2], x[3], x[4]>>

Earlier(x, y) ==
    \/ x[1] < y[1]
    \/ x[1] = y[1] /\ x[3] < y[3]
    \/ x[1] = y[1] /\ x[3] = y[3] /\ x[4] < y[4]

Score(intent, similarity, x) == Relevance(intent, ClauseAt(IdOf(x)), similarity[IdOf(x)])

\* The TopK best of those that are relevant at all, the earlier first among equals.
Relevant(intent, similarity, read) ==
    LET score == [x \in read |-> Score(intent, similarity, x)]
        Better(y, x) == score[y] > score[x] \/ (score[y] = score[x] /\ Earlier(y, x))
    IN  {x \in read : score[x] >= MinRelevance /\ Cardinality({y \in read : Better(y, x)}) < TopK}

TooFew(intent, relevant) == Cardinality(relevant) < (IF intent.isComparison THEN 2 ELSE 1)

IsPending(r) == query[r] # None /\ query[r].answer = None

Intents == {Intent(words) : words \in Queries}

\* The clauses are those there are now, analysed or not.
Ask(r, s, j, intent) ==
    /\ owner[j] = s /\ query[r] = None
    /\ LET read == Read(j) IN
       \E similarity \in [{IdOf(x) : x \in read} -> Similarities] :
          LET relevant == Relevant(intent, similarity, read) IN
          query' = [query EXCEPT ![r] =
              [session |-> s, job |-> j, intent |-> intent, similarity |-> similarity,
               read |-> read, relevant |-> relevant,
               answer |-> IF TooFew(intent, relevant) THEN Refusal ELSE None]]
    /\ UNCHANGED <<tried, documents, access, owner, selection>>

\* A span is kept when it quotes a clause that was shown.  Which document it names, and
\* which page, is not looked at.
Kept(q, evidence) ==
    {p \in evidence : (\E x \in q.relevant : IdOf(x) = p.clause) /\ p.quote \in ClauseAt(p.clause).words}

Answer(r) ==
    /\ IsPending(r)
    /\ \E evidence \in SUBSET Spans :
          /\ Cardinality(evidence) <= MaxSpans
          /\ LET kept == Kept(query[r], evidence) IN
             query' = [query EXCEPT ![r].answer =
                 IF IsEnough(kept, query[r].intent)
                 THEN [evidence |-> kept, confidence |-> "STATED"]
                 ELSE Refusal]
    /\ UNCHANGED <<tried, documents, access, owner, selection>>

ProviderFails(r) ==
    /\ IsPending(r)
    /\ query' = [query EXCEPT ![r].answer = Refusal]
    /\ UNCHANGED <<tried, documents, access, owner, selection>>

Next ==
    \/ \E s \in Sessions, n \in Names, c \in Contents :
          RejectUpload(s, n, c) \/ UploadAgain(s, n, c) \/ UploadNew(s, n, c)
    \/ \E s \in Sessions, j \in Jobs :
          CreateJob(s, j) \/ \E r \in Requests, intent \in Intents : Ask(r, s, j, intent)
    \/ \E j \in Jobs : SelectCandidates(j)
    \/ \E r \in Requests : Answer(r) \/ ProviderFails(r)

Spec == Init /\ [][Next]_vars

(***************************************************************************)
(* Properties                                                              *)
(***************************************************************************)

IsAnswer(a) ==
    /\ DOMAIN a = {"evidence", "confidence"}
    /\ a.evidence \subseteq Spans
    /\ a.confidence \in {"STATED", "NOT_ESTABLISHED"}

\* What is stored is within the limits of the settings.
TypeOK ==
    /\ tried \subseteq Sessions \X Names \X Contents
    /\ \A c \in Contents : Stored(c) =>
          Len(documents[c].clauses) <= MaxPages
    /\ DOMAIN documents = Contents
    /\ access \subseteq Sessions \X Contents
    /\ owner \in [Jobs -> Sessions \cup {None}]
    /\ DOMAIN selection = Jobs /\ DOMAIN query = Requests
    /\ \A r \in Requests : query[r] # None =>
          /\ query[r].session \in Sessions /\ query[r].job \in Jobs /\ query[r].intent \in Intents
          /\ query[r].relevant \subseteq query[r].read
          /\ query[r].answer = None \/ IsAnswer(query[r].answer)

\* A session gets a document only when it uploaded that content under a name that passes
\* the checks, and then always, if the content was readable under it; the list of a
\* session with a plain id has what it gets, and beyond it only what the key of a session
\* with another id brings in; and what is stored is the text of some upload that was
\* readable (document_service:75-149, 172-183, 208-218).  Of the list under an id that is
\* not plain nothing is said: it may have the documents of others, or not its own,
\* although api/documents:99 says "uploaded by the current session".
AccessIsEarned ==
    /\ \A s \in Sessions, c \in Contents :
          CanGet(s, c) => \E n \in Names : <<s, n, c>> \in tried /\ IsValid(n, c)
    /\ \A u \in tried : IsReadable(u[2], u[3]) => CanGet(u[1], u[3])
    /\ \A s \in Plain, c \in Contents :
          /\ CanGet(s, c) => c \in Listed(s)
          /\ c \in Listed(s) =>
                CanGet(s, c) \/ \E k \in KeysHeld : k[1] \notin Plain /\ DocumentIn[k] = c
    /\ \A c \in Contents : Stored(c) =>
          \E u \in tried : u[3] = c /\ IsReadable(u[2], c) /\ documents[c] = DocumentFrom(u[2], c)

Selected(j) == selection[j].pairs
Scored(j) == DOMAIN selection[j].similarity

\* A pair is analysed if its full score reaches the threshold, the early exit
\* notwithstanding (scoring:102-104, 121-146).
SelectedByScore(j) ==
    \A p \in Scored(j) :
        p \in Selected(j) <=>
            CompositeScore(ClauseAt(p[1]), ClauseAt(p[2]), selection[j].similarity[p]) >= Threshold * Unit

\* Any two clauses of different documents are one pair (candidate_generator:7-28).
PairedOnce(pairs) ==
    LET ids == {p[1] : p \in pairs} \cup {p[2] : p \in pairs} IN
    \A a, b \in ids :
        IF a[1] = b[1] THEN <<a, b>> \notin pairs ELSE <<a, b>> \in pairs <=> <<b, a>> \notin pairs

\* The pairs that are analysed are those of the full scores, out of all pairs of clauses of
\* different documents, of which the number reported is the number (engine:94-126).  So
\* generate_candidate_pairs proposes more than the "pairs sharing overlapping topics,
\* entities, or dates" of README.md:86: it looks at none of these, and a pair that shares
\* nothing is scored, and analysed if its cosine alone is enough.  Nor is there a "minimum
\* TF-IDF cosine similarity" (config.py:87-90): a pair with cosine 0 is analysed when the
\* rest of its score suffices.
SelectionIsExact ==
    \A j \in Jobs : selection[j] # None =>
        /\ Selected(j) \subseteq Scored(j)
        /\ SelectedByScore(j)
        /\ PairedOnce(Scored(j))
        /\ selection[j].naive = Cardinality(Scored(j))

IsGrounded(q) ==
    /\ q.answer.confidence = "STATED" <=> q.answer.evidence # {}
    /\ \A p \in q.answer.evidence :
          /\ p.quote \in ClauseAt(p.clause).words
          /\ \E x \in q.relevant : IdOf(x) = p.clause
          /\ \E n \in DOMAIN q.job : q.job[n] = p.clause[1]
    /\ q.intent.isComparison /\ q.answer.evidence # {} =>
          /\ \E p, r \in q.answer.evidence : p # r
          /\ (\A p \in q.answer.evidence : p.document = p.clause[1]) =>
                \E p, r \in q.answer.evidence : p.clause # r.clause

\* A session has answers about its own jobs only.  An answer is STATED with evidence and
\* refused without; its evidence is there to be read in the clauses that were shown, of
\* the job's documents; and a comparison has never just one citation, nor one clause if
\* the citations name their documents (validator:128-183, qa_service:66-156).
AnswersAreGrounded ==
    \A r \in Requests : query[r] # None =>
        /\ owner[query[r].job] = query[r].session
        /\ query[r].answer # None => IsGrounded(query[r])

TopicIsShown(q) ==
    LET score == [x \in q.read |-> Score(q.intent, q.similarity, x)]
        OnTopic(c) == q.intent.topic \in c.topics \cup c.section
    IN  /\ Cardinality(q.relevant) <= TopK
        /\ \A x \in q.read \ q.relevant : OnTopic(ClauseAt(IdOf(x))) =>
              Cardinality({y \in q.read \ {x} : score[y] >= score[x]}) >= TopK

\* A clause on the topic asked for, by its text or by its section, is shown unless TopK
\* others are at least as relevant: whatever words it uses, it is not lost below the
\* threshold (retrieval:62-100).
TopicMatchesRetrieved == \A r \in Requests : query[r] # None => TopicIsShown(query[r])
====
