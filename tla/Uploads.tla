---- MODULE Uploads ----
(***************************************************************************)
(* What becomes of an uploaded file before anything is stored: the checks   *)
(* (security/validation.py), the text (parsing/text_layer_extractor.py) and *)
(* the limits on it (services/document_service.py).                         *)
(*                                                                         *)
(* A content is known by what these steps ask of it.  Segmenter has the way *)
(* from the text of a page to its clauses; here a page comes with them.     *)
(***************************************************************************)
EXTENDS CandidateSelection, FiniteSetsExt

CONSTANTS
    Names,       \* file names
    ExtensionOf, \* name -> its extension in lower case
    SafeName,    \* name -> what sanitize_filename makes of it
    Contents,    \* contents, which stand for their hashes as well
    DataOf,      \* content -> a record of Data
    Unreadable,  \* in place of pages: the library fails
    MaxSize, MaxEntries, MaxEntrySize, MaxRatio, MaxPages, MaxChars   \* of core/config.py

\* A piece of text as the later steps see it: which words of their vocabularies occur in it
\* and in its section heading, names, dates, and whether it states a duration (which is a
\* numeric attribute, of one of five kinds).
Text == [words : SUBSET STRING, section : SUBSET STRING,
         entities : SUBSET STRING, dates : SUBSET STRING, duration : BOOLEAN]

Page == [chars : Nat, texts : Seq(Text)]

Data == [size : Nat, magic : {"%PDF", "PK", "other"},
         isArchive : BOOLEAN, entries : Seq(Nat),         \* the sizes when unpacked
         pdf : Seq(Page) \cup {Unreadable},               \* as PyMuPDF reads it,
         paragraphs : Seq(Page) \cup {Unreadable},        \* python-docx,
         xml : Seq(Page) \cup {Unreadable},               \* the fallback
         plain : Page]                                    \* and the UTF-8 decoder

Total(q) == MapThenSumSet(LAMBDA i : q[i], DOMAIN q)

IsSafeArchive(c) ==
    /\ c.isArchive
    /\ Len(c.entries) <= MaxEntries
    /\ \A i \in DOMAIN c.entries : c.entries[i] <= MaxEntrySize
    /\ Total(c.entries) <= MaxRatio * c.size

\* validate_upload and validate_docx_zip_safety.
IsValid(n, c) ==
    /\ DataOf[c].size \in 1..MaxSize
    /\ ExtensionOf[n] \in {"pdf", "docx", "txt"}
    /\ ExtensionOf[n] = "pdf" => DataOf[c].magic = "%PDF"
    /\ ExtensionOf[n] = "docx" => DataOf[c].magic = "PK" /\ IsSafeArchive(DataOf[c])

\* The extractor of the extension.  Only a PDF has more pages than one.
Extract(n, c) ==
    CASE ExtensionOf[n] = "pdf" -> DataOf[c].pdf
      [] ExtensionOf[n] = "docx" /\ DataOf[c].paragraphs # Unreadable -> DataOf[c].paragraphs
      [] ExtensionOf[n] = "docx" /\ DataOf[c].paragraphs = Unreadable -> DataOf[c].xml
      [] OTHER -> <<DataOf[c].plain>>

\* Mutant: any number of pages.
IsShort(pages) ==
    /\ pages # Unreadable
    /\ Total([p \in DOMAIN pages |-> pages[p].chars]) <= MaxChars

IsWithinLimits(pages) ==
    /\ pages # Unreadable
    /\ Len(pages) <= MaxPages
    /\ Total([p \in DOMAIN pages |-> pages[p].chars]) <= MaxChars

\* The clauses by page, with their topics.
SegmentClauses(pages) ==
    [p \in DOMAIN pages |-> [i \in DOMAIN pages[p].texts |->
        LET t == pages[p].texts[i] IN
        [words |-> t.words, section |-> t.section, topics |-> TopicsIn(t.words),
         entities |-> t.entities, dates |-> t.dates, duration |-> t.duration]]]

\* All that is read of a content, under any name.
ExtractsOf(c) == {DataOf[c].pdf, DataOf[c].paragraphs, DataOf[c].xml, <<DataOf[c].plain>>} \ {Unreadable}

ASSUME DataAssumption ==
    /\ \A c \in Contents : DataOf[c] \in Data
    /\ \A c \in Contents : \A pages \in ExtractsOf(c) : \A p \in DOMAIN pages :
          \A i \in DOMAIN pages[p].texts :
              IsFiniteSet(pages[p].texts[i].entities) /\ IsFiniteSet(pages[p].texts[i].dates)
    /\ \A c \in Contents : /\ IsWithinLimits(DataOf[c].paragraphs) => Len(DataOf[c].paragraphs) = 1
                           /\ IsWithinLimits(DataOf[c].xml) => Len(DataOf[c].xml) = 1
    /\ \A n \in Names : ExtensionOf[n] \in STRING
====
