---- MODULE MCCorpus ----
(***************************************************************************)
(* An instance for TLC: a contract that is a DOCX, an order that is a text  *)
(* but passes the checks of a DOCX, a PDF with too many pages, and the      *)
(* names they might be uploaded under.  Two sessions have plain ids; the id *)
(* of a third is a pattern that any id matches, and that of a fourth goes   *)
(* on from the first one's with the name of a document.                    *)
(***************************************************************************)
EXTENDS Corpus, TLC

CONSTANTS s1, s2, any, deeper, msa, sow, long

MCMatches == {m \in Sessions \X Keys : m[1] = m[2][1] /\ m[2][2] \in Contents}
             \cup {any} \X (Sessions \X Contents) \cup {s1} \X ({deeper} \X (Contents \cup Jobs))
MCDocumentIn == [k \in Keys |->
    IF k[1] = deeper THEN msa ELSE IF k[2] \in Contents THEN k[2] ELSE None]

MCNames == {"a.docx", "b.txt", "c.pdf"}
MCExtensionOf == [n \in MCNames |-> CASE n = "a.docx" -> "docx" [] n = "b.txt" -> "txt" [] n = "c.pdf" -> "pdf"]
MCSafeName == [n \in MCNames |-> n]

T(words, section, entities, duration) ==
    [words |-> words, section |-> section, entities |-> entities, dates |-> {}, duration |-> duration]

\* Under a heading "Payment", without a word of it; and a notice.
MsaPage == [chars |-> 80, texts |-> <<
    T({"within"}, {"pay", "payment"}, {"Acme Corp"}, TRUE),
    T({"term", "terminate", "notice"}, {}, {}, TRUE)>>]

SowPage == [chars |-> 60, texts |-> <<T({"liability", "cap"}, {}, {"Acme Corp"}, FALSE)>>]

Blank == [chars |-> 0, texts |-> <<>>]

D(size, magic, entries, pdf, paragraphs, plain) ==
    [size |-> size, magic |-> magic, isArchive |-> entries # <<>>, entries |-> entries,
     pdf |-> pdf, paragraphs |-> paragraphs, xml |-> Unreadable, plain |-> plain]

MCDataOf == [c \in Contents |->
    CASE c = msa  -> D(9, "PK", <<20, 30>>, Unreadable, <<MsaPage>>, Blank)
      [] c = sow  -> D(3, "PK", <<7>>, Unreadable, Unreadable, SowPage)
      [] c = long -> D(9, "%PDF", <<>>, <<Blank, Blank, Blank>>, Unreadable, Blank)]

\* One document is named twice.
MCJobs == {<<msa, sow, sow>>}

\* When is the payment due?  Do the notice periods differ?
MCQueries == {{"pay", "payment", "due"}, {"notice", "period", "differ"}}

Cite(clause, document, quote) == [clause |-> clause, document |-> document, quote |-> quote]

MCSpans ==
    {Cite(<<msa, 1, 1>>, msa, "within"),
     Cite(<<msa, 1, 2>>, msa, "notice"),
     Cite(<<msa, 1, 2>>, msa, "terminate"),    \* the same clause
     Cite(<<msa, 1, 2>>, sow, "notice"),       \* another document
     Cite(<<sow, 1, 1>>, sow, "liability"),
     Cite(<<sow, 1, 1>>, sow, "never said")}
====
