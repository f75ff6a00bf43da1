---- MODULE Segmenter ----
(***************************************************************************)
(* How a document is cut into clauses (parsing/segmenter.py).  The lines of *)
(* a page are collected until a header or the end of the page, joined, and  *)
(* cut where a full stop is followed by a capital or a digit; what is too   *)
(* short for a clause is dropped.                                           *)
(*                                                                         *)
(* A body line with such a place inside stands here as two lines: joining   *)
(* them makes no difference.  A text is then the set of the numbers of its  *)
(* lines, in their order, and a header is known by its number.  The number  *)
(* of a clause within its document is its index in clauses.                 *)
(***************************************************************************)
EXTENDS Naturals, Sequences, FiniteSets, FiniteSetsExt

CONSTANTS
    Documents,   \* the documents: sequences of pages, which are sequences of lines
    MinLength    \* the length below which a piece of text is no clause

\* The patterns a line matches, its length and number of words, whether it ends with a
\* full stop and whether it begins with a capital or a digit.
Line == [shape : SUBSET {"caps", "keyword", "numbered", "colon"}, length : Nat,
         words : Nat, stop : BOOLEAN, capital : BOOLEAN]

ASSUME DocumentsAssumption == Documents \subseteq Seq(Seq(Line))

VARIABLES
    doc,
    page, line,  \* the line looked at next
    section,     \* the last header of the page, or 0
    buffer,      \* the lines collected since
    pending,     \* what flush_buffer still has to cut
    clauses

vars == <<doc, page, line, section, buffer, pending, clauses>>

IsHeader(l) ==
    /\ l.length \in 1..80
    /\ \/ "caps" \in l.shape /\ l.words <= 6
       \/ "keyword" \in l.shape /\ l.length < 60
       \/ "numbered" \in l.shape /\ l.length <= 35
       \/ "colon" \in l.shape /\ l.length < 50

\* Neither a header nor blank.
IsBody(l) == ~IsHeader(l) /\ l.length > 0

\* A cut is made before line n of the text S, of a page with the lines ls.
CutBefore(ls, n, S) ==
    \E m \in S : /\ m < n
                 /\ \A k \in S : ~(m < k /\ k < n)
                 /\ ls[m].stop /\ ls[n].capital

FirstChunk(ls, S) == {x \in S : \A n \in S : CutBefore(ls, n, S) => x < n}

\* Joined by single spaces.
TextLength(ls, S) == MapThenSumSet(LAMBDA x : ls[x].length + 1, S) - 1

Init ==
    /\ doc \in Documents
    /\ page = 1 /\ line = 1
    /\ section = 0
    /\ buffer = {} /\ pending = {}
    /\ clauses = <<>>

AtLine == pending = {} /\ page <= Len(doc) /\ line <= Len(doc[page])
AtEndOfPage == pending = {} /\ page <= Len(doc) /\ line > Len(doc[page])

\* Mutant: a header is not a reason to flush.
HeaderWithoutFlush ==
    /\ AtLine /\ IsHeader(doc[page][line])
    /\ section' = line
    /\ line' = line + 1
    /\ UNCHANGED <<doc, page, buffer, pending, clauses>>

ReadHeader ==
    /\ AtLine /\ IsHeader(doc[page][line]) /\ buffer = {}
    /\ section' = line
    /\ line' = line + 1
    /\ UNCHANGED <<doc, page, buffer, pending, clauses>>

ReadBody ==
    /\ AtLine /\ ~IsHeader(doc[page][line])
    /\ buffer' = IF IsBody(doc[page][line]) THEN buffer \cup {line} ELSE buffer
    /\ line' = line + 1
    /\ UNCHANGED <<doc, page, section, pending, clauses>>

\* flush_buffer: before a header and at the end of a page.
Flush ==
    /\ AtEndOfPage \/ (AtLine /\ IsHeader(doc[page][line]))
    /\ buffer # {}
    /\ pending' = buffer
    /\ buffer' = {}
    /\ UNCHANGED <<doc, page, line, section, clauses>>

\* Mutant: the rest of the text is given up with the first piece that is too short.
CutStopsAtShort ==
    /\ pending # {}
    /\ LET chunk == FirstChunk(doc[page], pending) long == TextLength(doc[page], chunk) >= MinLength IN
          /\ pending' = IF long THEN pending \ chunk ELSE {}
          /\ clauses' = IF long
                        THEN Append(clauses, [page |-> page, section |-> section, lines |-> chunk])
                        ELSE clauses
    /\ UNCHANGED <<doc, page, line, section, buffer>>

CutClause ==
    /\ pending # {}
    /\ LET chunk == FirstChunk(doc[page], pending) IN
          /\ pending' = pending \ chunk
          /\ clauses' = IF TextLength(doc[page], chunk) >= MinLength
                        THEN Append(clauses, [page |-> page, section |-> section, lines |-> chunk])
                        ELSE clauses
    /\ UNCHANGED <<doc, page, line, section, buffer>>

\* Mutant: the section of a page goes on on the next.
SectionRunsOn ==
    /\ AtEndOfPage /\ buffer = {}
    /\ page' = page + 1
    /\ line' = 1
    /\ UNCHANGED <<doc, section, buffer, pending, clauses>>

NextPage ==
    /\ AtEndOfPage /\ buffer = {}
    /\ page' = page + 1
    /\ line' = 1
    /\ section' = 0
    /\ UNCHANGED <<doc, buffer, pending, clauses>>

Next == ReadHeader \/ ReadBody \/ Flush \/ CutClause \/ NextPage

Spec == Init /\ [][Next]_vars

(***************************************************************************)
(* Properties                                                              *)
(***************************************************************************)

TypeOK ==
    /\ doc \in Seq(Seq(Line))
    /\ page \in 1..Len(doc) + 1
    /\ line \in Nat \ {0}
    /\ section \in 0..line - 1
    /\ buffer \subseteq Nat /\ pending \subseteq Nat
    /\ clauses \in Seq([page : Nat, section : Nat, lines : SUBSET Nat])

\* What a reader of the whole page sees: the header s that line x stands under, the body
\* lines under it, and the sentence of a line among them.
Under(ls, s, x) ==
    /\ s < x
    /\ s = 0 \/ IsHeader(ls[s])
    /\ \A h \in 1..Len(ls) : s < h /\ h < x => ~IsHeader(ls[h])

Region(ls, s) == {x \in 1..Len(ls) : IsBody(ls[x]) /\ Under(ls, s, x)}

Sentence(ls, R, x) == {y \in R : \A n \in R : CutBefore(ls, n, R) => (n <= x <=> n <= y)}

IsClause(c) ==
    /\ c.lines # {} /\ TextLength(doc[c.page], c.lines) >= MinLength
    /\ LET R == Region(doc[c.page], c.section) IN
          \A x \in c.lines : x \in R /\ c.lines = Sentence(doc[c.page], R, x)

Precedes(c, d) ==
    c.page < d.page \/ (c.page = d.page /\ \A x \in c.lines, y \in d.lines : x < y)

\* Every clause is one whole sentence under the header it is filed under, and numbers
\* follow the text (segmenter:64-98, 100-109).
ClausesAreSentences ==
    /\ \A i \in DOMAIN clauses : IsClause(clauses[i])
    /\ \A i, j \in DOMAIN clauses : i < j => Precedes(clauses[i], clauses[j])

Kept(p, x) == \E i \in DOMAIN clauses : clauses[i].page = p /\ x \in clauses[i].lines

\* No line of the pages done is missing from the clauses, unless its sentence is too short
\* (segmenter:57-109).
NothingIsLost ==
    \A p \in 1..Len(doc) : p < page =>
        \A s \in 0..Len(doc[p]) : LET R == Region(doc[p], s) IN
            \A x \in R : Kept(p, x) \/ ~(TextLength(doc[p], Sentence(doc[p], R, x)) >= MinLength)
====
