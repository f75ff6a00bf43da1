---- MODULE SegmenterProofs ----
(***************************************************************************)
(* Proofs about Segmenter, for any documents.                               *)
(***************************************************************************)
EXTENDS Segmenter, FiniteSetTheorems, WellFoundedInduction, TLAPS

USE DocumentsAssumption

\* A set of numbers has a smallest one: of its beginnings, which are finite, one has no
\* other inside it.
LEMMA SmallestLine ==
    ASSUME NEW S, S \subseteq Nat, S # {}
    PROVE  \E f \in S : \A x \in S : f <= x
<1> DEFINE T == {S \cap (0..x) : x \in S}
<1>1. T # {}
  OBVIOUS
<1>2. T \subseteq FiniteSubsetsOf(S)
  <2> SUFFICES ASSUME NEW x \in S PROVE S \cap (0..x) \in FiniteSubsetsOf(S)
    OBVIOUS
  <2>1. IsFiniteSet(0..x)
    BY FS_Interval
  <2> QED
    BY <2>1, FS_Subset DEF FiniteSubsetsOf
<1>3. \E b \in T : \A a \in T : <<a, b>> \notin StrictSubsetOrdering(S)
  <2> HIDE DEF T
  <2> QED
    BY <1>1, <1>2, FS_StrictSubsetOrderingWellFounded, WFMin, Zenon
<1>4. PICK f \in S : \A x \in S : <<S \cap (0..x), S \cap (0..f)>> \notin StrictSubsetOrdering(S)
  BY <1>3
<1>5. ASSUME NEW x \in S, x < f PROVE FALSE
  <2>1. S \cap (0..x) \subseteq S \cap (0..f)
    BY <1>5
  <2>2. f \in S \cap (0..f) /\ f \notin S \cap (0..x)
    BY <1>5
  <2> QED
    BY <1>4, <2>1, <2>2 DEF StrictSubsetOrdering
<1> QED
  BY <1>5

\* The lines read of the region that is being collected.
Gathered == {x \in Region(doc[page], section) : x < line}

AtFlush == line > Len(doc[page]) \/ IsHeader(doc[page][line])

\* The set S is what is left of R from the beginning of a sentence on.
IsTail(ls, S, R) ==
    /\ S \subseteq R
    /\ \A x \in S, y \in R : x < y => y \in S
    /\ \A f \in S : (\A x \in S : f <= x) => CutBefore(ls, f, R) \/ \A x \in R : f <= x

SectionIsLast ==
    page <= Len(doc) =>
        /\ line <= Len(doc[page]) + 1
        /\ section = 0 \/ (section <= Len(doc[page]) /\ IsHeader(doc[page][section]))
        /\ \A h \in 1..Len(doc[page]) : section < h /\ h < line => ~IsHeader(doc[page][h])

\* Lines wait in the buffer or are being cut; those in the buffer are all there are.
TextIsGathered ==
    /\ page > Len(doc) => buffer = {} /\ pending = {}
    /\ page <= Len(doc) =>
          /\ buffer # {} => pending = {} /\ buffer = Gathered
          /\ pending # {} => AtFlush /\ IsTail(doc[page], pending, Gathered)
          /\ buffer = {} /\ Gathered # {} => AtFlush

\* The clauses there are come before all that is still to be cut.
ClausesComeBefore ==
    \A i \in DOMAIN clauses :
        /\ clauses[i].page <= page /\ clauses[i].page \in 1..Len(doc)
        /\ clauses[i].page = page =>
              \A x \in clauses[i].lines : x < line /\ \A y \in buffer \cup pending : x < y

ReadIsKept ==
    \A p \in 1..Len(doc) : \A s \in 0..Len(doc[p]) : \A x \in Region(doc[p], s) :
        p < page \/ (p = page /\ x < line) =>
            \/ Kept(p, x)
            \/ p = page /\ x \in buffer \cup pending
            \/ ~(TextLength(doc[p], Sentence(doc[p], Region(doc[p], s), x)) >= MinLength)

IInv == /\ TypeOK /\ SectionIsLast /\ TextIsGathered
        /\ ClausesComeBefore /\ ClausesAreSentences /\ ReadIsKept

\* A line stands under one header.
LEMMA OneSection ==
    ASSUME NEW p \in 1..Len(doc), NEW s \in 0..Len(doc[p]), NEW t \in 0..Len(doc[p]),
           NEW x \in Region(doc[p], s), x \in Region(doc[p], t)
    PROVE  s = t
  BY DEF Region, Under

\* What the first cut takes from the rest of a region is the sentence of each of its lines.
LEMMA ChunkIsSentence ==
    ASSUME NEW ls, NEW R, R \subseteq Nat, NEW S, S # {}, IsTail(ls, S, R)
    PROVE  /\ FirstChunk(ls, S) # {}
           /\ FirstChunk(ls, S) \subseteq S
           /\ \A x \in FirstChunk(ls, S) : FirstChunk(ls, S) = Sentence(ls, R, x)
           /\ \A x \in FirstChunk(ls, S), y \in S \ FirstChunk(ls, S) : x < y
           /\ IsTail(ls, S \ FirstChunk(ls, S), R)
<1>1. S \subseteq R /\ (\A x \in S, y \in R : x < y => y \in S)
  BY DEF IsTail
<1>2. PICK f \in S : \A x \in S : f <= x
  BY <1>1, SmallestLine
<1>3. CutBefore(ls, f, R) \/ \A x \in R : f <= x
  BY <1>2 DEF IsTail
<1>4. \A n \in S : CutBefore(ls, n, S) <=> n # f /\ CutBefore(ls, n, R)
  <2> SUFFICES ASSUME NEW n \in S PROVE CutBefore(ls, n, S) <=> n # f /\ CutBefore(ls, n, R)
    OBVIOUS
  <2>1. n \in Nat /\ f \in Nat /\ f <= n
    BY <1>1, <1>2
  <2>2. ASSUME NEW m \in S, m < n, \A k \in S : ~(m < k /\ k < n)
        PROVE  n # f /\ \A k \in R : ~(m < k /\ k < n)
    <3>1. m \in Nat /\ f <= m
      BY <1>1, <1>2
    <3> QED
      BY <3>1, <2>1, <2>2, <1>1
  <2>3. ASSUME n # f, NEW m \in R, m < n, \A k \in R : ~(m < k /\ k < n)
        PROVE  m \in S
    <3>1. m \in Nat /\ ~(m < f)
      BY <2>1, <2>3, <1>1
    <3> QED
      BY <3>1, <2>1, <1>1, <1>2
  <2> QED
    BY <2>2, <2>3, <1>1 DEF CutBefore
<1>5. \A n \in R : n \in S \/ n < f
  BY <1>1, <1>2
<1> DEFINE C == FirstChunk(ls, S)
<1>6. C \subseteq S /\ f \in C
  BY <1>1, <1>2, <1>4 DEF FirstChunk
<1>7. ASSUME NEW x \in C PROVE C = Sentence(ls, R, x)
  <2>1. ASSUME NEW y \in C PROVE y \in Sentence(ls, R, x)
    <3> SUFFICES ASSUME NEW n \in R, CutBefore(ls, n, R) PROVE n <= x <=> n <= y
      BY <1>1, <1>6 DEF Sentence
    <3>1. n \in S /\ n # f => x < n /\ y < n
      BY <1>4, <1>6 DEF FirstChunk
    <3> QED
      BY <3>1, <1>1, <1>2, <1>5, <1>6
  <2>2. ASSUME NEW y \in Sentence(ls, R, x) PROVE y \in C
    <3>1. y \in R /\ \A n \in R : CutBefore(ls, n, R) => (n <= x <=> n <= y)
      BY DEF Sentence
    <3>2. f <= x /\ x \in S
      BY <1>2, <1>6
    <3>3. y \in S
      BY <3>1, <3>2, <1>1, <1>2, <1>3, <1>5
    <3>4. ASSUME NEW n \in S, CutBefore(ls, n, S) PROVE y < n
      <4>1. x < n
        BY <3>4 DEF FirstChunk
      <4> QED
        BY <4>1, <3>1, <3>2, <3>3, <3>4, <1>1, <1>4
    <3> QED
      BY <3>3, <3>4 DEF FirstChunk
  <2> QED
    BY <2>1, <2>2
<1>8. ASSUME NEW x \in C, NEW y \in S \ C PROVE x < y
  <2>1. PICK n \in S : CutBefore(ls, n, S) /\ ~(y < n)
    BY DEF FirstChunk
  <2>2. x < n
    BY <2>1 DEF FirstChunk
  <2> QED
    BY <2>1, <2>2, <1>1, <1>6
<1>9. IsTail(ls, S \ C, R)
  <2>1. ASSUME NEW x \in S \ C, NEW y \in R, x < y PROVE y \in S \ C
    <3>1. y \in S
      BY <1>1, <2>1
    <3>2. y \notin C
      BY <2>1, <1>1, <1>6, <1>8
    <3> QED
      BY <3>1, <3>2
  <2>2. ASSUME NEW g \in S \ C, \A x \in S \ C : g <= x PROVE CutBefore(ls, g, R)
    <3>1. PICK n \in S : CutBefore(ls, n, S) /\ ~(g < n)
      BY DEF FirstChunk
    <3>2. n \notin C
      BY <3>1, <1>1 DEF FirstChunk
    <3>3. n = g
      BY <3>1, <3>2, <2>2, <1>1
    <3> QED
      BY <3>1, <3>3, <1>4
  <2> QED
    BY <2>1, <2>2, <1>1 DEF IsTail
<1> QED
  BY <1>6, <1>7, <1>8, <1>9

\* At a header or the end of the page, all of the region has been read.
LEMMA GatheredIsRegion ==
    ASSUME TypeOK, page <= Len(doc), SectionIsLast, AtFlush
    PROVE  Gathered = Region(doc[page], section)
<1> SUFFICES ASSUME NEW x \in Region(doc[page], section) PROVE x < line
  BY DEF Gathered
<1>1. x \in 1..Len(doc[page]) /\ ~IsHeader(doc[page][x]) /\ Under(doc[page], section, x)
  BY DEF Region, IsBody
<1>2. section < line
  BY DEF TypeOK
<1>3. Len(doc[page]) \in Nat
  BY DEF TypeOK
<1>4. line \in Nat \ {0} /\ \A h \in 1..Len(doc[page]) : section < h /\ h < x => ~IsHeader(doc[page][h])
  BY <1>1 DEF Under, TypeOK
<1>5. line <= Len(doc[page]) + 1 /\ (line > Len(doc[page]) \/ IsHeader(doc[page][line]))
  BY DEF SectionIsLast, AtFlush
<1> QED
  BY <1>1, <1>2, <1>3, <1>4, <1>5

LEMMA InvInit == Init => IInv
<1> SUFFICES ASSUME Init PROVE IInv
  OBVIOUS
<1>0. doc \in Seq(Seq(Line)) /\ Len(doc) \in Nat
  BY DEF Init
<1>1. TypeOK
  BY <1>0 DEF Init, TypeOK
<1>2. SectionIsLast
  BY <1>0 DEF Init, SectionIsLast
<1>3. TextIsGathered
  <2>1. ASSUME page <= Len(doc) PROVE Gathered = {}
    BY <1>0, <2>1 DEF Init, Gathered, Region
  <2> QED
    BY <2>1 DEF Init, TextIsGathered
<1>4. ClausesComeBefore /\ ClausesAreSentences
  BY DEF Init, ClausesComeBefore, ClausesAreSentences
<1>5. ReadIsKept
  BY <1>0 DEF Init, ReadIsKept, Region
<1> QED
  BY <1>1, <1>2, <1>3, <1>4, <1>5 DEF IInv

LEMMA ClauseType ==
    ASSUME TypeOK, NEW i \in DOMAIN clauses
    PROVE  clauses[i].page \in Nat /\ clauses[i].section \in Nat /\ clauses[i].lines \subseteq Nat
<1> DEFINE C == [page : Nat, section : Nat, lines : SUBSET Nat]
<1>1. clauses \in Seq(C)
  BY DEF TypeOK
<1>2. clauses[i] \in C
  <2> HIDE DEF C
  <2> QED
    BY <1>1
<1> QED
  BY <1>2

\* Looking at the next line, header or not, leaves the invariant's other parts alone.
LEMMA ReadHeaderStep == IInv /\ ReadHeader => IInv'
<1> SUFFICES ASSUME IInv, ReadHeader PROVE IInv'
  OBVIOUS
<1>0. /\ doc' = doc /\ page' = page /\ buffer' = {} /\ pending' = {} /\ buffer = {} /\ pending = {}
      /\ clauses' = clauses /\ section' = line /\ line' = line + 1
      /\ page \in 1..Len(doc) /\ line \in 1..Len(doc[page]) /\ IsHeader(doc[page][line])
      /\ Len(doc) \in Nat /\ Len(doc[page]) \in Nat
  BY DEF IInv, TypeOK, ReadHeader, AtLine
<1>1. TypeOK'
  BY <1>0 DEF IInv, TypeOK
<1>2. SectionIsLast'
  BY <1>0 DEF IInv, SectionIsLast, IsHeader
<1>3. TextIsGathered'
  <2>1. Gathered' = {}
    BY <1>0 DEF Gathered, Region, Under
  <2> QED
    BY <2>1, <1>0 DEF TextIsGathered
<1>4. ClausesComeBefore'
  <2> SUFFICES ASSUME NEW i \in DOMAIN clauses, clauses[i].page = page, NEW x \in clauses[i].lines
               PROVE  x < line + 1
    BY <1>0 DEF IInv, ClausesComeBefore
  <2>1. x \in Nat /\ x < line /\ line \in Nat
    BY <1>0, ClauseType DEF IInv, ClausesComeBefore
  <2> QED
    BY <2>1
<1>5. ClausesAreSentences'
  BY <1>0 DEF IInv, ClausesAreSentences, IsClause, Precedes
<1>6. ReadIsKept'
  <2> SUFFICES ASSUME NEW p \in 1..Len(doc), NEW s \in 0..Len(doc[p]), NEW x \in Region(doc[p], s),
                      p < page \/ (p = page /\ x < line + 1)
               PROVE  Kept(p, x) \/ ~(TextLength(doc[p], Sentence(doc[p], Region(doc[p], s), x)) >= MinLength)
    BY <1>0 DEF ReadIsKept, Kept
  <2>1. ~IsHeader(doc[p][x]) /\ x \in Nat
    BY DEF Region, IsBody
  <2>2. p < page \/ (p = page /\ x < line)
    BY <2>1, <1>0
  <2> QED
    BY <2>2, <1>0 DEF IInv, ReadIsKept
<1> QED
  BY <1>1, <1>2, <1>3, <1>4, <1>5, <1>6 DEF IInv

LEMMA ReadBodyStep == IInv /\ ReadBody => IInv'
<1> SUFFICES ASSUME IInv, ReadBody PROVE IInv'
  OBVIOUS
<1>0. /\ doc' = doc /\ page' = page /\ pending' = {} /\ pending = {}
      /\ clauses' = clauses /\ section' = section /\ line' = line + 1
      /\ page \in 1..Len(doc) /\ line \in 1..Len(doc[page]) /\ ~IsHeader(doc[page][line])
      /\ Len(doc) \in Nat /\ Len(doc[page]) \in Nat /\ section \in Nat /\ section < line
      /\ buffer' = IF IsBody(doc[page][line]) THEN buffer \cup {line} ELSE buffer
  BY DEF IInv, TypeOK, ReadBody, AtLine
<1>1. TypeOK'
  BY <1>0 DEF IInv, TypeOK
<1>2. SectionIsLast'
  BY <1>0 DEF IInv, SectionIsLast
<1>3. TextIsGathered'
  <2>0. ~AtFlush /\ page <= Len(doc)
    BY <1>0 DEF AtFlush
  <2>1. buffer = Gathered
    BY <2>0 DEF IInv, TextIsGathered
  <2>2. Under(doc[page], section, line)
    BY <1>0 DEF IInv, SectionIsLast, Under
  <2>3. Gathered' = buffer'
    BY <2>1, <2>2, <1>0 DEF Gathered, Region
  <2> QED
    BY <2>3, <1>0 DEF TextIsGathered
<1>4. ClausesComeBefore'
  <2> SUFFICES ASSUME NEW i \in DOMAIN clauses, clauses[i].page = page, NEW x \in clauses[i].lines
               PROVE  x < line + 1 /\ \A y \in buffer' : x < y
    BY <1>0 DEF IInv, ClausesComeBefore
  <2>1. x \in Nat /\ x < line /\ (\A y \in buffer : x < y)
    BY <1>0, ClauseType DEF IInv, ClausesComeBefore
  <2> QED
    BY <2>1, <1>0
<1>5. ClausesAreSentences'
  BY <1>0 DEF IInv, ClausesAreSentences, IsClause, Precedes
<1>6. ReadIsKept'
  <2> SUFFICES ASSUME NEW p \in 1..Len(doc), NEW s \in 0..Len(doc[p]), NEW x \in Region(doc[p], s),
                      p < page \/ (p = page /\ x < line + 1)
               PROVE  \/ Kept(p, x)
                      \/ p = page /\ x \in buffer'
                      \/ ~(TextLength(doc[p], Sentence(doc[p], Region(doc[p], s), x)) >= MinLength)
    <3>1. SUFFICES ASSUME NEW p \in 1..Len(doc), NEW s \in 0..Len(doc[p]), NEW x \in Region(doc[p], s),
                          p < page' \/ (p = page' /\ x < line')
                   PROVE  \/ Kept(p, x)'
                          \/ p = page' /\ x \in buffer' \cup pending'
                          \/ ~(TextLength(doc[p], Sentence(doc[p], Region(doc[p], s), x)) >= MinLength)
      BY <1>0 DEF ReadIsKept
    <3>2. Kept(p, x)' <=> Kept(p, x)
      BY <1>0 DEF Kept
    <3> QED
      BY <3>1, <3>2, <1>0
  <2>1. CASE p = page /\ x = line
    BY <2>1, <1>0 DEF Region
  <2>2. CASE p < page \/ (p = page /\ x < line)
    BY <2>2, <1>0 DEF IInv, ReadIsKept
  <2>3. x \in Nat
    BY DEF Region
  <2> QED
    BY <2>1, <2>2, <2>3, <1>0
<1> QED
  BY <1>1, <1>2, <1>3, <1>4, <1>5, <1>6 DEF IInv

\* Append leaves the elements where they are and adds one.
LEMMA AppendIndices ==
    ASSUME NEW C, NEW q \in Seq(C), NEW e \in C
    PROVE  /\ Append(q, e) \in Seq(C) /\ Len(q) \in Nat
           /\ DOMAIN q = 1..Len(q) /\ DOMAIN Append(q, e) = 1..Len(q) + 1
           /\ \A i \in 1..Len(q) : Append(q, e)[i] = q[i]
           /\ Append(q, e)[Len(q) + 1] = e
  OBVIOUS

LEMMA FlushStep == IInv /\ Flush => IInv'
<1> SUFFICES ASSUME IInv, Flush PROVE IInv'
  OBVIOUS
<1>0. /\ doc' = doc /\ page' = page /\ pending' = buffer /\ pending = {} /\ buffer' = {} /\ buffer # {}
      /\ clauses' = clauses /\ section' = section /\ line' = line
      /\ page <= Len(doc) /\ AtFlush
  BY DEF Flush, AtLine, AtEndOfPage, AtFlush
<1>1. TypeOK'
  BY <1>0 DEF IInv, TypeOK
<1>2. SectionIsLast'
  BY <1>0 DEF IInv, SectionIsLast
<1>3. TextIsGathered'
  <2>1. buffer = Gathered
    BY <1>0 DEF IInv, TextIsGathered
  <2>2. IsTail(doc[page], buffer, Gathered)
    BY <2>1 DEF IsTail
  <2>3. Gathered' = Gathered /\ (AtFlush <=> AtFlush')
    BY <1>0 DEF Gathered, AtFlush
  <2>4. page \in Int /\ Len(doc) \in Int
    BY DEF IInv, TypeOK
  <2> QED
    BY <2>2, <2>3, <2>4, <1>0 DEF TextIsGathered
<1>4. ClausesComeBefore'
  BY <1>0 DEF IInv, ClausesComeBefore
<1>5. ClausesAreSentences'
  BY <1>0 DEF IInv, ClausesAreSentences, IsClause, Precedes
<1>6. ReadIsKept'
  BY <1>0 DEF IInv, ReadIsKept, Kept
<1> QED
  BY <1>1, <1>2, <1>3, <1>4, <1>5, <1>6 DEF IInv

LEMMA NextPageStep == IInv /\ NextPage => IInv'
<1> SUFFICES ASSUME IInv, NextPage PROVE IInv'
  OBVIOUS
<1>0. /\ doc' = doc /\ page' = page + 1 /\ pending' = {} /\ pending = {} /\ buffer' = {} /\ buffer = {}
      /\ clauses' = clauses /\ section' = 0 /\ line' = 1
      /\ page \in 1..Len(doc) /\ Len(doc) \in Nat /\ line > Len(doc[page]) /\ line \in Nat
      /\ doc \in Seq(Seq(Line))
  BY DEF IInv, TypeOK, NextPage, AtEndOfPage
<1>1. TypeOK'
  BY <1>0 DEF IInv, TypeOK
<1>2. SectionIsLast'
  BY <1>0 DEF SectionIsLast
<1>3. TextIsGathered'
  <2>1. ASSUME page + 1 <= Len(doc) PROVE Gathered' = {}
    BY <2>1, <1>0 DEF Gathered, Region
  <2> QED
    BY <2>1, <1>0 DEF TextIsGathered
<1>4. ClausesComeBefore'
  BY <1>0, ClauseType DEF IInv, ClausesComeBefore
<1>5. ClausesAreSentences'
  BY <1>0 DEF IInv, ClausesAreSentences, IsClause, Precedes
<1>6. ReadIsKept'
  <2> SUFFICES ASSUME NEW p \in 1..Len(doc), NEW s \in 0..Len(doc[p]), NEW x \in Region(doc[p], s),
                      p < page + 1 \/ (p = page + 1 /\ x < 1)
               PROVE  \/ Kept(p, x)
                      \/ ~(TextLength(doc[p], Sentence(doc[p], Region(doc[p], s), x)) >= MinLength)
    <3>1. SUFFICES ASSUME NEW p \in 1..Len(doc), NEW s \in 0..Len(doc[p]), NEW x \in Region(doc[p], s),
                          p < page' \/ (p = page' /\ x < line')
                   PROVE  \/ Kept(p, x)'
                          \/ p = page' /\ x \in buffer' \cup pending'
                          \/ ~(TextLength(doc[p], Sentence(doc[p], Region(doc[p], s), x)) >= MinLength)
      BY <1>0 DEF ReadIsKept
    <3>2. Kept(p, x)' <=> Kept(p, x)
      BY <1>0 DEF Kept
    <3> QED
      BY <3>1, <3>2, <1>0
  <2>1. x \in 1..Len(doc[p]) /\ Len(doc[p]) \in Nat
    BY <1>0 DEF Region
  <2>2. p < page \/ (p = page /\ x < line)
    BY <2>1, <1>0
  <2> QED
    BY <2>2, <1>0 DEF IInv, ReadIsKept
<1> QED
  BY <1>1, <1>2, <1>3, <1>4, <1>5, <1>6 DEF IInv

LEMMA CutClauseStep == IInv /\ CutClause => IInv'
<1> SUFFICES ASSUME IInv, CutClause PROVE IInv'
  OBVIOUS
<1> DEFINE chunk == FirstChunk(doc[page], pending)
           R == Region(doc[page], section)
           new == [page |-> page, section |-> section, lines |-> chunk]
           long == TextLength(doc[page], chunk) >= MinLength
<1>0. /\ doc' = doc /\ page' = page /\ pending' = pending \ chunk /\ pending # {} /\ buffer' = buffer
      /\ clauses' = (IF long THEN Append(clauses, new) ELSE clauses)
      /\ section' = section /\ line' = line
  BY DEF CutClause
<1>1. /\ page \in 1..Len(doc) /\ Len(doc) \in Nat /\ section \in 0..Len(doc[page]) /\ line \in Nat
      /\ buffer = {} /\ AtFlush /\ IsTail(doc[page], pending, Gathered) /\ pending \subseteq Nat
      /\ clauses \in Seq([page : Nat, section : Nat, lines : SUBSET Nat])
  <2>1. /\ page \in 1..Len(doc) + 1 /\ doc \in Seq(Seq(Line)) /\ section \in 0..line - 1 /\ line \in Nat
        /\ pending \subseteq Nat /\ clauses \in Seq([page : Nat, section : Nat, lines : SUBSET Nat])
    BY DEF IInv, TypeOK
  <2>2. page \in 1..Len(doc) /\ Len(doc) \in Nat
    <3>1. Len(doc) \in Nat
      BY <2>1
    <3>2. ~(page > Len(doc))
      BY <1>0 DEF IInv, TextIsGathered
    <3> QED
      BY <2>1, <3>1, <3>2
  <2>3. buffer = {} /\ AtFlush /\ IsTail(doc[page], pending, Gathered)
    BY <2>2, <1>0 DEF IInv, TextIsGathered
  <2>4. section \in 0..Len(doc[page])
    BY <2>1, <2>2 DEF IInv, SectionIsLast
  <2> QED
    BY <2>1, <2>2, <2>3, <2>4
<1>2. Gathered = R /\ R \subseteq Nat /\ \A x \in R : x < line
  <2>1. Gathered = R
    BY <1>1, GatheredIsRegion DEF IInv
  <2> QED
    BY <2>1 DEF Gathered, Region
<1>3. /\ chunk # {} /\ chunk \subseteq pending /\ pending \subseteq R
      /\ \A x \in chunk : chunk = Sentence(doc[page], R, x)
      /\ \A x \in chunk, y \in pending \ chunk : x < y
      /\ IsTail(doc[page], pending \ chunk, R)
  <2> HIDE DEF R
  <2>1. IsTail(doc[page], pending, R) /\ R \subseteq Nat
    BY <1>1, <1>2
  <2> QED
    BY <2>1, <1>0, ChunkIsSentence DEF IsTail
<1> HIDE DEF chunk, R, long
<1>4. TypeOK'
  <2>1. new \in [page : Nat, section : Nat, lines : SUBSET Nat]
    BY <1>1, <1>3
  <2>2. clauses' \in Seq([page : Nat, section : Nat, lines : SUBSET Nat])
    <3> HIDE DEF new
    <3> QED
      BY <2>1, <1>0, <1>1, AppendIndices
  <2> HIDE DEF new
  <2> QED
    BY <2>2, <1>0, <1>1 DEF IInv, TypeOK
<1>5. SectionIsLast'
  BY <1>0 DEF IInv, SectionIsLast
<1>6. TextIsGathered'
  <2>1. Gathered' = R /\ (AtFlush <=> AtFlush')
    BY <1>0, <1>2 DEF Gathered, AtFlush
  <2> QED
    BY <2>1, <1>0, <1>1, <1>3 DEF TextIsGathered
<1> DEFINE C == [page : Nat, section : Nat, lines : SUBSET Nat]
<1>a. clauses \in Seq(C) /\ new \in C
  BY <1>1, <1>3
<1> HIDE DEF C
<1>7. \A i \in DOMAIN clauses' :
         \/ i \in DOMAIN clauses /\ clauses'[i] = clauses[i]
         \/ long /\ i = Len(clauses) + 1 /\ clauses'[i] = new
  <2> HIDE DEF new
  <2>1. /\ Append(clauses, new) \in Seq(C) /\ Len(clauses) \in Nat
        /\ DOMAIN clauses = 1..Len(clauses) /\ DOMAIN Append(clauses, new) = 1..Len(clauses) + 1
        /\ \A i \in 1..Len(clauses) : Append(clauses, new)[i] = clauses[i]
        /\ Append(clauses, new)[Len(clauses) + 1] = new
    BY <1>a, AppendIndices
  <2>2. CASE long
    <3>1. clauses' = Append(clauses, new)
      BY <2>2, <1>0
    <3> QED
      BY <2>1, <2>2, <3>1
  <2>3. CASE ~long
    BY <2>1, <2>3, <1>0
  <2> QED
    BY <2>2, <2>3
<1>8. \A i \in DOMAIN clauses : i \in DOMAIN clauses' /\ clauses'[i] = clauses[i]
  <2> HIDE DEF new
  <2> QED
    BY <1>0, <1>a
<1>9. ClausesComeBefore'
  <2> SUFFICES ASSUME NEW i \in DOMAIN clauses'
               PROVE  /\ clauses'[i].page <= page /\ clauses'[i].page \in 1..Len(doc)
                      /\ clauses'[i].page = page =>
                            \A x \in clauses'[i].lines : x < line /\ \A y \in pending \ chunk : x < y
    BY <1>0, <1>1 DEF ClausesComeBefore
  <2>1. CASE i \in DOMAIN clauses /\ clauses'[i] = clauses[i]
    BY <2>1, <1>1 DEF IInv, ClausesComeBefore
  <2>2. CASE clauses'[i] = new
    <3>1. clauses'[i].page = page /\ clauses'[i].lines = chunk
      BY <2>2
    <3>2. page <= page
      BY <1>1
    <3>3. ASSUME NEW x \in chunk PROVE x < line /\ \A y \in pending \ chunk : x < y
      BY <3>3, <1>2, <1>3
    <3> QED
      BY <3>1, <3>2, <3>3, <1>1
  <2> QED
    BY <2>1, <2>2, <1>7
<1>10. ClausesAreSentences'
  <2>1. ASSUME long PROVE IsClause(new)
    BY <2>1, <1>3 DEF IsClause, long, R
  <2>2. ASSUME NEW i \in DOMAIN clauses PROVE Precedes(clauses[i], new)
    <3>1. clauses[i].page \in Nat /\ clauses[i].page <= page /\ (clauses[i].page = page =>
             \A x \in clauses[i].lines, y \in pending : x < y)
      BY ClauseType DEF IInv, ClausesComeBefore
    <3> QED
      BY <3>1, <1>1, <1>3 DEF Precedes
  <2>3. ASSUME NEW i \in DOMAIN clauses' PROVE IsClause(clauses'[i])
    <3> HIDE DEF new
    <3> QED
      BY <2>1, <1>7 DEF IInv, ClausesAreSentences
  <2>4. ASSUME NEW i \in DOMAIN clauses', NEW j \in DOMAIN clauses', i < j
        PROVE  Precedes(clauses'[i], clauses'[j])
    <3> HIDE DEF new
    <3>1. DOMAIN clauses = 1..Len(clauses) /\ Len(clauses) \in Nat
      BY <1>1
    <3>2. i \in DOMAIN clauses /\ clauses'[i] = clauses[i]
      BY <2>4, <3>1, <1>7
    <3> QED
      BY <2>2, <2>4, <3>2, <1>7 DEF IInv, ClausesAreSentences
  <2> QED
    BY <2>3, <2>4, <1>0 DEF ClausesAreSentences, IsClause, Precedes
<1>11. ReadIsKept'
  <2> SUFFICES ASSUME NEW p \in 1..Len(doc), NEW s \in 0..Len(doc[p]), NEW x \in Region(doc[p], s),
                      p < page \/ (p = page /\ x < line)
               PROVE  \/ Kept(p, x)'
                      \/ p = page /\ x \in pending \ chunk
                      \/ ~(TextLength(doc[p], Sentence(doc[p], Region(doc[p], s), x)) >= MinLength)
    BY <1>0, <1>1 DEF ReadIsKept
  <2>1. CASE Kept(p, x)
    BY <2>1, <1>8 DEF Kept
  <2>2. CASE p = page /\ x \in chunk
    <3>1. s = section
      BY <2>2, <1>1, <1>3, OneSection DEF R
    <3>2. Sentence(doc[p], Region(doc[p], s), x) = chunk
      BY <2>2, <3>1, <1>3 DEF R
    <3>3. ASSUME long PROVE Kept(p, x)'
      <4>1. Len(clauses) + 1 \in DOMAIN clauses' /\ clauses'[Len(clauses) + 1] = new
        <5> HIDE DEF new
        <5> QED
          BY <3>3, <1>0, <1>1
      <4> QED
        BY <4>1, <2>2 DEF Kept
    <3> QED
      BY <3>2, <3>3, <2>2 DEF long
  <2>3. CASE p = page /\ x \in pending \ chunk
    BY <2>3
  <2> QED
    BY <2>1, <2>2, <2>3, <1>1 DEF IInv, ReadIsKept
<1> QED
  BY <1>4, <1>5, <1>6, <1>9, <1>10, <1>11 DEF IInv

LEMMA Induction == Spec => []IInv
<1>1. IInv /\ [Next]_vars => IInv'
  <2>1. ASSUME IInv, UNCHANGED vars PROVE IInv'
    <3>1. /\ doc' = doc /\ page' = page /\ line' = line /\ section' = section
          /\ buffer' = buffer /\ pending' = pending /\ clauses' = clauses
      BY <2>1 DEF vars
    <3>2. TypeOK' /\ SectionIsLast' /\ TextIsGathered'
      BY <2>1, <3>1 DEF IInv, TypeOK, SectionIsLast, TextIsGathered, Gathered, AtFlush
    <3>3. ClausesComeBefore' /\ ClausesAreSentences'
      BY <2>1, <3>1 DEF IInv, ClausesComeBefore, ClausesAreSentences, IsClause, Precedes
    <3>4. ReadIsKept'
      BY <2>1, <3>1 DEF IInv, ReadIsKept, Kept
    <3> QED
      BY <3>2, <3>3, <3>4 DEF IInv
  <2> QED
    BY <2>1, ReadHeaderStep, ReadBodyStep, FlushStep, CutClauseStep, NextPageStep DEF Next
<1> QED
  BY <1>1, InvInit, PTL DEF Spec

\* Types, for any documents.
THEOREM TypesAreKept == Spec => []TypeOK
<1>1. IInv => TypeOK
  BY DEF IInv
<1> QED
  BY <1>1, Induction, PTL

\* Every clause is a whole sentence of its section, in the order of the text.
THEOREM ClausesAreTheSentences == Spec => []ClausesAreSentences
<1>1. IInv => ClausesAreSentences
  BY DEF IInv
<1> QED
  BY <1>1, Induction, PTL

\* Nothing long enough is missing from the pages done.
THEOREM AllTextIsKept == Spec => []NothingIsLost
<1>1. IInv => NothingIsLost
  <2> SUFFICES ASSUME IInv, NEW p \in 1..Len(doc), p < page, NEW s \in 0..Len(doc[p]),
                      NEW x \in Region(doc[p], s)
               PROVE  Kept(p, x) \/ ~(TextLength(doc[p], Sentence(doc[p], Region(doc[p], s), x)) >= MinLength)
    BY DEF NothingIsLost
  <2> QED
    BY DEF IInv, ReadIsKept, TypeOK
<1> QED
  BY <1>1, Induction, PTL

\* The sentences of a document that are long enough for a clause, each as the lines of its
\* page and the header it stands under.
LongSentences ==
    {c \in [page : 1..Len(doc), section : Nat, lines : SUBSET Nat] :
        /\ c.section \in 0..Len(doc[c.page])
        /\ LET R == Region(doc[c.page], c.section) IN
              \E x \in R : c.lines = Sentence(doc[c.page], R, x)
        /\ TextLength(doc[c.page], c.lines) >= MinLength}

\* When the document is done, its clauses are these sentences, each once.
SegmentedExactly ==
    page > Len(doc) =>
        /\ {clauses[i] : i \in DOMAIN clauses} = LongSentences
        /\ \A i, j \in DOMAIN clauses : clauses[i] = clauses[j] => i = j

\* Where a clause is from.
LEMMA ClauseIsPlaced ==
    ASSUME IInv, NEW i \in DOMAIN clauses
    PROVE  /\ clauses[i] \in [page : 1..Len(doc), section : Nat, lines : SUBSET Nat]
           /\ clauses[i].section \in 0..Len(doc[clauses[i].page])
<1> DEFINE C == [page : Nat, section : Nat, lines : SUBSET Nat]
<1>1. clauses \in Seq(C)
  BY DEF IInv, TypeOK
<1>2. clauses[i] \in C
  <2> HIDE DEF C
  <2> QED
    BY <1>1
<1>3. clauses[i].page \in 1..Len(doc)
  BY DEF IInv, ClausesComeBefore
<1>4. PICK x \in clauses[i].lines : x \in Region(doc[clauses[i].page], clauses[i].section)
  BY DEF IInv, ClausesAreSentences, IsClause
<1>5. /\ x \in 1..Len(doc[clauses[i].page]) /\ clauses[i].section < x /\ clauses[i].section \in Nat
  BY <1>2, <1>4 DEF Region, Under
<1>6. Len(doc[clauses[i].page]) \in Nat
  <2>1. doc[clauses[i].page] \in Seq(Line)
    BY <1>3 DEF IInv, TypeOK
  <2> QED
    BY <2>1
<1> QED
  BY <1>2, <1>3, <1>5, <1>6

LEMMA ClauseIsLongSentence ==
    ASSUME IInv, NEW i \in DOMAIN clauses
    PROVE  clauses[i] \in LongSentences
<1>1. IsClause(clauses[i])
  BY DEF IInv, ClausesAreSentences
<1>2. \E x \in Region(doc[clauses[i].page], clauses[i].section) :
          clauses[i].lines = Sentence(doc[clauses[i].page], Region(doc[clauses[i].page], clauses[i].section), x)
  BY <1>1 DEF IsClause
<1>3. TextLength(doc[clauses[i].page], clauses[i].lines) >= MinLength
  BY <1>1 DEF IsClause
<1> QED
  BY <1>2, <1>3, ClauseIsPlaced DEF LongSentences

\* A line of a long sentence is in a clause, which is of the same section, for a line
\* stands in one, and so is that sentence.
LEMMA LongSentenceIsClause ==
    ASSUME IInv, NothingIsLost, page > Len(doc), NEW c \in LongSentences
    PROVE  \E i \in DOMAIN clauses : clauses[i] = c
<1> DEFINE p == c.page
           s == c.section
           R == Region(doc[p], s)
<1>1. /\ c \in [page : 1..Len(doc), section : Nat, lines : SUBSET Nat]
      /\ p \in 1..Len(doc) /\ s \in 0..Len(doc[p])
      /\ TextLength(doc[p], c.lines) >= MinLength
  BY DEF LongSentences
<1>2. PICK x \in R : c.lines = Sentence(doc[p], R, x)
  BY DEF LongSentences
<1>3. p < page
  BY <1>1 DEF IInv, TypeOK
<1>4. Kept(p, x)
  BY <1>1, <1>2, <1>3 DEF NothingIsLost
<1>5. PICK i \in DOMAIN clauses : clauses[i].page = p /\ x \in clauses[i].lines
  BY <1>4 DEF Kept
<1>6. /\ x \in Region(doc[p], clauses[i].section)
      /\ clauses[i].lines = Sentence(doc[p], Region(doc[p], clauses[i].section), x)
  <2>1. IsClause(clauses[i])
    BY DEF IInv, ClausesAreSentences
  <2> QED
    BY <1>5, <2>1 DEF IsClause
<1>7. /\ clauses[i] \in [page : 1..Len(doc), section : Nat, lines : SUBSET Nat]
      /\ clauses[i].section \in 0..Len(doc[p])
  BY <1>5, ClauseIsPlaced
<1>8. clauses[i].section = s
  BY <1>1, <1>2, <1>6, <1>7, OneSection
<1>9. clauses[i].page = c.page /\ clauses[i].section = c.section /\ clauses[i].lines = c.lines
  BY <1>2, <1>5, <1>6, <1>8
<1> QED
  BY <1>1, <1>7, <1>9

\* Segmentation is exact: a document yields the sentences long enough for a clause, all of
\* them, each once and under its header, however its pages are made up (segmenter:57-109).
THEOREM SegmentationIsExact == Spec => []SegmentedExactly
<1>1. IInv /\ NothingIsLost => SegmentedExactly
  <2> SUFFICES ASSUME IInv, NothingIsLost, page > Len(doc)
               PROVE  /\ {clauses[i] : i \in DOMAIN clauses} = LongSentences
                      /\ \A i, j \in DOMAIN clauses : clauses[i] = clauses[j] => i = j
    BY DEF SegmentedExactly
  <2>1. {clauses[i] : i \in DOMAIN clauses} = LongSentences
    BY ClauseIsLongSentence, LongSentenceIsClause
  <2>2. ASSUME NEW i \in DOMAIN clauses, NEW j \in DOMAIN clauses, i < j PROVE clauses[i] # clauses[j]
    <3>1. Precedes(clauses[i], clauses[j])
      BY <2>2 DEF IInv, ClausesAreSentences
    <3>2. clauses[i].lines # {} /\ clauses[i].lines \subseteq Nat /\ clauses[i].page \in Nat
      <4>1. IsClause(clauses[i])
        BY DEF IInv, ClausesAreSentences
      <4> QED
        BY <4>1, ClauseIsPlaced DEF IsClause
    <3> QED
      BY <3>1, <3>2 DEF Precedes
  <2>3. DOMAIN clauses \subseteq Nat
    BY DEF IInv, TypeOK
  <2> QED
    BY <2>1, <2>2, <2>3
<1> QED
  BY <1>1, Induction, AllTextIsKept, PTL

\* A step goes on in the document, or takes the buffer to be cut, or cuts something off.
Advances ==
    \/ page' = page + 1
    \/ page' = page /\ line' = line + 1
    \/ page' = page /\ line' = line /\ buffer # {} /\ buffer' = {} /\ pending = {} /\ pending' = buffer
    \/ page' = page /\ line' = line /\ buffer' = buffer /\ pending' \subseteq pending /\ pending' # pending

\* The places a document has, and the lines that a cut may have before it.
WithinDocument ==
    /\ page \in 1..Len(doc) + 1
    /\ page <= Len(doc) => line \in 1..Len(doc[page]) + 1
    /\ IsFiniteSet(buffer \cup pending)

\* What is collected on a page is among its lines.
LEMMA PlacesAreBounded == IInv => WithinDocument
<1> SUFFICES ASSUME IInv PROVE WithinDocument
  OBVIOUS
<1>1. page \in 1..Len(doc) + 1 /\ (page <= Len(doc) => line \in 1..Len(doc[page]) + 1)
  <2>1. page <= Len(doc) => Len(doc[page]) \in Nat
    <3>1. page <= Len(doc) => doc[page] \in Seq(Line)
      BY DEF IInv, TypeOK
    <3> QED
      BY <3>1
  <2> QED
    BY <2>1 DEF IInv, TypeOK, SectionIsLast
<1>2. IsFiniteSet(buffer \cup pending)
  <2>1. CASE page > Len(doc)
    <3>1. buffer \cup pending = {}
      BY <2>1 DEF IInv, TextIsGathered
    <3> QED
      BY <3>1, FS_EmptySet
  <2>2. CASE page <= Len(doc)
    <3>1. buffer \subseteq Gathered /\ pending \subseteq Gathered
      BY <2>2 DEF IInv, TextIsGathered, IsTail
    <3>2. buffer \cup pending \subseteq 1..Len(doc[page])
      BY <3>1 DEF Gathered, Region
    <3>3. 1 \in Int /\ Len(doc[page]) \in Int
      BY <2>2, <1>1 DEF IInv, TypeOK
    <3>4. IsFiniteSet(1..Len(doc[page]))
      BY <3>3, FS_Interval, Zenon
    <3> QED
      BY <3>2, <3>4, FS_Subset
  <2> QED
    BY <2>1, <2>2 DEF IInv, TypeOK
<1> QED
  BY <1>1, <1>2 DEF WithinDocument

\* The segmenter never goes back and never stands still: each page and line is looked at
\* once, each buffer flushed once, and every cut takes something off, so that the loops of
\* flush_buffer and of the pages end (segmenter:57-109).
THEOREM SegmenterAdvances == Spec => []WithinDocument /\ [][Advances]_vars
<1>1. IInv /\ [Next]_vars => Advances \/ UNCHANGED vars
  <2> SUFFICES ASSUME IInv, Next PROVE Advances
    OBVIOUS
  <2>1. CASE CutClause
    <3>1. pending # {} /\ page' = page /\ line' = line /\ buffer' = buffer
          /\ pending' = pending \ FirstChunk(doc[page], pending)
      BY <2>1 DEF CutClause
    <3>2. FirstChunk(doc[page], pending) # {} /\ FirstChunk(doc[page], pending) \subseteq pending
      <4>1. page <= Len(doc)
        <5>1. ~(page > Len(doc))
          BY <3>1 DEF IInv, TextIsGathered
        <5>2. page \in Nat /\ Len(doc) \in Nat
          BY DEF IInv, TypeOK
        <5> QED
          BY <5>1, <5>2
      <4>2. IsTail(doc[page], pending, Gathered) /\ Gathered \subseteq Nat
        BY <3>1, <4>1 DEF IInv, TextIsGathered, Gathered, Region
      <4> QED
        BY <3>1, <4>2, ChunkIsSentence
    <3> QED
      BY <3>1, <3>2 DEF Advances
  <2>2. CASE ReadHeader \/ ReadBody
    BY <2>2 DEF ReadHeader, ReadBody, Advances
  <2>3. CASE Flush
    BY <2>3 DEF Flush, AtEndOfPage, AtLine, Advances
  <2>4. CASE NextPage
    BY <2>4 DEF NextPage, Advances
  <2> QED
    BY <2>1, <2>2, <2>3, <2>4 DEF Next
<1> QED
  BY <1>1, Induction, PlacesAreBounded, PTL DEF Spec
====
