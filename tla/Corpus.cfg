SPECIFICATION Spec
CONSTANTS
    s1 = s1
    s2 = s2
    any = any
    deeper = deeper
    msa = msa
    sow = sow
    long = long
    Unreadable = Unreadable
    None = None
    Names <- MCNames
    ExtensionOf <- MCExtensionOf
    SafeName <- MCSafeName
    Contents = {msa, sow, long}
    DataOf <- MCDataOf
    MaxSize = 10
    MaxEntries = 2
    MaxEntrySize = 40
    MaxRatio = 6
    MaxPages = 2
    MaxChars = 100
    TopicWeight = 18
    EntityWeight = 15
    DateWeight = 9
    TfidfWeight = 18
    Threshold = 21
    Sessions = {s1, s2, any, deeper}
    Plain = {s1, s2}
    Matches <- MCMatches
    DocumentIn <- MCDocumentIn
    Jobs <- MCJobs
    Queries <- MCQueries
    Similarities = {0, 60}
    Spans <- MCSpans
    MaxSpans = 2
    MaxUploads = 2
    Requests = {r1}
    TopK = 2
INVARIANTS
    TypeOK
    AccessIsEarned
    SelectionIsExact
    AnswersAreGrounded
    TopicMatchesRetrieved
