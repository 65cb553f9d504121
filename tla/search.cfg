SPECIFICATION Spec
CONSTANTS
    a1 = a1
    a2 = a2
    l1 = l1
    h1 = h1
    MaxDate = 1
    RawFiles = {a1, a2}
    LegacyFiles = {l1}
    HotFiles = {h1}
    DateOf <- MCDateOf
    Unparsable = {a2}
    Runs = {r1}
    Pool = 2
    MaxListed = 2
    MaxKills = 1
    NoFile = NoFile
    NoRun = NoRun
    Requests = {q1}
    MaxRequests = 1
    Protocols <- MCProtocols
    NoName = NoName
INVARIANTS
    
    AnswersNamed
    TotalFits
    FilterTrue
