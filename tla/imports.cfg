SPECIFICATION ImportSpec
CONSTANTS
    MaxDate = 1
    RawFiles = {a1, a2}
    LegacyFiles = {l1}
    HotFiles = {h1}
    DateOf <- MCDateOf
    Unparsable = {}
    Runs = {r1, r2}
    Pool = 2
    MaxListed = 3
    MaxKills = 1
    NoFile = NoFile
    NoRun = NoRun
SYMMETRY Symmetry
INVARIANTS
    
    NamesOwn
    
PROPERTIES
    ReadableKept
