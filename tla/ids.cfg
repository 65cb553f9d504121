SPECIFICATION Spec
CONSTANTS
    Ips = {a1, a2, a3}
    NoIp = NoIp
    Processors = {p}
    Importers = {i}
    LegacyImporters = {l}
    Webs = {w}
    HotTopN = 1
    MaxCache = 2
    MaxPending = 2
    MaxUses = 3
    MaxLives = 3
    Names = {x, y}
SYMMETRY Symmetry
INVARIANTS
    IdsIInv
    HitsAccounted
PROPERTIES
    IpIdsSpec
    NameIdsSpec
