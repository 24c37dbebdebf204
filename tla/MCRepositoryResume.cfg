CONSTANTS
    d1 = d1
    d2 = d2
    r1 = r1
    r2 = r2
    name = name
    short = short
    m1 = m1
    m2 = m2
    shared = shared
    p1 = p1
    p2 = p2
    None = None
    Digests = {d1, d2}
    Refs = {r1}
    Names = {name}
    Blobs = {m1, m2, shared}
    Metadata <- TwoManifests
    Layer <- NoLayer
    NameOf <- OneName
    ShortOf <- NoShortName
    Procs = {p1, p2}
    Equivalents <- NoEquivalents
    MaxFaults = 1
    MaxLeases = 0
SPECIFICATION Spec
SYMMETRY Symmetry
INVARIANT CollectionResumable
