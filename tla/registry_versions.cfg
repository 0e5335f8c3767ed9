\* Two versions of one tenant's adapter compete for service and for the one slot
\* of a cache configured to hold nothing, under the loads of two tenants.
CONSTANTS
    own = own
    shared = shared
    t1 = t1
    t2 = t2
    Adapters = {own}
    Versions = {1, 2}
    Weights = {w1, w2}
    Documents = {d1, d2}
    Tenants = {t1, t2}
    Global = Global
    ScopeOf <- MCScopeOf
    NoRow = NoRow
    NoTenant = NoTenant
    HotAdapters = 0
    NoBlob = NoBlob
    Damaged = Damaged
SPECIFICATION Spec
SYMMETRY MCSymmetry
INVARIANTS TypeOK SnapshotAgrees OneActiveVersion ResidencyCoherent
PROPERTIES ErasureIsImmediate ColdLoadServes ImplementsCatalog
