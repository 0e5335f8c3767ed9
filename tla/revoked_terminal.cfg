\* An erased version comes back into service or leaves its revoked status.
CONSTANTS
    own = own
    shared = shared
    t1 = t1
    t2 = t2
    Adapters = {own}
    Versions = {1, 2}
    Weights = {w1, w2}
    Documents = {d1}
    Tenants = {t1}
    Global = Global
    ScopeOf <- MCScopeOf
    NoRow = NoRow
    NoTenant = NoTenant
    HotAdapters = 1
    NoBlob = NoBlob
    Damaged = Damaged
SPECIFICATION Spec
PROPERTIES RevokedIsTerminal
