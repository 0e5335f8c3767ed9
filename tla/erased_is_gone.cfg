\* An erased item lives on in the rolling summary.
SPECIFICATION Spec
CHECK_DEADLOCK FALSE
CONSTANTS
  Ingestors = {i1, i2}
  Documents = {1}
  Tenants = {t1, t2}
  Acls = {"public", "staff"}
  Terms = {"x", "y"}
  Contents <- MCContents
  BatchSize = 1
  MaxTopK = 1
  Vocabulary = {v, w}
  Texts <- MCTexts
  Sessions = {"s1", "s2"}
  Saliences = {1, 2}
  Ttl = 1
  Window = 2
  SummarizeAfter = 2
  MaxProse = 2
  MaxItems = 2
  Limit = 1
  MaxTime = 2
  MaxWrites = 4
PROPERTY ErasedIsGone
