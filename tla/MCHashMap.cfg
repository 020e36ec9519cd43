\* Callers that remove what they put.
SPECIFICATION Spec
CONSTANTS
  Keys = {"j", "k"}
  Datas = {"x", "y"}
  Elements = {e1, e2, e3}
  TableSizes = {0, 2}
  HashValues = {2, 3}
  NULL = NULL
  RemovesAnything = FALSE
SYMMETRY Symmetric
INVARIANTS WellLinked TraversalExact
PROPERTY ImplementsMultiMap
