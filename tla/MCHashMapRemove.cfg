\* Callers that remove anything.
SPECIFICATION Spec
CONSTANTS
  Keys = {"j", "k"}
  Datas = {"x", "y"}
  Elements = {e1, e2, e3}
  TableSizes = {2}
  HashValues = {2, 3}
  NULL = NULL
  RemovesAnything = TRUE
SYMMETRY Symmetric
PROPERTY RemovesWhatIsAsked
