\* An end right after a start, or after a refused header.
SPECIFICATION Spec
CONSTANTS
  Images = {"block"}
  ImageLen <- Lens
  Block = 2
  Sector = 4
  Area = 12
  MaxBin = 12
  MaxPack = 3
INVARIANT OkMeansImage
