\* Upgrades one after the other, with damaged packs and power failures; the caller goes
\* on feeding.
SPECIFICATION FairSpec
CONSTANTS
  Images = {"long", "even", "block", "short", "huge"}
  ImageLen <- Lens
  Block = 2
  Sector = 4
  Area = 12
  MaxBin = 12
  MaxPack = 5
INVARIANTS HeaderMeansWhole ProgramsErased OkMeansInstalled UndamagedVerifies
PROPERTY ReceptionEnds
