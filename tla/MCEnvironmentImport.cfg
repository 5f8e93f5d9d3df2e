\* Two imports of one build context and one of an image of the same name.
CONSTANTS
  r1 = r1
  r2 = r2
  r3 = r3
  uri = uri
  fullId = fullId
  imageUri = imageUri
  built = built
  image = image
  target = target
  small = small
  large = large
  NoHash = NoHash
  Runs = {r1, r2, r3}
  Reference <- Colliding
  FullIds = {fullId}
  SourceOf <- Named
  TargetOf <- OneTarget
  ImageSources = {image}
  Paths = {1, 2}
  Dockerfile = 1
  Contents = {small, large}
  SizeOf <- Lengths
  MaxFiles = 2
  MaxFileSize = 2
  MaxTotal = 3
  MaxWrites = 1
SPECIFICATION FairSpec
INVARIANTS
  TypeOK
  ImportsWhatItListed
  ImportsItsOwnSource
  DownloadBounded
PROPERTIES
  EveryImportEnds
  KeepsContract
\* Every import ends.
CHECK_DEADLOCK FALSE
