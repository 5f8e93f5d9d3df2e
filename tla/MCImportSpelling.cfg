\* The same registry environment by two references.
CONSTANTS
  r1 = r1
  r2 = r2
  r3 = r3
  uri = uri
  fullId = fullId
  imageUri = imageUri
  built = built
  image = image
  target = target
  small = small
  large = large
  NoHash = NoHash
  Runs = {r1, r2}
  Reference <- TwoSpellings
  FullIds = {fullId}
  SourceOf <- Named
  TargetOf <- OneTarget
  ImageSources = {image}
  Paths = {1, 2}
  Dockerfile = 1
  Contents = {small, large}
  SizeOf <- Lengths
  MaxFiles = 2
  MaxFileSize = 2
  MaxTotal = 3
  MaxWrites = 0
SPECIFICATION Spec
INVARIANTS
  CollidesWithAnotherSource
\* Every import ends.
CHECK_DEADLOCK FALSE
