SPECIFICATION Spec
CONSTANTS
  Inputs <- SomeInputs
  Sizes <- ThreeSizes
  MaxLength = 6
INVARIANTS
  EveryTokenIsChunked
  EveryChunkAdds
  SizeIsBounded
  SectionOpensChunk
CHECK_DEADLOCK FALSE
