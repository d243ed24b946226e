CONSTANTS
    Alphabet <- MCAlphabet
    Markers <- MCMarkers
    Capacity <- MCCapacity
    MaxLen <- MCMaxLen
    MaxChunk <- MCMaxChunk
    Convert <- ChunkText
SPECIFICATION Spec
INVARIANTS NoFalseMatch
CHECK_DEADLOCK FALSE
