CONSTANTS
    Alphabet <- MCAlphabet
    Markers <- MCMarkers
    Capacity <- MCCapacity
    MaxLen <- MCMaxLen
    MaxChunk <- MCMaxChunk
    Convert <- ChunkText
SPECIFICATION Spec
INVARIANTS MarkerSeenWhenPrinted
CHECK_DEADLOCK FALSE
