SPECIFICATION Spec
CONSTANTS
    Paragraphs <- MCParagraphs
    ChunkSize = 4
    ChunkOverlap = 1
    MaxParagraphs = 4
INVARIANTS
    ChunksTileText
    LargeChunksAreWhole
CHECK_DEADLOCK FALSE
