CONSTANTS
    Prepend <- MCPrepend
    Initial <- MCInitial
    Extra <- MCExtra
    MaxBytes <- MCMaxBytes
    MaxChunk <- MCMaxChunk

SPECIFICATION DrainSpec
INVARIANT RoundTrip
