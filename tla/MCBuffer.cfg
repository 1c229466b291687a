CONSTANTS
    Prepend <- MCPrepend
    Initial <- MCInitial
    Extra <- MCExtra
    MaxBytes <- MCMaxBytes
    MaxChunk <- MCMaxChunk

SPECIFICATION Spec
INVARIANT TypeOK
INVARIANT RoundTrip
