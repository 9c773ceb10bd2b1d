\* Every leaf sequence of up to five leaves, raw or pre-computed; the hex
\* codec's ASSUMEs over every two-byte digest and every text of the char set.
CONSTANTS
    d1 = d1
    d2 = d2
    h1 = h1
    Data <- MCData
    Digests <- MCDigests
    MaxLeaves = 5
    HashSize = 2
    Chars <- MCChars
    TextLens <- MCTextLens
SPECIFICATION Spec
INVARIANTS
    TypeOK
    RootMatchesReference
    ReferenceProofsVerify
\* A built tree accepts no further leaves: the builder legitimately stops.
CHECK_DEADLOCK FALSE
