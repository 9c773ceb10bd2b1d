\* Proofs produced by scribe_merkle_proof_create.
CONSTANTS
    d1 = d1
    d2 = d2
    h1 = h1
    Data <- MCData
    Digests <- MCDigests
    HashSize = 1
    Chars <- MCChars
    TextLens <- MCTextLens
    MaxLeaves = 3
SPECIFICATION Spec
INVARIANT
    CreatedProofsVerify
\* A built tree accepts no further leaves: the builder legitimately stops.
CHECK_DEADLOCK FALSE
