--------------------------- MODULE MC_MerkleTree ---------------------------
(* Model-checking instance of MerkleTree and HashHex: two raw payloads    *)
(* and one pre-computed digest as model values; two-byte digests and a    *)
(* char set holding every hex digit and the codes next to each range.     *)
EXTENDS MerkleTree, HashHex

CONSTANTS d1, d2, h1

MCData    == {d1, d2}
MCDigests == {h1}

\* '/' '0' '9' ':' '@' 'A' 'F' 'G' '`' 'a' 'f' 'g'
MCChars    == {47, 48, 57, 58, 64, 65, 70, 71, 96, 97, 102, 103}
MCTextLens == {0, 3, 4}

\* get_ref reads back exactly what set_ref stored, for every two-byte
\* digest, and the schema's '' reads as zero (HashHex!RefRoundTrip).
ASSUME RefRoundTrip

\* from_hex accepts exactly the texts of hex digits of the right length,
\* in either case, and decodes them as the reference decoder does.
ASSUME FromHexMatchesReference
=============================================================================
