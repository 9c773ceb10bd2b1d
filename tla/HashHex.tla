------------------------------- MODULE HashHex -------------------------------
(***************************************************************************)
(* The hex codec of core/hash.c and how the commit store uses it for refs  *)
(* (storage/database.c).  Every digest the store keeps in a TEXT column    *)
(* passes through scribe_hash_to_hex on the way in and                     *)
(* scribe_hash_from_hex on the way out; the other modules keep digests     *)
(* abstract, which is sound only if that round trip is the identity.       *)
(*                                                                         *)
(* Digests are sequences of HashSize bytes and texts sequences of char     *)
(* codes (ASCII), so the nibble arithmetic of the code is kept.            *)
(***************************************************************************)
EXTENDS Naturals, Sequences, SequencesExt, Bitwise

CONSTANTS
    HashSize,   \* SCRIBE_HASH_SIZE (32); a smaller width in the model
    Chars,      \* char codes the texts of the check are drawn from
    TextLens    \* lengths of the texts of the check

Byte == 0..255

Hashes == [1..HashSize -> Byte]

ZeroHash == [i \in 1..HashSize |-> 0]

\* hex_chars[] = "0123456789abcdef"
HexChars == <<48, 49, 50, 51, 52, 53, 54, 55, 56, 57,
              97, 98, 99, 100, 101, 102>>

\* scribe_hash_to_hex: two lower-case hex chars per byte, high nibble first.
ToHex(h) ==
    FlattenSeq([i \in 1..Len(h) |->
                  <<HexChars[(shiftR(h[i], 4) & 15) + 1], HexChars[(h[i] & 15) + 1]>>])

\* isxdigit() in the C locale.
IsXDigit(c) == c \in (48..57) \cup (65..70) \cup (97..102)

\* (c >= 'a') ? c - 'a' + 10 : (c >= 'A') ? c - 'A' + 10 : c - '0'
DigitVal(c) ==
    IF c >= 97 THEN c - 97 + 10 ELSE IF c >= 65 THEN c - 65 + 10 ELSE c - 48

\* scribe_hash_from_hex(hex, out): a text of the wrong length is rejected
\* untouched; otherwise bytes are decoded in order and the first pair with
\* a non-hex char returns SCRIBE_ERR_INVALID_ARG, the bytes before it
\* already written into out and the rest left as they were.
FromHex(s, out) ==
    IF Len(s) # 2 * HashSize THEN [ok |-> FALSE, out |-> out]
    ELSE LET bad  == {i \in 1..HashSize : ~IsXDigit(s[2 * i - 1]) \/ ~IsXDigit(s[2 * i])}
             stop == IF bad = {} THEN HashSize + 1 ELSE Min(bad)
         IN  [ok  |-> bad = {},
              out |-> [i \in 1..HashSize |->
                         IF i < stop
                         THEN ((DigitVal(s[2 * i - 1]) * 16) | DigitVal(s[2 * i])) % 256
                         ELSE out[i]]]

\* scribe_db_set_ref: the hash column is bound to scribe_hash_to_hex(hash).
SetRefText(h) == ToHex(h)

\* scribe_db_get_ref, once the row is found: a text of 64 chars goes
\* through scribe_hash_from_hex into the caller's buffer (its result is not
\* looked at), any other text reads as the zero hash; SCRIBE_OK either way.
GetRef(text, out) ==
    IF Len(text) = 2 * HashSize THEN FromHex(text, out).out ELSE ZeroHash

(***************************************************************************)
(* Reference definitions and the codec's laws.  Both laws are constant    *)
(* formulas: MC_MerkleTree states them as ASSUMEs, which TLC evaluates     *)
(* over the whole bounded domain before any run of that module.           *)
(***************************************************************************)
Texts == UNION {[1..n -> Chars] : n \in TextLens}

Lower(c) == IF c \in 65..90 THEN c + 32 ELSE c

\* The value of a hex digit is its position in the digit alphabet.
RefDigit(c) == CHOOSE k \in 0..15 : HexChars[k + 1] = Lower(c)

RefAccepts(s) ==
    /\ Len(s) = 2 * HashSize
    /\ \A i \in 1..Len(s) : Lower(s[i]) \in Range(HexChars)

RefDecode(s) == [i \in 1..HashSize |-> 16 * RefDigit(s[2 * i - 1]) + RefDigit(s[2 * i])]

\* What scribe_db_set_ref stores for HEAD, scribe_db_get_ref reads back
\* exactly, whatever the caller's buffer held, and the schema's initial ''
\* reads as the zero hash (an empty repository).  This is what lets the
\* other modules keep HEAD and parent links as abstract digests.
RefRoundTrip ==
    /\ \A h \in Hashes : GetRef(SetRefText(h), ZeroHash) = h
    /\ GetRef(<<>>, ZeroHash) = ZeroHash

\* scribe_hash_from_hex, as used on a COMMIT argument (cmd_verify, cmd_log),
\* accepts exactly the texts of 2*HashSize hex digits in either case and
\* decodes them to the digest they spell.
FromHexMatchesReference ==
    \A s \in Texts :
        /\ FromHex(s, ZeroHash).ok = RefAccepts(s)
        /\ RefAccepts(s) => FromHex(s, ZeroHash).out = RefDecode(s)

=============================================================================
