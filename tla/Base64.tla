-------------------------------- MODULE Base64 --------------------------------
(***************************************************************************)
(* utility/include/utility/encoding/base64.hpp: how files go into a        *)
(* machine (write_file) and how the output of a command comes out of it    *)
(* (shell_exec).  Bytes and characters are their codes.  The loops of the  *)
(* code are sequences indexed by the group they work on; shifts, masks and *)
(* disjunctions of disjoint bits are quotients, remainders and sums.       *)
(***************************************************************************)
EXTENDS Naturals, Sequences, FiniteSets, SequencesExt

-----------------------------------------------------------------------------
(* The tables.                                                             *)

pad_char == 61

\* A-Z, a-z, 0-9, + and /, by their codes.
alphabet ==
    [g \in 0 .. 63 |->
        CASE g < 26 -> 65 + g
          [] g \in 26 .. 51 -> 97 + (g - 26)
          [] g \in 52 .. 61 -> 48 + (g - 52)
          [] g = 62 -> 43
          [] g = 63 -> 47]

invalid_char == 255

decode_table ==
    [c \in 0 .. 255 |->
        CASE c = 43 -> 62
          [] c = 47 -> 63
          [] c \in 48 .. 57 -> 52 + (c - 48)
          [] c \in 65 .. 90 -> c - 65
          [] c \in 97 .. 122 -> 26 + (c - 97)
          [] OTHER -> invalid_char]

\* By the number of bytes in the rest.
pad_chars == <<<<pad_char, pad_char>>, <<pad_char>>>>

-----------------------------------------------------------------------------
(* base64_encode.                                                          *)

calc_encoded_length(length) == 4 * ((length + 2) \div 3)

\* The characters of the first n of the four 6-bit groups in bx.
Groups(bx, n) ==
    [k \in 1 .. n |-> alphabet[(bx \div <<262144, 4096, 64, 1>>[k]) % 64]]

\* Three bytes, missing ones being 0.
Joined(s) ==
    LET b(k) == IF k <= Len(s) THEN s[k] ELSE 0
    IN  b(1) * 65536 + b(2) * 256 + b(3)

base64_encode(s) ==
    LET full == Len(s) \div 3
        rest == SubSeq(s, 3 * full + 1, Len(s))
        triple(i) == SubSeq(s, 3 * i - 2, 3 * i)
    IN  FlattenSeq([i \in 1 .. full |-> Groups(Joined(triple(i)), 4)])
        \o (IF rest = <<>> THEN <<>>
            ELSE Groups(Joined(rest), Len(rest) + 1) \o pad_chars[Len(rest)])

-----------------------------------------------------------------------------
(* calc_decoded_length and base64_decode.                                  *)

Pads(s) == {i \in 1 .. Len(s) : s[i] = pad_char}

pad_length(s) == Cardinality(Pads(s))

\* Mutant: characters after the padding are let through.
calc_throws_lax(s) ==
    \/ Len(s) % 4 # 0
    \/ \E i \in 1 .. Len(s) : i \notin Pads(s) /\ decode_table[s[i]] = invalid_char
    \/ pad_length(s) > 2

\* calc_decoded_length throws: a length that is no multiple of four, an
\* invalid character, junk after the padding, or too much padding.
calc_throws(s) ==
    \/ Len(s) % 4 # 0
    \/ \E i \in 1 .. Len(s) :
        /\ i \notin Pads(s)
        /\ decode_table[s[i]] = invalid_char \/ \E j \in Pads(s) : j < i
    \/ pad_length(s) > 2

decoded_length(s) == (Len(s) \div 4) * 3 - pad_length(s)

\* The bytes of up to four characters.
Bytes(s) ==
    LET g(k) == IF k <= Len(s) THEN decode_table[s[k]] ELSE 0
        bx == g(1) * 262144 + g(2) * 4096 + g(3) * 64 + g(4)
    IN  SubSeq(<<bx \div 65536, (bx \div 256) % 256, bx % 256>>, 1, Len(s) - 1)

\* What base64_decode leaves behind its loop.
remaining(s) == (Len(s) - pad_length(s)) % 4

\* For inputs that calc_decoded_length lets pass.
base64_decode(s) ==
    LET length == Len(s) - pad_length(s)
        full == length \div 4
        rest == SubSeq(s, 4 * full + 1, length)
        quad(i) == SubSeq(s, 4 * i - 3, 4 * i)
    IN  FlattenSeq([i \in 1 .. full |-> Bytes(quad(i))])
        \o (IF rest = <<>> THEN <<>> ELSE Bytes(rest))

=============================================================================
