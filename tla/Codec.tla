------------------------------- MODULE Codec -------------------------------
(***************************************************************************)
(* The conversions of websocket/do_string.h and                            *)
(* webserver/urlencode_urldecode.cpp.  A character is its code; the base64 *)
(* alphabet is 0..63, and Pad is the equals sign.                          *)
(***************************************************************************)
EXTENDS Integers, Sequences, SequencesExt, FiniteSets, FiniteSetsExt

Byte == 0..255
Pad == 64

-----------------------------------------------------------------------------
(* base64                                                                  *)

Groups(n, size) == (n + size - 1) \div size
OrZero(s, i) == IF i <= Len(s) THEN s[i] ELSE 0

\* char_array_4 of three bytes
Quad(a, b, c) ==
    <<a \div 4, (a % 4) * 16 + b \div 16, (b % 16) * 4 + c \div 64, c % 64>>

\* base64_encode: the last group gives one character more than it has bytes, and
\* is filled up.
Base64Encode(s) ==
    LET g     == Groups(Len(s), 3)
        chars == FlattenSeq([i \in 1..g |-> Quad(OrZero(s, 3 * i - 2), OrZero(s, 3 * i - 1), OrZero(s, 3 * i))])
        kept  == IF Len(s) % 3 = 0 THEN 4 * g ELSE 4 * (g - 1) + (Len(s) % 3) + 1
    IN  [i \in 1..4 * g |-> IF i <= kept THEN chars[i] ELSE Pad]

\* char_array_3 of four characters
Triple(a, b, c, d) ==
    <<(a * 4 + (b % 64) \div 16) % 256, ((b % 16) * 16 + (c % 64) \div 4) % 256, ((c % 4) * 64 + d) % 256>>

\* base64_decode: up to the first sign that is none; find gives npos, which is
\* 255 in a byte, for what is missing in the last group.
Base64Decode(t) ==
    LET n    == Min({i \in 1..Len(t) : t[i] = Pad} \cup {Len(t) + 1}) - 1
        c(i) == IF i <= n THEN t[i] ELSE 255
        all  == FlattenSeq([g \in 1..Groups(n, 4) |->
                               Triple(c(4 * g - 3), c(4 * g - 2), c(4 * g - 1), c(4 * g))])
    IN  SubSeq(all, 1, IF n % 4 = 0 THEN 3 * (n \div 4) ELSE 3 * (n \div 4) + (n % 4) - 1)

-----------------------------------------------------------------------------
(* Percent encoding.                                                       *)

Space == 32
Plus == 43
Percent == 37

\* isalnum, and - _ . ~
Unreserved == 48..57 \cup 65..90 \cup 97..122 \cup {45, 95, 46, 126}

ToHex(x) == IF x > 9 THEN x + 55 ELSE x + 48

FromHex(x) ==
    CASE x \in 65..90  -> x - 65 + 10
      [] x \in 97..122 -> x - 97 + 10
      [] x \in 48..57  -> x - 48

\* Mutant: the plus sign is taken for one that need not be encoded.
UrlEncode_Plus(s) ==
    FlattenSeq([i \in 1..Len(s) |->
        IF s[i] \in Unreserved \cup {Plus} THEN <<s[i]>>
        ELSE IF s[i] = Space THEN <<Plus>>
        ELSE <<Percent, ToHex(s[i] \div 16), ToHex(s[i] % 16)>>])

UrlEncode(s) ==
    FlattenSeq([i \in 1..Len(s) |->
        IF s[i] \in Unreserved THEN <<s[i]>>
        ELSE IF s[i] = Space THEN <<Plus>>
        ELSE <<Percent, ToHex(s[i] \div 16), ToHex(s[i] % 16)>>])

\* UrlDecode, from position i on.
RECURSIVE UrlDecodeFrom(_, _)
UrlDecodeFrom(s, i) ==
    IF i > Len(s) THEN <<>>
    ELSE IF s[i] = Percent
         THEN <<FromHex(s[i + 1]) * 16 + FromHex(s[i + 2])>> \o UrlDecodeFrom(s, i + 3)
    ELSE <<IF s[i] = Plus THEN Space ELSE s[i]>> \o UrlDecodeFrom(s, i + 1)

UrlDecode(s) == UrlDecodeFrom(s, 1)

-----------------------------------------------------------------------------
(* split, at a delimiter of one character.                                 *)

\* The delimiter is put behind the text, so that the last piece ends too.
Split(s, d) ==
    IF s = <<>> THEN <<>>
    ELSE LET ext  == Append(s, d)
             cuts == SetToSortSeq({i \in 1..Len(ext) : ext[i] = d}, <)
         IN  [j \in 1..Len(cuts) |->
                 SubSeq(ext, IF j = 1 THEN 1 ELSE cuts[j - 1] + 1, cuts[j] - 1)]
=============================================================================
