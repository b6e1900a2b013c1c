---------------------------- MODULE TextFunctions ----------------------------
(***************************************************************************)
(* The pure functions of Base64, Strings and Streams against their         *)
(* definitions.  The state is the input alone: a run looks at every input  *)
(* up to a bound, bytes for the encoder, characters for the decoder, texts *)
(* that the properties cut in two or three to get several arguments,       *)
(* sequences of calls of a stream, and what streams of lines hold.         *)
(***************************************************************************)
EXTENDS Base64, Strings, Streams

CONSTANTS
    Byte,           \* the bytes inputs of the encoder are made of
    Char,           \* the characters inputs of the decoder are made of
    Letter,         \* the characters texts are made of
    Call,           \* the calls of a stream: tell, read n > 0, or seek n < 0
    MaxLength       \* MaxLength[k]: bound on inputs of kind k

Kind == {"bytes", "chars", "text", "calls", "lines"}

LineChar == {cr, lf, 97}

ASSUME TextAssumption ==
    /\ Byte \subseteq 0 .. 255 /\ Char \subseteq 0 .. 255
    /\ Letter \subseteq 0 .. 127 /\ Call \subseteq Int
    /\ MaxLength \in [Kind -> Nat]

VARIABLES
    kind,           \* what input is
    input

vars == <<kind, input>>

Init == kind \in Kind /\ input = <<>>

Symbol ==
    [bytes |-> Byte, chars |-> Char, text |-> Letter, calls |-> Call,
     lines |-> LineChar][kind]

extend(c) ==
    /\ Len(input) < MaxLength[kind]
    /\ input' = Append(input, c)
    /\ UNCHANGED kind

\* There is no longer input to look at.
longest == Len(input) = MaxLength[kind] /\ UNCHANGED vars

Next == (\E c \in Symbol : extend(c)) \/ longest

Spec == Init /\ [][Next]_vars

-----------------------------------------------------------------------------
(* Base64.  The reference is the definition of the encoding: the bits of   *)
(* the bytes in one row, cut into groups of six.                           *)

\* Bit k, from 1, of the row of the bits of s; 0 behind its end.
BitAt(s, k) ==
    IF k > 8 * Len(s) THEN 0
    ELSE (s[((k - 1) \div 8) + 1] \div <<128, 64, 32, 16, 8, 4, 2, 1>>[((k - 1) % 8) + 1]) % 2

SixBits(s, j) ==
    LET b(i) == BitAt(s, 6 * (j - 1) + i)
    IN  32 * b(1) + 16 * b(2) + 8 * b(3) + 4 * b(4) + 2 * b(5) + b(6)

Reference(s) ==
    LET used == (8 * Len(s) + 5) \div 6
    IN  [j \in 1 .. calc_encoded_length(Len(s)) |->
            IF j <= used THEN alphabet[SixBits(s, j)] ELSE pad_char]

\* The strings of the encoding: up to the unused bits of its last character,
\* the reference of some bytes.
WellFormed(s) ==
    /\ Len(s) % 4 = 0
    /\ \E p \in 0 .. 2 :
        /\ p > 0 => Len(s) > 0
        /\ \A i \in 1 .. Len(s) :
            IF i > Len(s) - p THEN s[i] = pad_char
            ELSE \E g \in 0 .. 63 : alphabet[g] = s[i]

\* base64_encode computes the reference, whatever the length modulo three, and
\* the length its caller reserved for it, and what write_file encodes for the
\* guest agent a decoder gets back.  The output of a command is decoded
\* exactly if it is well-formed; nothing else passes calc_decoded_length, and
\* nothing that passes reaches the std::unreachable behind the loop of
\* base64_decode.  What is decoded has the length that was computed for it,
\* and encodes to the input again but for the bits of its last character that
\* carry nothing.
Base64Reference ==
    /\ kind = "bytes" =>
        LET e == base64_encode(input)
        IN  /\ e = Reference(input)
            /\ ~calc_throws(e) /\ base64_decode(e) = input
    /\ kind = "chars" =>
        /\ ~calc_throws(input) <=> WellFormed(input)
        /\ ~calc_throws(input) =>
            LET d == base64_decode(input)
                last == Len(input) - pad_length(input)
            IN  /\ remaining(input) # 1
                /\ Len(d) = decoded_length(input)
                /\ \A i \in 1 .. Len(input) :
                    i # last => Reference(d)[i] = input[i]

-----------------------------------------------------------------------------
(* Strings.                                                                *)

Part(i, j) == SubSeq(input, i + 1, j)

\* string_compare_ci, with which operating systems and architectures are told
\* apart, is a total order that string_compare_less_ci and string_equals_ci
\* agree with, and that a search cannot contradict; a prefix and a suffix are
\* found.  (That string_ends_with also finds what differs in the first
\* character is left open.)
ComparesConsistently ==
    kind = "text" =>
        \A i, j \in 0 .. Len(input) : i <= j =>
            LET s == Part(0, i) t == Part(i, j) u == Part(j, Len(input))
                c == string_compare_ci(s, t)
            IN  /\ c = -string_compare_ci(t, s)
                /\ c = -1 <=> string_compare_less_ci(s, t)
                /\ c = 0 <=> string_equals_ci(s, t)
                /\ c <= 0 /\ string_compare_ci(t, u) <= 0
                    => string_compare_ci(s, u) <= 0
                /\ c = 0 => string_contains_ci(s, t) /\ string_contains_ci(t, s)
                /\ t # <<>> => string_contains_ci(t, input)
                /\ string_starts_with(input, s)
                /\ u # <<>> => string_ends_with(input, u)
                /\ string_starts_with(s, t) <=> IsPrefix(t, s)

mark == -1   \* in no text

\* Trimming takes blanks away from the ends and nothing else, except that a
\* view of blanks alone stays as it is; the tokens of a split contain no
\* separator and give the text again; a replacement leaves no pattern behind
\* and, undone, gives the text again, however occurrences overlap.  What is
\* built on them keeps to that: two parts of a URL are joined by one slash, a
\* label's name is its first token, a path for a Windows guest has no slash
\* and gives the path for the others again, and a token has no blanks around.
EditsReversible ==
    kind = "text" =>
        LET r == string_trim(input, {blank})
            p == string_split_with_remainder(input, colon)
            Ended(tokens) == FlattenSeq([n \in 1 .. Len(tokens) |-> Append(tokens[n], colon)])
        IN  /\ \E i, j \in 0 .. Len(input) :
                /\ i <= j /\ r = Part(i, j)
                /\ ToSet(Part(0, i)) \cup ToSet(Part(j, Len(input))) \subseteq {blank}
            /\ IF ToSet(input) \subseteq {blank} THEN r = input
               ELSE Head(r) # blank /\ Last(r) # blank
            /\ string_trim_left(string_trim_right_in_place(input, {blank}), {blank})
                = IF ToSet(input) \subseteq {blank} THEN <<>> ELSE r
            /\ Ended(p.items) \o p.remainder = input
            /\ \A n \in 1 .. Len(p.items) : colon \notin ToSet(p.items[n])
            /\ colon \notin ToSet(p.remainder)
            /\ Ended(string_split(input, colon)) \in {input, Append(input, colon)}
            /\ \A i \in 1 .. Len(input) :
                LET s == Part(i, Len(input)) q == Part(0, i)
                    m == string_replace(s, q, <<mark>>)
                IN  Found(m, q, 1) = {} /\ string_replace(m, <<mark>>, q) = s
            /\ \A i \in 0 .. Len(input) :
                LET f == Part(0, i) s == Part(i, Len(input))
                    w == make_temp_path(f, s, TRUE)
                IN  /\ http_path_join(f, s) =
                        (IF EndsIn(f, slash) THEN Front(f) ELSE f) \o <<slash>>
                        \o (IF BeginsWith(s, slash) THEN Tail(s) ELSE s)
                    /\ ~BeginsWith(s, slash) =>
                        /\ slash \notin ToSet(w)
                        /\ backslash \notin ToSet(input) =>
                            make_temp_path(f, s, FALSE) = string_replace(w, <<backslash>>, <<slash>>)
            /\ get_label_name(input) = Append(p.items, p.remainder)[1]
            /\ resolve_file(input) = r

-----------------------------------------------------------------------------
(* Streams.                                                                *)

StreamLength == 0 .. 3

\* Every way to open a stream of len bytes that is at pos.
Opened(len, pos) ==
    {StdInputStream(Raw("std", "file", len, pos), size) : size \in {Unknown} \cup 0 .. len + 1}
    \cup {StdInputStream(Raw("std", "pipe", len, pos), Unknown)}
    \cup (IF pos = 0 THEN {StringInputStream(len), FileInputStream(len)} ELSE {})

\* What a stream that was opened at pos may deliver: all that follows, or the
\* size that was given.  A stream that cannot seek delivers nothing: looking
\* for its size has failed it.
Window(s, pos) ==
    IF s.buf = "pipe" THEN {}
    ELSE IF s.class # "std" \/ s.size = Unknown THEN pos .. s.len - 1
    ELSE pos .. Min({s.len, pos + s.size}) - 1

call(s, c) ==
    CASE c > 0 -> read(s, c)
      [] c = 0 -> [tellg(s) EXCEPT !.got = <<>>]
      [] OTHER -> [seek(s, c) EXCEPT !.got = <<>>]

\* The stream after calls, and all the bytes it delivered.
After(s, calls) ==
    FoldLeft(LAMBDA acc, c : LET t == call(acc.stream, c)
                             IN  [stream |-> t, all |-> acc.all \o t.got],
             [stream |-> s, all |-> <<>>], calls)

\* What the first line of content is, and where the next one begins.
FirstLine(content) ==
    LET ends == {i \in 1 .. Len(content) : content[i] = cr}
        e == IF ends = {} THEN Len(content) + 1 ELSE Min(ends)
    IN  [line |-> SubSeq(content, 1, e - 1),
         bad |-> e < Len(content) /\ content[e + 1] # lf,
         next |-> Min({e + 1, Len(content)})]

\* Whatever the calls, no stream of known size delivers a byte outside its
\* window, also not after seeking back over its start; read in chunks of any size, with tells
\* in between, it delivers the window once, in order, and then reports its
\* end.  read_stream_as_string returns a content that fits, and read_line the
\* line up to CR LF, with the stream right behind it.
StreamsDeliver ==
    /\ kind = "calls" =>
        \A len \in StreamLength : \A pos \in 0 .. len : \A s \in Opened(len, pos) :
            LET r == After(s, input)
                w == Window(s, pos)
                asked == FoldLeft(+, 0, input)
            IN  /\ s.size # Unknown => ToSet(r.all) \subseteq w
                /\ ToSet(input) \subseteq Nat =>
                    /\ r.all = [i \in 1 .. Min({asked, Cardinality(w)}) |-> pos + i - 1]
                    /\ asked > Cardinality(w) /\ s.buf # "pipe" => r.stream.eof
    /\ kind = "lines" =>
        \A s \in Opened(Len(input), 0) : s.buf # "pipe" /\ s.size \in {Unknown, Len(input)} =>
            LET r == read_line(s, input)
                first == FirstLine(input)
            IN  /\ r.state = "bad" <=> first.bad
                /\ r.state # "bad" => r.line = first.line
                /\ r.state = "done" => r.stream.pos = first.next
                /\ \A n \in 0 .. Len(input) + 1 :
                    read_stream_as_string(s, n) =
                        IF Len(input) \in 1 .. n THEN {[i \in 1 .. Len(input) |-> i - 1]} ELSE {}
=============================================================================
