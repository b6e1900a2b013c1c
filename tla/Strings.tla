------------------------------- MODULE Strings -------------------------------
(***************************************************************************)
(* utility/src/string.cpp: trimming, comparison without regard to case,    *)
(* splitting and replacement; and what is built from them: paths, labels   *)
(* and tokens.  A string is a sequence of character codes, of which only   *)
(* those of ASCII are considered: std::toupper is undefined for the        *)
(* negative values that others have in a char.                             *)
(***************************************************************************)
EXTENDS Integers, Sequences, SequencesExt, FiniteSets, FiniteSetsExt

Upper(c) == IF c \in 97 .. 122 THEN c - 32 ELSE c

\* The places of s that hold none of chars.
Kept(s, chars) == {i \in 1 .. Len(s) : s[i] \notin chars}

-----------------------------------------------------------------------------
(* Trimming.  The two views are s itself when there is nothing to keep.    *)

string_trim_left(s, chars) ==
    IF Kept(s, chars) = {} THEN s ELSE SubSeq(s, Min(Kept(s, chars)), Len(s))

string_trim_right(s, chars) ==
    IF Kept(s, chars) = {} THEN s ELSE SubSeq(s, 1, Max(Kept(s, chars)))

string_trim(s, chars) == string_trim_left(string_trim_right(s, chars), chars)

\* The overload that shortens s itself leaves nothing in that case.
string_trim_right_in_place(s, chars) ==
    IF Kept(s, chars) = {} THEN <<>> ELSE SubSeq(s, 1, Max(Kept(s, chars)))

-----------------------------------------------------------------------------
(* Comparison.                                                             *)

\* The first place at which two strings differ, 0 if one begins the other.
Difference(s, t) ==
    LET d == {i \in 1 .. Min({Len(s), Len(t)}) : Upper(s[i]) # Upper(t[i])}
    IN  IF d = {} THEN 0 ELSE Min(d)

Sign(a, b) == IF a < b THEN -1 ELSE IF a > b THEN 1 ELSE 0

\* Mutant: the lengths are not compared.
string_compare_ci_prefix(s, t) ==
    LET d == Difference(s, t)
    IN  IF d = 0 THEN 0 ELSE Sign(Upper(s[d]), Upper(t[d]))

string_compare_ci(s, t) ==
    LET d == Difference(s, t)
    IN  IF d = 0 THEN Sign(Len(s), Len(t)) ELSE Sign(Upper(s[d]), Upper(t[d]))

\* std::ranges::lexicographical_compare.
string_compare_less_ci(s, t) ==
    \E i \in 0 .. Len(s) :
        /\ \A j \in 1 .. i : j <= Len(t) /\ Upper(s[j]) = Upper(t[j])
        /\ IF i = Len(s) THEN i < Len(t)
           ELSE i < Len(t) /\ Upper(s[i + 1]) < Upper(t[i + 1])

string_equals_ci(s, t) ==
    Len(s) = Len(t) /\ \A i \in 1 .. Len(s) : Upper(s[i]) = Upper(t[i])

\* std::ranges::search returns an empty range for an empty needle too.
string_contains_ci(needle, haystack) ==
    \/ needle = <<>> /\ haystack = <<>>
    \/ /\ needle # <<>>
       /\ \E k \in 0 .. Len(haystack) - Len(needle) :
            \A i \in 1 .. Len(needle) : Upper(haystack[k + i]) = Upper(needle[i])

string_starts_with(haystack, needle) ==
    /\ Len(needle) <= Len(haystack)
    /\ \A i \in 1 .. Len(needle) : haystack[i] = needle[i]

\* For a needle that is not empty: the loop would read before an empty one.
\* It stops before the first character of the needle.
string_ends_with(haystack, needle) ==
    /\ Len(needle) <= Len(haystack)
    /\ \A j \in 2 .. Len(needle) :
        haystack[Len(haystack) - Len(needle) + j] = needle[j]

-----------------------------------------------------------------------------
(* Splitting and replacement.                                              *)

\* Where the separators are, in order, with the imagined one before input.
Cuts(input, separator) ==
    LET at == {i \in 1 .. Len(input) : input[i] = separator}
    IN  [n \in 1 .. Cardinality(at) + 1 |->
            IF n = 1 THEN 0
            ELSE CHOOSE i \in at : Cardinality({j \in at : j <= i}) = n - 1]

\* Both results: the tokens that a separator ends, and what comes behind.
string_split_with_remainder(input, separator) ==
    LET cut == Cuts(input, separator)
    IN  [items |-> [n \in 1 .. Len(cut) - 1 |->
                        SubSeq(input, cut[n] + 1, cut[n + 1] - 1)],
         remainder |-> SubSeq(input, cut[Len(cut)] + 1, Len(input))]

\* The remainder is a token unless it is empty.
string_split(input, separator) ==
    LET r == string_split_with_remainder(input, separator)
    IN  IF r.remainder = <<>> THEN r.items ELSE Append(r.items, r.remainder)

\* std::search from left on: the places where pattern is found.
Found(input, pattern, left) ==
    {k \in left .. Len(input) - Len(pattern) + 1 :
        SubSeq(input, k, k + Len(pattern) - 1) = pattern}

\* Mutant: the search goes on right behind the first character found.
string_replace_overlaps(input, pattern, replacement) ==
    LET from[left \in 1 .. Len(input) + 1] ==
            LET found == Found(input, pattern, left)
            IN  IF found = {} THEN SubSeq(input, left, Len(input))
                ELSE SubSeq(input, left, Min(found) - 1) \o replacement
                     \o from[Min(found) + 1]
    IN  from[1]

\* For a pattern that is not empty: with an empty one the loop has no end.
string_replace(input, pattern, replacement) ==
    LET from[left \in 1 .. Len(input) + 1] ==
            LET found == Found(input, pattern, left)
            IN  IF found = {} THEN SubSeq(input, left, Len(input))
                ELSE SubSeq(input, left, Min(found) - 1) \o replacement
                     \o from[Min(found) + Len(pattern)]
    IN  from[1]

-----------------------------------------------------------------------------
(* Paths, labels and tokens.                                               *)

blank == 32
slash == 47
colon == 58
backslash == 92

EndsIn(s, c) == s # <<>> /\ Last(s) = c
BeginsWith(s, c) == s # <<>> /\ Head(s) = c

http_path_join(first, second) ==
    CASE EndsIn(first, slash) /\ BeginsWith(second, slash) -> first \o Tail(second)
      [] ~EndsIn(first, slash) /\ ~BeginsWith(second, slash) -> first \o <<slash>> \o second
      [] OTHER -> first \o second

\* The label up to its first colon.
get_label_name(label) ==
    LET at == {i \in 1 .. Len(label) : label[i] = colon}
    IN  IF at = {} THEN label ELSE SubSeq(label, 1, Min(at) - 1)

\* The directory's path with a relative name behind it, in the guest's
\* notation.
make_temp_path(temp_dir, name, windows) ==
    LET path == IF temp_dir = <<>> \/ EndsIn(temp_dir, slash) THEN temp_dir \o name
                ELSE temp_dir \o <<slash>> \o name
    IN  string_replace(path, <<slash>>, IF windows THEN <<backslash>> ELSE <<slash>>)

\* The token in a file.
resolve_file(raw_content) ==
    LET trimmed == string_trim(raw_content, {blank})
    IN  IF Len(raw_content) > Len(trimmed) THEN trimmed ELSE raw_content
=============================================================================
