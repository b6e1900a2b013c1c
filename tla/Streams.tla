------------------------------- MODULE Streams -------------------------------
(***************************************************************************)
(* The input streams of utility/io/stream.hpp: StdInputStream, which keeps *)
(* to a window of the stream it wraps, FileInputStream and                 *)
(* StringInputStream, and read_stream_as_string and read_line on top.      *)
(*                                                                         *)
(* A byte is represented by its position, from 0.  A stream is a record;   *)
(* an operation returns the stream after it, with what it delivered in got *)
(* and what it returned in ret.  The standard library's streams are        *)
(* external: an operation on a stream at the end or in failure fails, a    *)
(* read that comes up short sets both bits, and seekg forgets the end.     *)
(***************************************************************************)
EXTENDS Integers, Sequences, SequencesExt, FiniteSetsExt

Good(s) == ~s.eof /\ ~s.fail

Sentry(s) == IF Good(s) THEN s ELSE [s EXCEPT !.fail = TRUE]

\* Where the buffer goes for target, -1 if it refuses: MemoryStreambuf has no
\* position behind its last byte, and a pipe has none at all.
seekpos(s, target) ==
    CASE s.buf = "file" /\ target >= 0 -> target
      [] s.buf = "memory" /\ target \in 0 .. s.len - 1 -> target
      [] OTHER -> -1

tellg(s) ==
    LET t == Sentry(s)
    IN  [t EXCEPT !.ret = IF t.fail THEN -1 ELSE seekpos(t, t.pos)]

seekg(s, target) ==
    LET t == [s EXCEPT !.eof = FALSE]
        p == seekpos(t, target)
    IN  IF t.fail THEN t
        ELSE IF p = -1 THEN [t EXCEPT !.fail = TRUE] ELSE [t EXCEPT !.pos = p]

istream_read(s, count) ==
    LET t == Sentry(s)
        k == IF t.fail THEN 0 ELSE Max({0, Min({count, t.len - t.pos})})
        short == k < count
    IN  [t EXCEPT !.pos = @ + k,
                  !.got = [i \in 1 .. k |-> t.pos + i - 1],
                  !.eof = @ \/ (short /\ ~t.fail),
                  !.fail = @ \/ short]

-----------------------------------------------------------------------------
(* StdInputStream.  A size of -1 stands for no size.                       *)

Unknown == -1

\* The stream after the attempt, and the size it found.
try_get_stream_size(s) ==
    LET b == tellg(s)
        e == tellg(seekg(b, s.len))
        diff == e.ret - b.ret
    IN  [stream |-> IF diff = 0 THEN e ELSE seekg(e, b.ret),
         size |-> IF diff > 0 THEN diff ELSE Unknown]

StdInputStream(s, size) ==
    LET probed == try_get_stream_size(s)
        t == tellg(IF size = Unknown THEN probed.stream ELSE s)
    IN  [t EXCEPT !.class = "std", !.begin = t.ret,
                  !.size = IF size = Unknown THEN probed.size ELSE size]

\* Mutant: reads on behind the window.
std_read_unbounded(s, count) ==
    LET r == istream_read(s, count)
    IN  [r EXCEPT !.eof = @ \/ Len(r.got) >= count]

std_read(s, count) ==
    LET known == s.size # Unknown
        t == IF known THEN tellg(s) ELSE s
        diff == t.ret - t.begin
        available == IF known THEN s.size - diff ELSE count
        r == istream_read(t, Min({count, available}))
    IN  CASE known /\ diff < 0 -> [t EXCEPT !.got = <<>>, !.fail = TRUE]
          [] known /\ diff >= s.size -> [t EXCEPT !.got = <<>>, !.eof = TRUE]
          [] OTHER -> [r EXCEPT !.eof = @ \/ Len(r.got) >= available]

-----------------------------------------------------------------------------
(* All classes.                                                            *)

\* A stream before it is wrapped, at pos of len bytes.
Raw(class, buf, len, pos) ==
    [class |-> class, buf |-> buf, len |-> len, pos |-> pos, eof |-> FALSE,
     fail |-> FALSE, begin |-> 0, size |-> len, got |-> <<>>, ret |-> 0]

StringInputStream(len) == Raw("string", "memory", len, 0)

FileInputStream(len) == Raw("file", "file", len, 0)

read(s, count) == IF s.class = "std" THEN std_read(s, count) ELSE istream_read(s, count)

seek(s, count) == tellg(seekg(s, s.pos + count))

\* The option that is returned, as a set.
read_stream_as_string(s, max_length) ==
    IF s.size = Unknown \/ s.size < 1 \/ s.size > max_length THEN {}
    ELSE {read(s, s.size).got}

cr == 13
lf == 10

\* One turn of the loop of read_line, on a stream of the bytes of content.
line_step(content, acc) ==
    LET r == read(acc.stream, 1)
        c == content[r.got[1] + 1]
    IN  IF acc.state \in {"done", "end", "bad"} THEN acc
        ELSE IF r.got = <<>> THEN [acc EXCEPT !.stream = r, !.state = "end"]
        ELSE CASE acc.state = "cr" /\ c = cr -> [acc EXCEPT !.stream = r, !.state = "lf"]
               [] acc.state = "cr" /\ c # cr -> [acc EXCEPT !.stream = r, !.line = Append(@, c)]
               [] acc.state = "lf" /\ c = lf -> [acc EXCEPT !.stream = r, !.state = "done"]
               [] OTHER -> [acc EXCEPT !.stream = r, !.state = "bad"]

\* The stream behind the line, the line, and how the loop ended; "bad" stands
\* for the empty option.
read_line(s, content) ==
    FoldLeft(LAMBDA acc, turn : line_step(content, acc),
             [stream |-> s, line |-> <<>>, state |-> "cr"],
             [turn \in 1 .. Len(content) + 1 |-> turn])
=============================================================================
