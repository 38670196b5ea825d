----------------------------- MODULE GrepReader -----------------------------
(***************************************************************************)
(* How one file is grepped (reader and its helpers, afind/grepper.go): the *)
(* file is read through a buffer of fixed size, whole lines at a time, and *)
(* each line that matches is recorded under its number, together with the  *)
(* lines of context around it.                                             *)
(*                                                                         *)
(* A file is a sequence of bytes: "n" ends a line, "m" is a byte that the  *)
(* expression matches, "x" one that it does not.  Offsets count from 0.    *)
(***************************************************************************)
EXTENDS Integers, Sequences, FiniteSets, FiniteSetsExt

CONSTANTS
  Bytes,        \* the bytes files are made of
  MaxSize,      \* bound on the size of a file
  BufSize       \* size of the buffer (1 << 20 in the code)

ASSUME SizesAreNat == MaxSize \in Nat /\ BufSize \in Nat \ {0}

VARIABLES
  file,         \* the file
  context,          \* is context before, and after, a match asked for?
  pos,          \* how much of it was read
  buf,          \* the buffer
  end,          \* the end of its last whole line
  rerr,         \* how the last read went: "nil", "eof" or "fault"
  lineno,       \* the number of the line at chunkStart
  chunkStart,   \* how much of the buffer is done
  nmatches,     \* lines matched
  matches,      \* lines recorded: number and text
  step            \* where reader is

grepVars == <<file, context, pos, buf, end, rerr, lineno, chunkStart, nmatches,
          matches, step>>

-----------------------------------------------------------------------------
\* b[i:j]
Slice(b, i, j) == SubSeq(b, i + 1, j)

\* countNL, bytes.Index and bytes.LastIndex of a newline; -1 for none.
NLs(b) == {i \in 0 .. Len(b) - 1 : b[i + 1] = "n"}
countNL(b) == Cardinality(NLs(b))
Index(b) == IF NLs(b) = {} THEN -1 ELSE Min(NLs(b))
LastIndex(b) == IF NLs(b) = {} THEN -1 ELSE Max(NLs(b))

\* Regexp.Match: the end of the first line with a match, or -1.
Match(b) ==
  LET hits == {i \in 0 .. Len(b) - 1 : b[i + 1] = "m"}
      ends == {i \in NLs(b) \cup {Len(b)} : i > Min(hits)}
  IN IF hits = {} THEN -1 ELSE Min(ends)

\* Maps as sets of pairs: m[k] = v.
Put(m, k, v) == {e \in m : e[1] # k} \cup {<<k, v>>}
PutAll(m, n) == {e \in m : \A f \in n : f[1] # e[1]} \cup n

\* Mutant: the lines are numbered from one too high.
getPreCtx_OffByOne(b, chunkstart, linestart, line) ==
  LET start[k \in 0 .. 3] ==
        IF k = 0 THEN linestart
        ELSE IF start[k - 1] <= chunkstart THEN start[k - 1]
        ELSE LastIndex(Slice(b, chunkstart, start[k - 1] - 1)) + 1 + chunkstart
  IN {<<line + 1 - k, Slice(b, start[k], start[k - 1])>> :
        k \in {i \in 1 .. 3 : start[i] < start[i - 1]}}

\* getPreCtx(b, 3, chunkstart, linestart), numbered down from lineno: where
\* the lines begin, one before the other.
getPreCtx(b, chunkstart, linestart, line) ==
  LET start[k \in 0 .. 3] ==
        IF k = 0 THEN linestart
        ELSE IF start[k - 1] <= chunkstart THEN start[k - 1]
        ELSE LastIndex(Slice(b, chunkstart, start[k - 1] - 1)) + 1 + chunkstart
  IN {<<line - k, Slice(b, start[k], start[k - 1])>> :
        k \in {i \in 1 .. 3 : start[i] < start[i - 1]}}

\* getPostCtx(b, 3, m1, end), numbered up from lineno.  The newline is looked
\* for from chunkstart in every round; the first line is the match itself.
getPostCtx(b, m1, last, line) ==
  LET start[k \in 0 .. 4] ==
        IF k = 0 THEN m1
        ELSE IF start[k - 1] >= last THEN start[k - 1]
        ELSE Min({last, Index(Slice(b, m1, last)) + 1 + start[k - 1]})
  IN {<<line + k - 1, Slice(b, start[k - 1], start[k])>> :
        k \in {i \in 2 .. 4 : start[i - 1] < last}}

-----------------------------------------------------------------------------
\* The file's lines, as anyone would number them: the reference.
Ends == NLs(file)
LineStart(k) == IF k = 1 THEN 0 ELSE CHOOSE e \in 1 .. Len(file) :
                  file[e] = "n" /\ countNL(Slice(file, 0, e)) = k - 1
LineEnd(k) == IF k > Cardinality(Ends) THEN Len(file)
              ELSE CHOOSE e \in 1 .. Len(file) :
                     file[e] = "n" /\ countNL(Slice(file, 0, e)) = k
LineNumbers == 1 .. Cardinality(Ends) + 1
Line(k) == Slice(file, LineStart(k), LineEnd(k))
Matching == {k \in LineNumbers : \E i \in 1 .. Len(Line(k)) : Line(k)[i] = "m"}

\* Every line fits the buffer, its newline included; the last one, without a
\* newline, has to be shorter.
LinesFit ==
  \A i \in 0 .. Len(file) - BufSize : \E j \in 1 .. BufSize : file[i + j] = "n"

Files == UNION {[1 .. n -> Bytes] : n \in 0 .. MaxSize}

GrepTypeOK ==
  /\ file \in Files
  /\ context \in [pre : BOOLEAN, post : BOOLEAN]
  /\ pos \in 0 .. Len(file)
  /\ Len(buf) <= BufSize /\ \A i \in 1 .. Len(buf) : buf[i] \in Bytes
  /\ end \in 0 .. Len(buf)
  /\ rerr \in {"nil", "eof", "fault"}
  /\ lineno \in 1 .. Len(file) + 2
  /\ chunkStart \in 0 .. Len(buf)
  /\ nmatches \in 0 .. Len(file)
  /\ \A e \in matches : e[1] \in Nat \ {0} /\ Len(e[2]) <= BufSize
  /\ step \in {"read", "match", "next", "done"}

GrepInit ==
  /\ file \in Files
  /\ context \in [pre : BOOLEAN, post : BOOLEAN]
  /\ pos = 0
  /\ buf = << >>
  /\ end = 0
  /\ rerr = "nil"
  /\ lineno = 1
  /\ chunkStart = 0
  /\ nmatches = 0
  /\ matches = {}
  /\ step = "read"

\* io.ReadFull fills the buffer, or fails at the end of the file or earlier.
\* Unless it failed, what follows the last newline waits for the next round.
Read(n, how) ==
  /\ step = "read"
  /\ n <= BufSize - Len(buf) /\ pos + n <= Len(file)
  /\ \/ how = "nil" /\ n = BufSize - Len(buf)
     \/ how = "eof" /\ n < BufSize - Len(buf) /\ pos + n = Len(file)
     \/ how = "fault" /\ n < BufSize - Len(buf)
  /\ pos' = pos + n
  /\ buf' = buf \o Slice(file, pos, pos + n)
  /\ rerr' = how
  /\ end' = IF how = "nil" THEN LastIndex(buf') + 1 ELSE Len(buf')
  /\ chunkStart' = 0
  /\ step' = "match"
  /\ UNCHANGED <<file, context, lineno, nmatches, matches>>

\* A line matches: it is recorded, with its context, and the work goes on
\* behind it.  A match of nothing at the end of the chunk is only counted as
\* a line; an expression that takes a byte has none.
MatchLine ==
  LET m1 == Match(Slice(buf, chunkStart, end)) + chunkStart
      lineStart == LastIndex(Slice(buf, chunkStart, m1)) + 1 + chunkStart
      lineEnd == IF m1 + 1 > end THEN end ELSE m1 + 1
      line == lineno + countNL(Slice(buf, chunkStart, lineStart))
      hit == Put(matches, line, Slice(buf, lineStart, lineEnd))
      pre == IF context.pre THEN getPreCtx(buf, chunkStart, lineStart, line) ELSE {}
      post == IF context.post THEN getPostCtx(buf, m1, end, line) ELSE {}
  IN /\ step = "match"
     /\ chunkStart < end
     /\ m1 >= chunkStart
     /\ IF lineStart # lineEnd
          THEN matches' = PutAll(PutAll(hit, pre), post) /\ nmatches' = nmatches + 1
          ELSE UNCHANGED <<matches, nmatches>>
     /\ lineno' = line + 1
     /\ chunkStart' = lineEnd
     /\ UNCHANGED <<file, context, pos, buf, end, rerr, step>>

\* No line of the chunk is left, or none matches.
NoMatch ==
  /\ step = "match"
  /\ chunkStart >= end \/ Match(Slice(buf, chunkStart, end)) = -1
  /\ step' = "next"
  /\ UNCHANGED <<file, context, pos, buf, end, rerr, lineno, chunkStart,
                 nmatches, matches>>

\* Mutant: the lines behind the last match are not counted.
NextChunk_NoCount ==
  /\ step = "next"
  /\ UNCHANGED lineno
  /\ buf' = Slice(buf, end, Len(buf))
  /\ end' = 0 /\ chunkStart' = 0
  /\ step' = IF buf' = << >> /\ rerr # "nil" THEN "done" ELSE "read"
  /\ UNCHANGED <<file, context, pos, rerr, nmatches, matches>>

\* Mutant: an empty file is read again.
NextChunk_NeedsBytes ==
  /\ step = "next"
  /\ lineno' = IF rerr = "nil" THEN lineno + countNL(Slice(buf, chunkStart, end)) ELSE lineno
  /\ buf' = Slice(buf, end, Len(buf))
  /\ end' = 0 /\ chunkStart' = 0
  /\ step' = IF buf' = << >> /\ rerr # "nil" /\ pos > 0 THEN "done" ELSE "read"
  /\ UNCHANGED <<file, context, pos, rerr, nmatches, matches>>

\* The rest of the chunk's lines are counted, what follows them moves to the
\* front, and unless the file has ended more is read.
NextChunk ==
  /\ step = "next"
  /\ lineno' = IF rerr = "nil" THEN lineno + countNL(Slice(buf, chunkStart, end)) ELSE lineno
  /\ buf' = Slice(buf, end, Len(buf))
  /\ end' = 0 /\ chunkStart' = 0
  /\ step' = IF buf' = << >> /\ rerr # "nil" THEN "done" ELSE "read"
  /\ UNCHANGED <<file, context, pos, rerr, nmatches, matches>>

GrepNext ==
  \/ \E n \in 0 .. BufSize, how \in {"nil", "eof", "fault"} : Read(n, how)
  \/ MatchLine \/ NoMatch \/ NextChunk

GrepSpec == GrepInit /\ [][GrepNext]_grepVars

-----------------------------------------------------------------------------
\* PROPERTIES

Grepped == step = "done" /\ rerr = "eof"

\* However the lines of a file fall on the buffer, the reader finds the lines
\* that match, each under its own number and whole, and counts them.
FindsMatches ==
  Grepped =>
    /\ nmatches = Cardinality(Matching)
    /\ \A k \in Matching : <<k, Line(k)>> \in matches

\* A match may have put line k into its context after it, the text of which
\* is unlike the file's (getPostCtx).
AfterMatch(k) == context.post /\ \E m \in Matching : k \in m + 1 .. m + 3

\* What is recorded under a number is that line of the file, be it a match or
\* context before one, whatever the distance of the matches, and also where
\* the context after a match was recorded there first.
RecordsLines ==
  Grepped => \A e \in matches : \/ e[1] \in LineNumbers /\ e[2] = Line(e[1])
                                \/ AfterMatch(e[1]) /\ e[1] \notin Matching

\* The reader comes to the end of every file whose lines fit the buffer, or
\* of what could be read of it.
ReaderEnds == LinesFit => <>(step = "done")
=============================================================================
