------------------------------ MODULE LogParser ------------------------------
(***************************************************************************)
(* How access2sql reads an access log (access2sql.cc): Parser takes one    *)
(* character after the other from stdin, and main's loop asks it for the   *)
(* fields of a line, gives up on a line when an operation throws, and ends *)
(* at the first attempt to read past the end of the input.                 *)
(*                                                                         *)
(* The input is a sequence of tokens: the characters the parser looks for, *)
(* each on its own, and runs of all others by what stol and inet_aton make *)
(* of them.                                                                *)
(***************************************************************************)
EXTENDS Integers, Sequences, SequencesExt

CONSTANTS Lines,      \* the lines that a log may have, without their newline
          GoodLines,  \* those in the format that the loop is written for
          MaxLines    \* bound: lines in a log

Tokens == {"sp", "nl", "[", "]", "quote",
           "address",   \* an IPv4 address; stol reads its first number
           "number",
           "text"}      \* anything else, "-" included

ASSUME LinesAssumption == /\ Lines \subseteq Seq(Tokens \ {"nl"})
                          /\ GoodLines \subseteq Lines
                          /\ MaxLines \in Nat

VARIABLES lines,   \* the log, line by line
          input,   \* the log as getc delivers it
          at,      \* the position of the next getc
          spans,   \* the fields read for the current row: <<first, last>>
          rows,    \* the rows given to addValue, each a sequence of spans
          pc       \* reading fields, skipping to the end of line, or at EOF

vars == <<lines, input, at, spans, rows, pc>>

\* What main's loop asks for, in order.
Format == <<"word", "word", "word", "bracketed", "quoted", "number", "number",
            "quoted", "quoted", "quoted", "quoted", "quoted">>

\* The log as text; the last line may lack its newline.
Text(log, closed) ==
  LET all == FlattenSeq([i \in DOMAIN log |-> log[i] \o <<"nl">>])
  IN  IF closed THEN all ELSE SubSeq(all, 1, Len(all) - 1)

(* Positions and spans stay within the input, and a row never has more       *)
(* fields than the loop asks for (access2sql.cc:174-241).                    *)
TypeOK ==
  LET Span == (1..Len(input)) \X (0..Len(input)) IN
  /\ input \in Seq(Tokens)
  /\ at \in 1..(Len(input) + 1)
  /\ spans \in Seq(Span) /\ Len(spans) <= Len(Format)
  /\ \A i \in DOMAIN rows : rows[i] \in Seq(Span) /\ Len(rows[i]) = Len(Format)
  /\ pc \in {"fields", "skip", "eof"}

Init ==
  /\ lines \in BoundedSeq(Lines, MaxLines) \ {<<>>}
  /\ \E closed \in BOOLEAN : input = Text(lines, closed)
  /\ at = 1
  /\ spans = <<>>
  /\ rows = <<>>
  /\ pc = "fields"

-----------------------------------------------------------------------------
(* Parser: where its operations stop.  Len(input) + 1 stands for EOF.        *)

\* The first position from p on with a token in S.
NextOf(p, S) ==
  CHOOSE q \in p..(Len(input) + 1) :
     /\ q <= Len(input) => input[q] \in S
     /\ \A r \in p..(q - 1) : input[r] \notin S

SkipSpaces(p) == NextOf(p, Tokens \ {"sp"})

\* getWord reads up to the next space, which is consumed, newlines and all.
WordEnd == NextOf(SkipSpaces(at), {"sp"})

\* The rest of the current line, its newline included.
Eol(p) == NextOf(p, {"nl"})

Opening(kind) == IF kind = "bracketed" THEN "[" ELSE "quote"
Closing(kind) == IF kind = "bracketed" THEN "]" ELSE "quote"

\* Faulty variant, for the mutation runs: what is quoted may go on to the next
\* line.
DelimEndAnywhere(kind) == NextOf(SkipSpaces(at) + 1, {Closing(kind)})

\* getDelim reads up to the closing character or the end of the line.
DelimEnd(kind) == NextOf(SkipSpaces(at) + 1, {Closing(kind), "nl"})

\* stol: leading white space is skipped, what follows a number is ignored.
Numeric(first, last) ==
  \E p \in first..last : /\ input[p] \in {"number", "address"}
                         /\ \A q \in first..(p - 1) : input[q] = "nl"

\* inet_aton: what follows an address after white space is ignored.
IsAddress(span) ==
  /\ input[span[1]] \in {"number", "address"}
  /\ span[1] < span[2] => input[span[1] + 1] = "nl"

-----------------------------------------------------------------------------
(* main's loop: one field per step *)

\* The next thing main asks for is a field, of this kind.
Wants(kinds) ==
  /\ pc = "fields"
  /\ Len(spans) < Len(Format)
  /\ Format[Len(spans) + 1] \in kinds
  /\ Len(spans) = 3 => IsAddress(spans[1])

\* catch(std::exception&): on to skipToEol, with position p next.
Throw(p) ==
  /\ at' = p
  /\ spans' = <<>>
  /\ pc' = "skip"
  /\ UNCHANGED <<lines, input, rows>>

\* EofException leaves the loop.
Eof ==
  /\ at' = Len(input) + 1
  /\ spans' = <<>>
  /\ pc' = "eof"
  /\ UNCHANGED <<lines, input, rows>>

Field(first, last) ==
  /\ spans' = Append(spans, <<first, last>>)
  /\ at' = last + 2
  /\ UNCHANGED <<lines, input, rows, pc>>

GetWord ==
  /\ Wants({"word"})
  /\ IF WordEnd > Len(input) THEN Eof
     ELSE Field(SkipSpaces(at), WordEnd - 1)

GetNumber ==
  /\ Wants({"number"})
  /\ \/ WordEnd > Len(input) /\ Eof
     \/ /\ WordEnd <= Len(input)
        /\ IF Numeric(SkipSpaces(at), WordEnd - 1)
           THEN Field(SkipSpaces(at), WordEnd - 1)
           ELSE Throw(WordEnd + 1)

\* The delimiters are consumed, and so is the character that is not one.
GetDelim(kind) ==
  LET open == SkipSpaces(at) IN
  /\ Wants({kind})
  /\ \/ open > Len(input) /\ Eof
     \/ /\ open <= Len(input)
        /\ input[open] # Opening(kind)
        /\ Throw(open + 1)
     \/ /\ open <= Len(input)
        /\ input[open] = Opening(kind)
        /\ \/ DelimEnd(kind) > Len(input) /\ Eof
           \/ /\ DelimEnd(kind) <= Len(input)
              /\ IF input[DelimEnd(kind)] = Closing(kind)
                 THEN Field(open + 1, DelimEnd(kind) - 1)
                 ELSE Throw(DelimEnd(kind) + 1)

\* CountryDB throws when the first word is not an address.
LookupFails ==
  /\ pc = "fields"
  /\ Len(spans) = 3
  /\ ~ IsAddress(spans[1])
  /\ Throw(at)

AddValue ==
  /\ pc = "fields"
  /\ Len(spans) = Len(Format)
  /\ rows' = Append(rows, spans)
  /\ spans' = <<>>
  /\ pc' = "skip"
  /\ UNCHANGED <<lines, input, at>>

\* Faulty, likewise: does not look for the end of the input.
SkipPastEof ==
  /\ pc = "skip"
  /\ at' = Eol(at) + 1
  /\ pc' = "fields"
  /\ UNCHANGED <<lines, input, spans, rows>>

\* Faulty: stops at the newline instead of behind it.
SkipToNewline ==
  /\ pc = "skip"
  /\ IF Eol(at) > Len(input) THEN Eof
     ELSE /\ at' = Eol(at)
          /\ pc' = "fields"
          /\ UNCHANGED <<lines, input, spans, rows>>

SkipToEol ==
  /\ pc = "skip"
  /\ IF Eol(at) > Len(input) THEN Eof
     ELSE /\ at' = Eol(at) + 1
          /\ pc' = "fields"
          /\ UNCHANGED <<lines, input, spans, rows>>

Next == \/ GetWord
        \/ GetNumber
        \/ \E kind \in {"bracketed", "quoted"} : GetDelim(kind)
        \/ LookupFails
        \/ AddValue
        \/ SkipToEol

Spec == Init /\ [][Next]_vars

-----------------------------------------------------------------------------
(* Properties *)

\* The positions of line i, without its newline.
Start(i) == 1 + Len(Text(SubSeq(lines, 1, i - 1), TRUE))
Stop(i) == Start(i) + Len(lines[i]) - 1

Within(span, i) == span[1] >= Start(i) /\ span[2] <= Stop(i)

\* rows[n] has the fields of line i and nothing else.
IsRowOf(n, i) == \A f \in 1..Len(Format) : Within(rows[n][f], i)

Good(i) == lines[i] \in GoodLines

StoredOnce(i) ==
  \E n \in DOMAIN rows : IsRowOf(n, i) /\ \A m \in DOMAIN rows \ {n} : ~ IsRowOf(m, i)

(* The parser recovers from anything within a line: when all is read, a good *)
(* line that is the first, or that follows a good line, was stored once, no  *)
(* matter what was before (access2sql.cc:233-237).                           *)
Recovers ==
  pc = "eof" => \A i \in DOMAIN lines :
                   Good(i) /\ (i = 1 \/ Good(i - 1)) => StoredOnce(i)

(* No row mixes lines: all its fields come from one line, except that the     *)
(* address may begin on an earlier one (access2sql.cc:79-119, 174-213).      *)
RowsFromOneLine ==
  \A n \in DOMAIN rows : \E i \in DOMAIN lines :
     /\ rows[n][1][2] \in Start(i)..Stop(i)
     /\ \A f \in 2..Len(Format) : Within(rows[n][f], i)

\* A word of line l begins at position p.
BeginsWord(l, p) == l[p] # "sp" /\ (p = 1 \/ l[p - 1] = "sp")

\* What opens a date or a quoted field is none of the first three words of l.
ThreeWords(l) ==
  \A p \in DOMAIN l : l[p] \in {"[", "quote"} /\ BeginsWord(l, p) =>
     \A x, y \in 1..p : ~ ({q \in 1..p : BeginsWord(l, q)} \subseteq {x, y, p})

\* A field of line l: a word with the space behind it, or what is delimited.
FieldFrom(l, kind, first, last) ==
  /\ first \in DOMAIN l /\ last \in DOMAIN l /\ first <= last
  /\ IF kind \in {"word", "number"}
     THEN /\ last + 1 \in DOMAIN l /\ l[last + 1] = "sp"
          /\ \A p \in first..last : l[p] # "sp"
          /\ l[first] \notin {"[", "quote"}
          /\ kind = "number" => l[first] \in {"number", "address"}
     ELSE /\ first < last
          /\ l[first] = Opening(kind) /\ l[last] = Closing(kind)
          /\ \A p \in (first + 1)..(last - 1) : l[p] # Closing(kind)

\* Line l has the fields that the loop asks for, from its first character on,
\* which is an address; these are where they begin and end.
InFormat(l, begins, ends) ==
  /\ \A f \in 1..Len(Format) : FieldFrom(l, Format[f], begins[f], ends[f])
  /\ begins[1] = 1 /\ ends[1] = 1 /\ l[1] \in {"number", "address"}
  /\ \A f \in 2..Len(Format) :
        /\ ends[f - 1] < begins[f]
        /\ \A p \in (ends[f - 1] + 1)..(begins[f] - 1) : l[p] = "sp"

(* What is skipped is the line that is malformed: "Delimiter not found on    *)
(* line, skipping" (access2sql.cc:121).                                      *)
SkipsOnlyBadLines ==
  pc = "eof" => \A i \in DOMAIN lines : Good(i) => StoredOnce(i)

=============================================================================
