----------------------------- MODULE MCLogParser -----------------------------
(* Logs of up to four lines: a good one and the ways in which a line can be *)
(* cut, empty or of another format.                                          *)
EXTENDS LogParser

Quoted == <<"quote", "text", "quote">>
Dated  == <<"[", "text", "sp", "text", "]">>
Who(w) == <<w, "sp", "text", "sp", "text">>

\* Fields, separated by a space.
Spaced(fs) == FlattenSeq([i \in DOMAIN fs |->
                IF i = 1 THEN fs[i] ELSE <<"sp">> \o fs[i]])

First7 == <<<<"address">>, <<"text">>, <<"text">>, Dated, Quoted, <<"number">>,
            <<"number">>>>
Fields == First7 \o <<Quoted, Quoted, Quoted, Quoted, Quoted>>

\* Empty values, and fields after the last that is used.
SparseFields == First7 \o <<<<"quote", "quote">>, Quoted, Quoted, Quoted, Quoted,
                           Quoted>>

Common == Spaced(First7)
Good12 == Spaced(Fields)
Sparse == Spaced(SparseFields)

NoRange  == Spaced(<<Common, Quoted, Quoted, Quoted>>)
Unclosed == Spaced(<<Common, Quoted, Quoted, Quoted, Quoted, <<"quote", "text">>>>)
NamedHost == Spaced(<<Who("text"), Dated, Quoted, <<"number">>, <<"number">>,
                      Quoted, Quoted, Quoted, Quoted, Quoted>>)
NoStatus == Spaced(<<Who("address"), Dated, Quoted, <<"text">>, <<"number">>,
                     Quoted, Quoted, Quoted, Quoted, Quoted>>)
NoDate   == Spaced(<<Who("address"), Quoted, <<"number">>, <<"number">>>>)
NoNumbers == Spaced(<<Who("address"), Dated, Quoted>>)
Alone == <<"address">>
Empty == <<>>

MCGoodLines == {Good12, Sparse}
MCLines == MCGoodLines \cup {Common, NoRange, Unclosed, NamedHost, NoStatus,
                             NoDate, NoNumbers, Alone, Empty, Who("address")}

ASSUME ThreeWordsFirst == \A l \in MCLines : ThreeWords(l)

\* Where fields begin and end that are separated by a space.
Ends(fs)   == [f \in DOMAIN fs |-> Len(Spaced(SubSeq(fs, 1, f)))]
Begins(fs) == [f \in DOMAIN fs |-> Ends(fs)[f] - Len(fs[f]) + 1]

ASSUME GoodLinesInFormat ==
  /\ InFormat(Good12, Begins(Fields), Ends(Fields))
  /\ InFormat(Sparse, Begins(SparseFields), Ends(SparseFields))
=============================================================================
