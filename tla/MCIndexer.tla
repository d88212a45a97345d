----------------------------- MODULE MCIndexer -----------------------------
EXTENDS Indexer

MCBytes == Letters \cup Digits \cup PressIds \cup {" ", "]", "(", ")", "#", "."}

Fn(name) == <<"fn", " ">> \o name
Use(name) == <<" ", "use", " ">> \o name

(* Every line of four bytes out of four. *)
Byte(n) == <<"]", "(", "a", " ">>[n + 1]
AllLines == [k \in 1..256 |-> [i \in 1..4 |-> Byte((k \div 4^(i - 1)) % 4)]]

(* Two sources with one hint, one of them declaring a name twice and before *)
(* its other line; a document; a source with an overlong segment; a file    *)
(* of all short lines.                                                     *)
MCLines ==
    [c1 |-> <<Fn(<<"b">>), Fn(<<"a">>), Use(<<"a", ".", "b">>), Fn(<<"b">>)>>,
     c2 |-> <<Fn(<<"a">>), <<"P1", " ", "RFC", " ", "0003">>>>,
     c3 |-> <<<<"#", " ", "b">>, <<"a", "]", "(", "b", ")">>, <<"#", "#", " ", "a">>, <<"#", " ", "b">>>>,
     c4 |-> <<Fn(<<"a", "a", "a">>)>>,
     all |-> AllLines]
MCContents == <<{"c1", "c2", "c4"}, {"c1", "c3", "all"}, {"c1"}>>
MCHint == [c1 |-> 1, c2 |-> 1, c3 |-> 2, c4 |-> 3, all |-> 4]
MCKindOf == [p \in Paths |-> IF p = 2 THEN "document" ELSE "source"]
=============================================================================
