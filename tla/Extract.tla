------------------------------ MODULE Extract ------------------------------
(***************************************************************************)
(* What one file contributes to the rich tables (runner/mncs_index/        *)
(* extract.py with the verdicts of src/scan.mncs and src/extract.mncs): a  *)
(* pure function of its kind and its lines.  A line is a sequence of       *)
(* bytes; a declaration keyword, a PRESS-ID, the word RFC and a four-digit *)
(* number are one "byte" each, which keeps lines short without changing    *)
(* what the scanners do between them.                                      *)
(***************************************************************************)
EXTENDS Integers, Sequences, FiniteSets

CONSTANTS
    Bytes,             \* what a line is made of
    Letters, Digits,   \* bytes that may begin, continue a symbol token
    Keywords,          \* declaration keywords, a subset of Letters
    PressIds,          \* PRESS-IDs
    WindowSize,        \* KERNEL_WINDOW
    MaxToken,          \* the bound of a symbol token
    MaxName,           \* MAX_NAME
    MaxTarget          \* MAX_LINK_TARGET

ASSUME BytesAssumption ==
    /\ Keywords \subseteq Letters /\ Letters \cap Digits = {} /\ " " \notin Letters \cup Digits
    /\ Letters \cup Digits \cup PressIds \cup {" ", "]", "(", ")"} \subseteq Bytes
ASSUME LimitsAssumption ==
    {WindowSize, MaxToken, MaxName, MaxTarget} \subseteq Nat \ {0} /\ WindowSize > 1

IsSymbolByte(b) == b \in Letters \cup Digits

First(S) == CHOOSE n \in S : \A m \in S : n <= m
Last(S) == CHOOSE n \in S : \A m \in S : m <= n

-----------------------------------------------------------------------------
\* What a window has of a line from its start on.
WindowAt(line, i) ==
    SubSeq(line, i, IF i + WindowSize - 1 < Len(line) THEN i + WindowSize - 1 ELSE Len(line))

\* Fault: the windows do not overlap.
KernelWindowsApart(line) ==
    IF Len(line) <= WindowSize THEN {line}
    ELSE {WindowAt(line, i) : i \in {j \in 1..Len(line) : \E k \in 0..Len(line) : j = 1 + k * WindowSize}}

(* Windows of a line that share one byte with the next. *)
KernelWindows(line) ==
    IF Len(line) <= WindowSize THEN {line}
    ELSE {WindowAt(line, i) : i \in {j \in 1..Len(line) : \E k \in 0..Len(line) : j = 1 + k * (WindowSize - 1)}}

(* contains_link: 1 after a "]", 2 once "](" was seen. *)
LinkByte(st, b) ==
    IF st = 2 \/ (st = 1 /\ b = "(") THEN 2
    ELSE IF b = "]" THEN 1 ELSE 0

ContainsLink(window) ==
    LET st[i \in 0..Len(window)] == IF i = 0 THEN 0 ELSE LinkByte(st[i - 1], window[i])
    IN  st[Len(window)] = 2

NoToken == [out |-> <<>>, cur |-> <<>>, overlong |-> FALSE]

\* Fault: a token starts again after the bytes that made it too long.
TakeByteCut(st, b) ==
    IF ~IsSymbolByte(b)
    THEN [out |-> IF st.cur # <<>> THEN Append(st.out, st.cur) ELSE st.out,
          cur |-> <<>>, overlong |-> FALSE]
    ELSE IF Len(st.cur) = MaxToken THEN [st EXCEPT !.cur = <<>>]
    ELSE [st EXCEPT !.cur = Append(st.cur, b)]

TakeByte(st, b) ==
    IF ~IsSymbolByte(b)
    THEN [out |-> IF st.cur # <<>> THEN Append(st.out, st.cur) ELSE st.out,
          cur |-> <<>>, overlong |-> FALSE]
    ELSE IF st.overlong THEN st
    ELSE IF Len(st.cur) = MaxToken THEN [st EXCEPT !.cur = <<>>, !.overlong = TRUE]
    ELSE [st EXCEPT !.cur = Append(st.cur, b)]

(* The symbol tokens of a line in order; a run over the bound is dropped. *)
OrderedSymbolTokens(line) ==
    LET st[i \in 0..Len(line)] == IF i = 0 THEN NoToken ELSE TakeByte(st[i - 1], line[i])
        end == st[Len(line)]
    IN  IF end.cur # <<>> THEN Append(end.out, end.cur) ELSE end.out

(* The numbers that follow the word RFC as the next token. *)
RfcRefs(tokens) ==
    {tokens[i + 1] : i \in {j \in 1..(Len(tokens) - 1) :
                               tokens[j] = <<"RFC">> /\ tokens[j + 1] = <<"0003">>}}

-----------------------------------------------------------------------------
IsDottedName(s) ==
    /\ s # <<>> /\ s[1] \in Letters
    /\ \A i \in 1..Len(s) :
          \/ IsSymbolByte(s[i])
          \/ s[i] = "." /\ i < Len(s) /\ s[i + 1] \in Letters

Segments(name) ==
    {SubSeq(name, span[1], span[2]) : span \in
        {p \in (1..Len(name)) \X (1..Len(name)) :
            /\ p[1] <= p[2]
            /\ \A k \in p[1]..p[2] : name[k] # "."
            /\ p[1] = 1 \/ name[p[1] - 1] = "."
            /\ p[2] = Len(name) \/ name[p[2] + 1] = "."}}

NoName == [found |-> FALSE, raised |-> FALSE, name |-> <<>>]

(* The longest dotted name rest begins with.  A name that is too long, or  *)
(* goes on in a way a name cannot, is none; a segment over the bound of    *)
(* is_symbol_token is refused by the host with a ValueError.               *)
TakeDottedName(rest) ==
    LET lengths == {n \in 1..Len(rest) : IsDottedName(SubSeq(rest, 1, n))}
        n == Last(lengths)
        name == SubSeq(rest, 1, n)
    IN  IF lengths = {} THEN NoName
        ELSE IF n > MaxName THEN NoName
        ELSE IF n < Len(rest) /\ (IsSymbolByte(rest[n + 1]) \/ rest[n + 1] = ".") THEN NoName
        ELSE IF \E seg \in Segments(name) : Len(seg) > MaxToken
             THEN [NoName EXCEPT !.raised = TRUE]
        ELSE [found |-> TRUE, raised |-> FALSE, name |-> name]

(* The spans between "](" and the next ")", empty and overlong ones left   *)
(* out.                                                                    *)
LinkTargets(line) ==
    LET targets[i \in 1..(Len(line) + 1)] ==
            LET seams == {k \in i..(Len(line) - 1) : line[k] = "]" /\ line[k + 1] = "("}
                closes == {k \in (First(seams) + 2)..Len(line) : line[k] = ")"}
                span == SubSeq(line, First(seams) + 2, First(closes) - 1)
            IN  IF seams = {} THEN {}
                ELSE IF closes = {} THEN {}
                ELSE targets[First(closes) + 1]
                     \cup (IF Len(span) \in 1..MaxTarget THEN {span} ELSE {})
    IN  targets[1]

TrimLeft(line) ==
    LET kept == {i \in 1..Len(line) : line[i] # " "}
    IN  IF kept = {} THEN <<>> ELSE SubSeq(line, First(kept), Len(line))

(* 1..6 leading "#" and a space. *)
HeadingLevel(line) ==
    LET levels == {k \in 1..6 : /\ Len(line) > k /\ line[k + 1] = " "
                                /\ \A i \in 1..k : line[i] = "#"}
    IN  IF levels = {} THEN 0 ELSE Last(levels)

-----------------------------------------------------------------------------
NoRows == [syms |-> {}, headings |-> {}, rels |-> {}, press |-> {}, raised |-> FALSE]

(* What every line contributes, whatever the file's kind: PRESS-IDs, and   *)
(* RFC numbers that follow the word.                                       *)
Mentions(line) ==
    [NoRows EXCEPT
        !.press = {line[i] : i \in {j \in 1..Len(line) : line[j] \in PressIds}},
        !.rels = {<<"rfc-ref", num>> : num \in RfcRefs(OrderedSymbolTokens(line))}]

(* A line of a source file.  A declaration whose name is not taken ends    *)
(* the line: its mentions are not looked for.                              *)
SourceLine(lineno, line) ==
    LET trimmed == TrimLeft(line)
        taken == TakeDottedName(TrimLeft(Tail(trimmed)))
        row == <<lineno, trimmed[1], taken.name>>
    IN  IF Len(trimmed) < 2 \/ trimmed[1] \notin Keywords THEN Mentions(line)
        ELSE IF trimmed[2] # " " THEN Mentions(line)
        ELSE IF ~taken.found THEN [NoRows EXCEPT !.raised = taken.raised]
        ELSE [Mentions(line) EXCEPT
                !.syms = {row},
                !.rels = @ \cup (IF trimmed[1] = "use"
                                 THEN {<<"references", taken.name>>, <<"depends-on", taken.name>>}
                                 ELSE {<<"defines", taken.name>>})]

(* A line of a document. *)
DocumentLine(lineno, line) ==
    LET trimmed == TrimLeft(line)
        level == HeadingLevel(trimmed)
    IN  [Mentions(line) EXCEPT
            !.headings = IF level = 0 THEN {}
                         ELSE {<<lineno, level, SubSeq(trimmed, level + 2, Len(trimmed))>>},
            !.rels = @ \cup (IF \E w \in KernelWindows(trimmed) : ContainsLink(w)
                             THEN {<<"references", t>> : t \in LinkTargets(trimmed)} ELSE {})]

ExtractLine(kind, lineno, line) ==
    IF TrimLeft(line) = <<>> THEN NoRows
    ELSE CASE kind = "source" -> SourceLine(lineno, line)
           [] kind = "document" -> DocumentLine(lineno, line)
           [] OTHER -> Mentions(line)

(* extract_file: the rows of all lines; the first name that is refused     *)
(* ends it with the exception.                                             *)
ExtractFile(kind, lines) ==
    LET numbers == 1..Len(lines)
        rows == [i \in numbers |-> ExtractLine(kind, i, lines[i])]
    IN  [syms |-> UNION {rows[i].syms : i \in numbers},
         headings |-> UNION {rows[i].headings : i \in numbers},
         rels |-> UNION {rows[i].rels : i \in numbers},
         press |-> UNION {rows[i].press : i \in numbers},
         raised |-> \E i \in numbers : rows[i].raised]

-----------------------------------------------------------------------------
(* What the scanners owe, for a line *)

(* A link seam is seen wherever it lies, on the boundary of two windows    *)
(* included.                                                               *)
SeamsSeenIn(line) ==
    (\E i \in 1..(Len(line) - 1) : line[i] = "]" /\ line[i + 1] = "(")
        <=> \E w \in KernelWindows(line) : Len(w) <= WindowSize /\ ContainsLink(w)

\* The runs of symbol bytes of a line that are within the bound.
Runs(line) ==
    {r \in (1..Len(line)) \X (1..Len(line)) :
        /\ r[1] <= r[2] /\ r[2] - r[1] < MaxToken
        /\ \A i \in r[1]..r[2] : IsSymbolByte(line[i])
        /\ r[1] = 1 \/ ~IsSymbolByte(line[r[1] - 1])
        /\ r[2] = Len(line) \/ ~IsSymbolByte(line[r[2] + 1])}

\* Each run once, from left to right, and its bytes.
Spells(tokens, line, at, runs) ==
    /\ \A r \in runs : \E i \in 1..Len(tokens) : at[i] = r
    /\ \A i, j \in 1..Len(tokens) : i < j => at[i][1] < at[j][1]
    /\ \A i \in 1..Len(tokens) : tokens[i] = SubSeq(line, at[i][1], at[i][2])

(* A token is a whole run of symbol bytes: the tokens are the runs within  *)
(* the bound, in order, and no part of a longer one.                       *)
TokensAreRunsIn(line) ==
    LET tokens == OrderedSymbolTokens(line)
    IN  \E at \in [1..Len(tokens) -> Runs(line)] : Spells(tokens, line, at, Runs(line))
=============================================================================
