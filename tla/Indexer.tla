------------------------------ MODULE Indexer ------------------------------
(***************************************************************************)
(* Full and incremental snapshots of one corpus, built one after the other *)
(* while its files are edited (runner/mncs_index/indexer.py, the merge of  *)
(* extract.py, lineage.py and cmd_build of cli.py).  A snapshot is what    *)
(* load_head gives back: documents, terms, rich tables, establishment      *)
(* generations and checksums.                                              *)
(*                                                                         *)
(* A content is its lines; its MNCS digest is the content itself (digests  *)
(* that collide are outside the model) and its hint, size and crc32, may   *)
(* be shared.  Paths are integers, ordered like the path bytes.            *)
(***************************************************************************)
EXTENDS Extract

CONSTANTS
    Paths,       \* corpus paths
    KindOf,      \* the kind of each path: "source", "document", "other"
    Contents,    \* the contents each path may have
    Lines,       \* the lines of each content
    Hint,        \* size and crc32 of each content
    Absent,      \* no such file
    MaxGen       \* bound on the generations published

ASSUME PathsAssumption == Paths \subseteq Nat \ {0} /\ IsFiniteSet(Paths) /\ MaxGen \in Nat
ASSUME ContentsAssumption ==
    /\ Lines \in [DOMAIN Lines -> Seq(Seq(Bytes))]
    /\ Absent \notin DOMAIN Lines
    /\ \A p \in Paths : Contents[p] \subseteq DOMAIN Lines

VARIABLES
    corpus,      \* what is on disk
    head,        \* the snapshot HEAD names, <<>> before the first
    published,   \* the paths of every generation
    before,      \* the documents the last build started from
    rich,        \* every build since the last full one, and that one, was rich
    lineage,     \* the report of the last incremental build
    outcome      \* "none", "full", "incremental", or "failed" for the last build

vars == <<corpus, head, published, before, rich, lineage, outcome>>

Empty == [docs |-> {}, terms |-> {}, syms |-> {}, headings |-> {}, rels |-> {},
          press |-> {}, established |-> <<>>, crc |-> <<>>]

Present(files) == {p \in Paths : files[p] # Absent}

Init ==
    /\ corpus \in {f \in [Paths -> DOMAIN Lines \cup {Absent}] :
                     \A p \in Paths : f[p] \in Contents[p] \cup {Absent}}
    /\ head = Empty
    /\ published = <<>>
    /\ before = {}
    /\ rich = FALSE
    /\ lineage = {}
    /\ outcome = "none"

(* Somebody edits, creates or deletes a file between builds. *)
Edit(p, c) ==
    /\ corpus[p] # c
    /\ corpus' = [corpus EXCEPT ![p] = c]
    /\ outcome' = "none"
    /\ before' = {}
    /\ lineage' = {}
    /\ UNCHANGED <<head, published, rich>>

-----------------------------------------------------------------------------
(* results_to_records: a document row, and one row for each distinct token *)
(* of a path that is a symbol; its position is the rank of the token among  *)
(* the file's, so the set stands for the numbered rows.                    *)
DocRows(files) == {[path |-> p, digest |-> files[p]] : p \in Present(files)}

Elements(list) == {list[i] : i \in 1..Len(list)}

TokensOf ==
    [c \in DOMAIN Lines |->
        {tok \in UNION {Elements(OrderedSymbolTokens(line)) : line \in Elements(Lines[c])} :
            tok[1] \in Letters}]

TermRows(files) ==
    UNION {{[path |-> p, token |-> tok] : tok \in TokensOf[files[p]]} : p \in Present(files)}

(* The rows <<path, line, ...>> of a table in the order of path and line,  *)
(* each with its position in the line's place.                             *)
Before(a, b) == a[1] < b[1] \/ (a[1] = b[1] /\ a[2] < b[2])
Ranked(rows) ==
    {<<r[1], Cardinality({q \in rows : Before(q, r)}), r[3], r[4]>> : r \in rows}

(* One row per declaration of a path, the first. *)
FirstDeclared(syms) ==
    {s \in syms : \A t \in syms : t[2] = s[2] /\ t[3] = s[3] => s[1] <= t[1]}

SymTable(perFile) ==
    Ranked(UNION {{<<p, s[1], s[2], s[3]>> : s \in FirstDeclared(perFile[p].syms)} : p \in DOMAIN perFile})

HeadingTable(perFile) ==
    Ranked(UNION {{<<p, h[1], h[2], h[3]>> : h \in perFile[p].headings} : p \in DOMAIN perFile})

(* Edges and mentions have no position: a set of rows per path, which      *)
(* stands for their sorted sequence.                                       *)
RelTable(perFile) == UNION {{p} \X perFile[p].rels : p \in DOMAIN perFile}
PressTable(perFile) == UNION {{p} \X perFile[p].press : p \in DOMAIN perFile}

(* globalize: one deterministic merge, in whatever order the threads of    *)
(* extract_many returned the files.                                        *)
Globalize(perFile) ==
    [syms |-> SymTable(perFile), headings |-> HeadingTable(perFile),
     rels |-> RelTable(perFile), press |-> PressTable(perFile)]

\* Fault: the rows of a reused file all get the same line.
FileRichFlat(p, snap) ==
    [syms |-> {<<0, r[3], r[4]>> : r \in {q \in snap.syms : q[1] = p}},
     headings |-> {<<0, r[3], r[4]>> : r \in {q \in snap.headings : q[1] = p}},
     rels |-> {r[2] : r \in {q \in snap.rels : q[1] = p}},
     press |-> {r[2] : r \in {q \in snap.press : q[1] = p}},
     raised |-> FALSE]

(* The rows of an unchanged path from the previous snapshot; positions in  *)
(* the old table stand in for line numbers.                                *)
FileRichFromRecords(p, snap) ==
    [syms |-> {<<r[2], r[3], r[4]>> : r \in {q \in snap.syms : q[1] = p}},
     headings |-> {<<r[2], r[3], r[4]>> : r \in {q \in snap.headings : q[1] = p}},
     rels |-> {r[2] : r \in {q \in snap.rels : q[1] = p}},
     press |-> {r[2] : r \in {q \in snap.press : q[1] = p}},
     raised |-> FALSE]

(* kernels.classify_change over two content digests: 0 unchanged, 1 added, *)
(* 2 removed, 3 modified.                                                  *)
ClassifyChange(old, new) ==
    CASE old = Absent /\ new # Absent -> 1
      [] old # Absent /\ new = Absent -> 2
      [] old = new -> 0
      [] OTHER -> 3

DigestIn(docs, p) ==
    IF \E d \in docs : d.path = p THEN (CHOOSE d \in docs : d.path = p).digest ELSE Absent

\* Fault: a file whose size and checksum did not move is taken for unchanged.
VerdictsByHint ==
    [p \in {q \in Paths : DigestIn(head.docs, q) # Absent \/ corpus[q] # Absent} |->
        IF p \in DOMAIN head.crc /\ corpus[p] # Absent /\ head.crc[p] = Hint[corpus[p]]
        THEN 0 ELSE ClassifyChange(DigestIn(head.docs, p), corpus[p])]

(* Every path of either side is decided by the digests; a hint that did    *)
(* not move only marks a candidate, whose bytes are digested all the same. *)
Verdicts ==
    [p \in {q \in Paths : DigestIn(head.docs, q) # Absent \/ corpus[q] # Absent} |->
        ClassifyChange(DigestIn(head.docs, p), corpus[p])]

Reused == {p \in DOMAIN Verdicts : Verdicts[p] = 0}

Moved(r, a) == [old |-> r[1], new |-> a[1], kind |-> "moved"]
Removed(r) == [old |-> r[1], new |-> 0, kind |-> "removed"]
Added(a) == [old |-> 0, new |-> a[1], kind |-> "added"]

\* Fault: a removed file is linked to the first added file of its digest.
ResolveFirst(removed, added) ==
    LET Linked(r, a) == r[2] = a[2] /\ \A b \in added : b[2] = r[2] => a[1] <= b[1]
    IN  {Moved(q[1], q[2]) : q \in {c \in removed \X added : Linked(c[1], c[2])}}
        \cup {Removed(r) : r \in {q \in removed : ~\E a \in added : Linked(q, a)}}
        \cup {Added(a) : a \in {q \in added : ~\E r \in removed : Linked(r, q)}}

(* lineage.resolve: a digest that one removed and one added path share is  *)
(* a move, every other group stays removed and added.                      *)
Resolve(removed, added) ==
    LET Of(side, d) == {q \in side : q[2] = d}
        digests == {q[2] : q \in removed \cup added}
        IsMove(d) == Cardinality(Of(removed, d)) = 1 /\ Cardinality(Of(added, d)) = 1
    IN  UNION {IF IsMove(d)
               THEN {Moved(q[1], q[2]) : q \in Of(removed, d) \X Of(added, d)}
               ELSE {Removed(r) : r \in Of(removed, d)} \cup {Added(a) : a \in Of(added, d)}
               : d \in digests}

Gen == Len(published)

\* Fault: a new path is established at the generation the build started from.
EstablishEarly == [p \in DOMAIN head.established \cup Present(corpus) |->
    IF p \in DOMAIN head.established THEN head.established[p] ELSE Gen - 1]

(* cmd_build keeps the establishment generations it loaded, of removed     *)
(* paths too, and adds the new paths.                                      *)
Establish == [p \in DOMAIN head.established \cup Present(corpus) |->
    IF p \in DOMAIN head.established THEN head.established[p] ELSE Gen]

Snapshot(docs, terms, tables, established) ==
    [docs |-> docs, terms |-> terms, syms |-> tables.syms, headings |-> tables.headings,
     rels |-> tables.rels, press |-> tables.press, established |-> established,
     crc |-> [p \in Present(corpus) |-> Hint[corpus[p]]]]

Rows == [k \in {KindOf[p] : p \in Paths} |-> [c \in DOMAIN Lines |-> ExtractFile(k, Lines[c])]]

Extracted(p) == Rows[KindOf[p]][corpus[p]]

NoTables == [syms |-> {}, headings |-> {}, rels |-> {}, press |-> {}]

TablesOf(files) == Globalize([p \in Present(files) |-> Rows[KindOf[p]][files[p]]])
FullTables == TablesOf(corpus)

Publish(snap, mode) ==
    /\ head' = snap
    /\ published' = Append(published, Present(corpus))
    /\ before' = head.docs
    /\ outcome' = mode
    /\ UNCHANGED corpus

(* An exception of extract_file leaves the store as it was. *)
BuildFails(fresh) ==
    /\ \E p \in fresh : Extracted(p).raised
    /\ outcome' = "failed"
    /\ UNCHANGED <<corpus, head, published, before, rich, lineage>>

BuildFull(isRich) ==
    /\ Gen < MaxGen
    /\ isRich => ~\E p \in Present(corpus) : Extracted(p).raised
    /\ Publish(Snapshot(DocRows(corpus), TermRows(corpus),
                        IF isRich THEN FullTables ELSE NoTables,
                        [p \in Present(corpus) |-> Gen]), "full")
    /\ rich' = isRich
    /\ lineage' = {}

(* incremental_snapshot, and incremental_snapshot_v2 when it is rich, then *)
(* the publication and the lineage report of cmd_build.                    *)
BuildIncremental(isRich) ==
    /\ Gen \in 1..(MaxGen - 1)
    /\ isRich => ~\E p \in Present(corpus) \ Reused : Extracted(p).raised
    /\ LET perFile == [p \in Present(corpus) |->
               IF p \in Reused THEN FileRichFromRecords(p, head) ELSE Extracted(p)]
           kept(rows) == {r \in rows : r.path \in Reused}
           fresh(rows) == {r \in rows : r.path \notin Reused}
       IN  Publish(Snapshot(kept(head.docs) \cup fresh(DocRows(corpus)),
                            kept(head.terms) \cup fresh(TermRows(corpus)),
                            IF isRich THEN Globalize(perFile) ELSE NoTables,
                            Establish), "incremental")
    /\ rich' = (rich /\ isRich)
    /\ lineage' = Resolve({<<p, DigestIn(head.docs, p)>> : p \in {q \in DOMAIN Verdicts : Verdicts[q] = 2}},
                          {<<p, corpus[p]>> : p \in {q \in DOMAIN Verdicts : Verdicts[q] = 1}})

BuildFullFails == Gen < MaxGen /\ BuildFails(Present(corpus))
BuildIncrementalFails == Gen \in 1..(MaxGen - 1) /\ BuildFails(Present(corpus) \ Reused)

Next ==
    \/ \E p \in Paths : \E c \in Contents[p] \cup {Absent} : Edit(p, c)
    \/ \E isRich \in BOOLEAN : BuildFull(isRich)
    \/ \E isRich \in BOOLEAN : BuildIncremental(isRich)
    \/ BuildFullFails
    \/ BuildIncrementalFails

Spec == Init /\ [][Next]_vars

-----------------------------------------------------------------------------
(* Properties *)

Tables(snap) ==
    [syms |-> snap.syms, headings |-> snap.headings, rels |-> snap.rels, press |-> snap.press]

(* However a snapshot was reached, through whatever edits, reuses, hints   *)
(* that collide and reappearing files, it is the one a full build of the   *)
(* same corpus gives: the documents and terms always, the rich tables when *)
(* every build since the last full one was rich.                           *)
IncrementalIsRebuild ==
    outcome = "incremental" =>
        /\ head.docs = DocRows(corpus) /\ head.terms = TermRows(corpus)
        /\ rich => Tables(head) = FullTables

(* The lineage of an incremental build names every path that went and      *)
(* every path that came exactly once, and calls two of them a move when,   *)
(* and only when, their bytes are the same and nothing else that went or   *)
(* came has those bytes.                                                   *)
LineageExact ==
    outcome = "incremental" =>
        LET went == {p \in Paths : DigestIn(before, p) # Absent /\ corpus[p] = Absent}
            came == {p \in Paths : DigestIn(before, p) = Absent /\ corpus[p] # Absent}
            Twin(p, q) == DigestIn(before, p) = corpus[q]
        IN  /\ \A p \in went : Cardinality({l \in lineage : l.old = p}) = 1
            /\ \A q \in came : Cardinality({l \in lineage : l.new = q}) = 1
            /\ \A l \in lineage : (l.old = 0 \/ l.old \in went) /\ (l.new = 0 \/ l.new \in came)
            /\ \A p \in went, q \in came :
                  (\E l \in lineage : l.old = p /\ l.new = q) <=>
                      /\ Twin(p, q)
                      /\ \A r \in went : Twin(r, q) => r = p
                      /\ \A r \in came : Twin(p, r) => r = q

(* The establishment generation reported for a path that is in the index   *)
(* is a generation that carried it, through removals and returns.          *)
EstablishedCarried ==
    \A d \in head.docs :
        /\ d.path \in DOMAIN head.established
        /\ head.established[d.path] \in 0..(Gen - 1)
        /\ d.path \in published[head.established[d.path] + 1]

LinesSeen == {c \in DOMAIN Lines : \A line \in Elements(Lines[c]) : SeamsSeenIn(line)}
LinesSplit == {c \in DOMAIN Lines : \A line \in Elements(Lines[c]) : TokensAreRunsIn(line)}

(* No link of a file escapes the kernel because it lies on the boundary of *)
(* two 64-byte windows, and none is seen that is not there.                *)
SeamsSeen == \A p \in Present(corpus) : corpus[p] \in LinesSeen

(* The tokens of a line are its whole runs of symbol bytes within the      *)
(* bound, in order: no token is a piece of a longer run.                   *)
TokensAreRuns == \A p \in Present(corpus) : corpus[p] \in LinesSplit

(* take_dotted_name skips a name it cannot take; no file of the corpus     *)
(* makes a build fail.                                                     *)
NamesAreSkipped == outcome # "failed"
=============================================================================
