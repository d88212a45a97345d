------------------------------ MODULE MCGraph ------------------------------
EXTENDS Graph

T(dep, def) == [depends |-> dep, defines |-> def]

(* A chain, a cycle, a diamond with a long and a short way, two waves that *)
(* overlap, a path that is also the name of a symbol, and every depends-on  *)
(* relation over two ids, with one or both of their symbols defined.       *)
MCTables ==
    { T({<<1, 1>>, <<2, 2>>, <<3, 3>>}, {<<2, 1>>, <<3, 2>>, <<4, 3>>}),
      T({<<1, 1>>, <<2, 2>>, <<3, 3>>}, {<<2, 1>>, <<3, 2>>, <<1, 3>>}),
      T({<<1, 1>>, <<1, 2>>, <<2, 3>>, <<3, 4>>}, {<<3, 1>>, <<2, 2>>, <<3, 3>>, <<4, 4>>}),
      T({<<4, 1>>, <<3, 2>>, <<3, 3>>, <<2, 4>>}, {<<1, 1>>, <<1, 2>>, <<4, 3>>, <<3, 4>>}),
      T({<<3, 1>>, <<4, 1>>, <<3, 2>>, <<4, 2>>}, {<<1, 1>>, <<2, 2>>}),
      T({<<3, 1>>, <<4, 3>>, <<1, 4>>}, {<<2, 1>>, <<1, 3>>}) }
    \cup {T(dep, def) : dep \in SUBSET ((1..2) \X (1..2)),
                     def \in {{<<1, 1>>}, {<<1, 1>>, <<2, 2>>}}}

MCQueries ==
    {[direction |-> "forward", ids |-> {id}] : id \in Ids}
    \cup {[direction |-> "reverse", ids |-> ids] : ids \in {s \in SUBSET Ids : Cardinality(s) < 3}}
=============================================================================
