--------------------------- MODULE MCBlockSyncer ---------------------------
(* Small instances of BlockSyncer.                                         *)
EXTENDS BlockSyncer

\* Events that create an object that is not there and delete one that is; ids are the
\* places of the events.
Toggle(paths) ==
  [i \in 1..Len(paths) |->
     LET before == Cardinality({j \in 1..(i - 1) : paths[j] = paths[i]})
     IN  [kind |-> IF before % 2 = 0 THEN "create" ELSE "delete", path |-> paths[i], id |-> i]]

\* The events in blocks of the given sizes.
Cut(events, sizes) ==
  [b \in 1..Len(sizes) |->
     LET before == FoldLeft(LAMBDA a, n : a + n, 0, SubSeq(sizes, 1, b - 1))
     IN  SubSeq(events, before + 1, before + sizes[b])]

File == <<1, 2>>
Nested == <<1, 3, 4>>
Deep == <<1, 3, 5>>

Of(paths, sizes, workers, dual, what, bound) ==
  [chain |-> Cut(Toggle(paths), sizes), workers |-> workers, dual |-> dual, list |-> what,
   folder |-> <<1>>, faults |-> bound]

MCSetups ==
  {Of(paths, <<2, 0, 2>>, w, FALSE, "none", 2) : w \in 1..2, paths \in [1..4 -> {File, Nested}]} \cup
  {Of(<<File, Nested, Deep, Nested, Deep>>, <<2, 1, 2>>, 1, FALSE, "folder", 2),
   Of(<<Nested, File, Deep>>, <<1, 2>>, 1, FALSE, "all", 1),
   Of(<<File, Nested>>, <<1, 1>>, 1, TRUE, "none", 0),
   Of(<<File, Nested>>, <<2>>, 1, TRUE, "none", 1),
   Of(<<File, Nested>>, <<2>>, 1, TRUE, "folder", 0)}
=============================================================================
