----------------------------- MODULE PrefixTree -----------------------------
(***************************************************************************)
(* The table slash_prefix_tree_nodes of one bucket: a row for every object *)
(* and for every folder on the way to it, kept by the events of the chain, *)
(* and the listing of a folder from it.  An object name is the sequence of *)
(* its parts between slashes, and a folder the sequence of the parts on    *)
(* the way to it; parts are numbers, ordered as the strings are.  Names    *)
(* do not start with a slash.  The table is a bag: nothing but the handler *)
(* keeps a row from being inserted twice.                                  *)
(***************************************************************************)
EXTENDS Integers, Bags, SequencesExt

Object(path, id) == [full |-> path, object |-> TRUE, id |-> id]
Folder(path) == [full |-> path, object |-> FALSE, id |-> 0]

\* path_name of a row: the folder it is in.
PathName(row) == Front(row.full)

\* The folders of an object, given by their number of parts.
Depths(path) == 1..(Len(path) - 1)
To(path, i) == SubSeq(path, 1, i)

GetPrefixTree(tree, path) == BagIn(Folder(path), tree)
GetPrefixTreeObject(tree, id) == \E row \in BagToSet(tree) : row.id = id /\ row.object

GetPrefixTreeCount(tree, path) ==
  LET rows == {row \in BagToSet(tree) : PathName(row) = path}
  IN  BagCardinality([row \in rows |-> tree[row]])

\* One statement each: nothing is seen of a part of it.
CreatePrefixTree(tree, rows) == tree (+) SetToBag(rows)
DeletePrefixTree(tree, rows) == [row \in BagToSet(tree) \ rows |-> tree[row]]

\* Mutant: the object is inserted without looking for it.
BugHandleCreateObject(tree, path, id) ==
  LET missing == {i \in Depths(path) :
                    \A j \in i..(Len(path) - 1) : ~ GetPrefixTree(tree, To(path, j))}
  IN  CreatePrefixTree(tree, {Folder(To(path, i)) : i \in missing} \cup {Object(path, id)})

\* From the deepest folder up to the first that exists, and the object itself.
handleCreateObject(tree, path, id) ==
  LET missing == {i \in Depths(path) :
                    \A j \in i..(Len(path) - 1) : ~ GetPrefixTree(tree, To(path, j))}
      object == IF GetPrefixTreeObject(tree, id) THEN {} ELSE {Object(path, id)}
  IN  CreatePrefixTree(tree, {Folder(To(path, i)) : i \in missing} \cup object)

\* The object rows of a name, whatever the id.
Named(tree, path) == {row \in BagToSet(tree) : row.full = path /\ row.object}

\* Mutant: a folder with one other entry is taken for empty.
BugDeleteObject(tree, path) ==
  LET empty == {i \in Depths(path) :
                  \A j \in i..(Len(path) - 1) : GetPrefixTreeCount(tree, To(path, j)) <= 2}
  IN  DeletePrefixTree(tree, Named(tree, path) \cup {Folder(To(path, i)) : i \in empty})

\* The object by its name, and from the deepest folder up to the first that holds
\* another entry.  Deleted, cancelled and rejected objects are removed alike.
deleteObject(tree, path) ==
  LET empty == {i \in Depths(path) :
                  \A j \in i..(Len(path) - 1) : GetPrefixTreeCount(tree, To(path, j)) <= 1}
  IN  DeletePrefixTree(tree, Named(tree, path) \cup {Folder(To(path, i)) : i \in empty})

HandleEvent(tree, event) ==
  IF event.kind = "create" THEN handleCreateObject(tree, event.path, event.id)
                           ELSE deleteObject(tree, event.path)

------------------------------------------------------------------------------
(* Listing: with a delimiter the rows of a folder, without one the rows of *)
(* the table of objects, in the order of their names and a page at a time. *)

\* The name of a folder ends in a slash, so that "x" comes before "x/".
FullName(row) == IF row.object THEN row.full ELSE Append(row.full, 0)

Before(s, t) ==
  \/ IsStrictPrefix(s, t)
  \/ \E i \in DOMAIN s \cap DOMAIN t : s[i] < t[i] /\ \A j \in 1..(i - 1) : s[j] = t[j]

\* Mutant: the next page starts after the token.
BugFullNameFilter(rows, token) == {row \in rows : Before(token, FullName(row))}

\* full_name >= token; the empty token of a first page is before all names.
FullNameFilter(rows, token) == {row \in rows : ~ Before(FullName(row), token)}

InOrder(rows, limit) ==
  LET sorted == SetToSortSeq(rows, LAMBDA a, b : \/ Before(FullName(a), FullName(b))
                                                 \/ FullName(a) = FullName(b) /\ a.id < b.id)
  IN  SubSeq(sorted, 1, Min({Len(sorted), limit}))

\* An object of the tree without a row in the table of objects is left out.
filterObjects(nodes, objects) == SelectSeq(nodes, LAMBDA row : row.object => row \in objects)

ListObjects(tree, objects, folder, token, maxKeys) ==
  LET rows == {row \in BagToSet(tree) : PathName(row) = folder}
  IN  filterObjects(InOrder(FullNameFilter(rows, token), maxKeys + 1), objects)

\* One row more than asked for, which the next page is to start with.  Removed objects
\* are listed with the others.
ListObjectsByBucketName(tree, objects, delimiter, folder, token, maxKeys) ==
  IF delimiter THEN ListObjects(tree, objects, folder, token, maxKeys)
               ELSE InOrder(FullNameFilter(objects, token), maxKeys + 1)

------------------------------------------------------------------------------
(* The reference: the objects a sequence of events leaves, and their rows. *)

Live(events) ==
  FoldLeft(LAMBDA objects, e :
             IF e.kind = "create" THEN objects \cup {Object(e.path, e.id)}
                                  ELSE {o \in objects : o.full # e.path},
           {}, events)

Folders(objects) == UNION {{Folder(To(o.full, i)) : i \in Depths(o.full)} : o \in objects}
=============================================================================
