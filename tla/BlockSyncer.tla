---------------------------- MODULE BlockSyncer ----------------------------
(***************************************************************************)
(* The block syncer: per database a service whose goroutines learn the     *)
(* height of the chain, fetch blocks ahead into a map until they have      *)
(* caught up, enqueue heights, and index one block after the other, event  *)
(* by event and without a transaction around them.  A backup service may   *)
(* build a second database, which becomes the master when it is close      *)
(* enough.  Both services use one map, under the same keys (Name() is the  *)
(* same for both).  A client lists objects from the database the metadata  *)
(* service reads, page by page, meanwhile.                                 *)
(***************************************************************************)
EXTENDS PrefixTree

CONSTANTS
  Setups,               \* what may be indexed: the chain's blocks, whether there is a
                        \* backup, the blocks fetched at a time (Parser.Workers), the
                        \* listing (list: "none", "folder" or "all"), and the bound on
                        \* restarts and failing statements
  MaxHeightGapFactor,
  QueueSize,            \* the size of the export queue
  DefaultBlockHeightDiff,
  MaxKeys               \* the entries of a page

VARIABLES
  setup,      \* the one of Setups
  height,     \* the height of the chain
  svc,        \* per service: its goroutines, and its database (epoch, tree, objects)
  blocks,     \* blockMap, eventMap and txMap: the heights fetched
  isMaster,   \* the flag: the main database is the master
  check,      \* CheckProgress
  list,       \* the client's listing
  faults      \* the restarts and failing statements so far

vars == <<setup, height, svc, blocks, isMaster, check, list, faults>>

Services == IF setup.dual THEN {"main", "backup"} ELSE {"main"}
chain == setup.chain
Workers == setup.workers

\* determineMainService: who is the main service of this run.
MainService == IF isMaster THEN "main" ELSE "backup"
BackupService == IF isMaster THEN "backup" ELSE "main"

\* A service as serve starts it on a database that has come to the height epoch;
\* again says whether part of a block was indexed twice: not at all ("no"), before
\* this block ("before"), or the block after epoch is in the tree in part ("now").
Served(latest, epoch, tree, objects, again) ==
  [on |-> TRUE, latest |-> latest, flag |-> -1, start |-> epoch + 1, cycle |-> 0,
   fetching |-> {}, next |-> epoch + 1, queue |-> << >>, at |-> 0, event |-> 0,
   processed |-> 0, epoch |-> epoch, tree |-> tree, objects |-> objects,
   again |-> again]

\* The height of the chain, or zero after too many failures.
mustGetLatestHeight == {0, height}

\* The metadata service reads the main database until it is told otherwise.
NoListing == [pc |-> "none", db |-> "main", token |-> << >>, got |-> EmptyBag, always |-> {}]

\* The flag that is put into a new database.
prepareMasterFlagTable == TRUE

Init ==
  /\ setup \in Setups
  /\ height = 1
  /\ \E l \in mustGetLatestHeight : svc = [s \in Services |-> Served(l, 0, EmptyBag, {}, "no")]
  /\ blocks = {}
  /\ isMaster = prepareMasterFlagTable
  /\ check = [pc |-> IF setup.dual THEN "main" ELSE "done", epoch |-> 0]
  /\ list = NoListing
  /\ faults = 0

Set(s, field, value) == svc' = [svc EXCEPT ![s][field] = value]

------------------------------------------------------------------------------
NewBlock ==
  /\ height < Len(chain)
  /\ height' = height + 1
  /\ UNCHANGED <<setup, svc, blocks, isMaster, check, list, faults>>

getLatestBlockHeight(s) ==
  /\ svc[s].on /\ svc[s].latest < height
  /\ Set(s, "latest", height)
  /\ UNCHANGED <<setup, height, blocks, isMaster, check, list, faults>>

\* The first height of the next cycle, and whether fetching ahead has ended.
Ahead(s) == Workers * svc[s].cycle + svc[s].start
Ended(s) == svc[s].flag # -1

\* Mutant: the flag says that one block more has been fetched.
BugQuickFetchEnds(s) ==
  /\ ~ Ended(s) /\ svc[s].fetching = {}
  /\ svc[s].latest < Ahead(s) + Workers - 1
  /\ Set(s, "flag", Ahead(s))
  /\ UNCHANGED <<setup, height, blocks, isMaster, check, list, faults>>

\* Fewer blocks are left than fetched at a time: the rest is taken from the node.
QuickFetchEnds(s) ==
  /\ ~ Ended(s) /\ svc[s].fetching = {}
  /\ svc[s].latest < Ahead(s) + Workers - 1
  /\ Set(s, "flag", Ahead(s) - 1)
  /\ UNCHANGED <<setup, height, blocks, isMaster, check, list, faults>>

\* The next cycle, unless the fetched blocks are too far ahead of the indexed ones; the
\* difference is one of unsigned numbers, so that a negative one is too far as well.
quickFetchBlockData(s) ==
  /\ ~ Ended(s) /\ svc[s].fetching = {}
  /\ svc[s].latest >= Ahead(s) + Workers - 1
  /\ svc[s].processed # 0 =>
       Ahead(s) - svc[s].processed \in 0..(MaxHeightGapFactor * Workers)
  /\ Set(s, "fetching", Ahead(s)..(Ahead(s) + Workers - 1))
  /\ UNCHANGED <<setup, height, blocks, isMaster, check, list, faults>>

\* One goroutine of the cycle has its block; the last ends the cycle.
fetchData(s) ==
  /\ \E h \in svc[s].fetching :
       /\ blocks' = blocks \cup {h}
       /\ svc' = [svc EXCEPT ![s].fetching = @ \ {h},
                             ![s].cycle = IF svc[s].fetching = {h} THEN @ + 1 ELSE @]
  /\ UNCHANGED <<setup, height, isMaster, check, list, faults>>

enqueueNewBlocks(s) ==
  /\ svc[s].on /\ svc[s].next <= svc[s].latest /\ Len(svc[s].queue) < QueueSize
  /\ svc' = [svc EXCEPT ![s].queue = Append(@, svc[s].next), ![s].next = @ + 1]
  /\ UNCHANGED <<setup, height, blocks, isMaster, check, list, faults>>

------------------------------------------------------------------------------
\* The worker takes the next height; one that was indexed before is left out.
Processed(s) ==
  LET h == Head(svc[s].queue)
  IN  /\ svc[s].at = 0 /\ svc[s].queue # << >>
      /\ svc' = [svc EXCEPT ![s].queue = Tail(@), ![s].at = IF svc[s].epoch > h THEN 0 ELSE h]
      /\ blocks' = IF svc[s].epoch > h THEN blocks \ {h} ELSE blocks
      /\ UNCHANGED <<setup, height, isMaster, check, list, faults>>

\* The block comes out of the map if it is one of those fetched ahead, and otherwise
\* from the node.  While it is missing the worker tries again.
LoadBlock(s) ==
  LET h == svc[s].at
  IN  /\ h # 0 /\ svc[s].event = 0
      /\ ~ Ended(s) \/ svc[s].flag >= h => h \in blocks
      /\ Set(s, "event", 1)
      /\ UNCHANGED <<setup, height, blocks, isMaster, check, list, faults>>

\* What is listed of the database of s, if it has these rows.
Entries(tree, objects) ==
  IF setup.list = "all" THEN objects
                        ELSE {row \in BagToSet(tree) : PathName(row) = setup.folder}

\* Those of begin block, the transactions and end block, in this order.
EventsOf(h) == chain[h]

\* A created object is put into the table of objects, and then into the tree.
ExportEvent(s) ==
  LET e == svc[s].event
      event == EventsOf(svc[s].at)[e]
      tree == HandleEvent(svc[s].tree, event)
      objects == IF event.kind = "create" THEN svc[s].objects \cup {Object(event.path, event.id)}
                                          ELSE svc[s].objects
  IN  /\ svc[s].at # 0 /\ e \in 1..Len(EventsOf(svc[s].at))
      /\ svc' = [svc EXCEPT ![s].event = e + 1, ![s].tree = tree, ![s].objects = objects]
      /\ list' = IF s = list.db THEN [list EXCEPT !.always = @ \cap Entries(tree, objects)] ELSE list
      /\ UNCHANGED <<setup, height, blocks, isMaster, check, faults>>

\* The height is saved last, and the fetched block given up.
ExportEpoch(s) ==
  LET h == svc[s].at
  IN  /\ h # 0 /\ svc[s].event > Len(EventsOf(h))
      /\ svc' = [svc EXCEPT ![s].epoch = h, ![s].processed = h, ![s].at = 0, ![s].event = 0,
                             ![s].again = IF @ = "now" THEN "before" ELSE @]
      /\ blocks' = blocks \ {h}
      /\ UNCHANGED <<setup, height, isMaster, check, list, faults>>

IndexedAgain(s) == IF svc[s].event > 1 THEN "now" ELSE svc[s].again

\* A statement fails: Process returns, and the worker starts the block again.
ProcessFails(s) ==
  /\ svc[s].event # 0 /\ faults < setup.faults
  /\ svc' = [svc EXCEPT ![s].event = 0, ![s].again = IndexedAgain(s)]
  /\ faults' = faults + 1
  /\ UNCHANGED <<setup, height, blocks, isMaster, check, list>>

\* The process stops and starts again from what is in the databases.
Restart ==
  /\ faults < setup.faults
  /\ faults' = faults + 1
  /\ \E l \in mustGetLatestHeight : svc' =
       [s \in Services |-> Served(l, svc[s].epoch, svc[s].tree, svc[s].objects, IndexedAgain(s))]
  /\ blocks' = {}
  /\ check' = [pc |-> IF setup.dual THEN "main" ELSE "done", epoch |-> 0]
  /\ UNCHANGED <<setup, height, isMaster, list>>

------------------------------------------------------------------------------
\* CheckProgress reads the height of the main service, then that of the backup.
CheckMain ==
  /\ check.pc = "main"
  /\ check' = [pc |-> "backup", epoch |-> svc[MainService].epoch]
  /\ UNCHANGED <<setup, height, svc, blocks, isMaster, list, faults>>

CheckProgress ==
  /\ check.pc = "backup"
  /\ check' = [check EXCEPT !.pc =
       IF check.epoch - svc[BackupService].epoch < DefaultBlockHeightDiff THEN "switch" ELSE "main"]
  /\ UNCHANGED <<setup, height, svc, blocks, isMaster, list, faults>>

SetMasterDB(flag) == isMaster' = flag

\* The main service is stopped even if the flag could not be switched.
SwitchMasterDBFlag ==
  /\ check.pc = "switch"
  /\ \E ok \in BOOLEAN :
       /\ ok \/ faults < setup.faults
       /\ IF ok THEN SetMasterDB(~ isMaster) ELSE UNCHANGED isMaster
       /\ faults' = IF ok THEN faults ELSE faults + 1
  /\ Set(MainService, "on", FALSE)
  /\ check' = [check EXCEPT !.pc = "done"]
  /\ UNCHANGED <<setup, height, blocks, list>>

------------------------------------------------------------------------------
\* The metadata service finds that the master has changed and reads the other database;
\* what is not there yet has not been listed all the time.
checkSignal ==
  LET db == IF isMaster THEN "main" ELSE "backup"
  IN  /\ setup.list # "none" /\ list.db # db
      /\ list' = [list EXCEPT !.db = db, !.always = @ \cap Entries(svc[db].tree, svc[db].objects)]
      /\ UNCHANGED <<setup, height, svc, blocks, isMaster, check, faults>>

\* A client lists page by page; always is what has been there all the time.
StartList ==
  /\ setup.list # "none" /\ list.pc = "none"
  /\ list' = [list EXCEPT !.pc = "page",
                          !.always = Entries(svc[list.db].tree, svc[list.db].objects)]
  /\ UNCHANGED <<setup, height, svc, blocks, isMaster, check, faults>>

\* A page, and the row after it as the next continuation token; without such a row
\* the listing ends.
GfSpListObjectsByBucketName(db, token) ==
  LET rows == ListObjectsByBucketName(svc[db].tree, svc[db].objects, setup.list = "folder",
                                      setup.folder, token, MaxKeys)
      more == Len(rows) = MaxKeys + 1
  IN  [page |-> SubSeq(rows, 1, Min({Len(rows), MaxKeys})), isTruncated |-> more,
       nextContinuationToken |-> IF more THEN FullName(rows[MaxKeys + 1]) ELSE << >>]

\* A request for the next page; the token given with the page before passes the checks.
listObjectsByBucketNameHandler ==
  LET resp == GfSpListObjectsByBucketName(list.db, list.token)
  IN  /\ list.pc = "page"
      /\ list' = [list EXCEPT !.pc = IF resp.isTruncated THEN "page" ELSE "listed",
                              !.token = resp.nextContinuationToken,
                              !.got = @ (+) SetToBag(ToSet(resp.page))]
      /\ UNCHANGED <<setup, height, svc, blocks, isMaster, check, faults>>

\* The call of the metadata service fails, and the client gives up; a client that asks
\* for the page again is where it was.
ListFails ==
  /\ list.pc = "page"
  /\ list' = [list EXCEPT !.pc = "failed"]
  /\ UNCHANGED <<setup, height, svc, blocks, isMaster, check, faults>>

------------------------------------------------------------------------------
ServiceStep(s) ==
  \/ getLatestBlockHeight(s) \/ QuickFetchEnds(s) \/ quickFetchBlockData(s) \/ fetchData(s)
  \/ enqueueNewBlocks(s) \/ Processed(s) \/ LoadBlock(s) \/ ExportEvent(s) \/ ExportEpoch(s)

Next ==
  \/ NewBlock
  \/ \E s \in Services : ServiceStep(s) \/ ProcessFails(s)
  \/ Restart
  \/ CheckMain \/ CheckProgress \/ SwitchMasterDBFlag
  \/ checkSignal \/ StartList \/ listObjectsByBucketNameHandler \/ ListFails

\* Every goroutine of the service goes on; failing calls are made again until they
\* succeed.
Spec ==
  /\ Init /\ [][Next]_vars
  /\ WF_vars(getLatestBlockHeight("main"))
  /\ WF_vars(QuickFetchEnds("main") \/ quickFetchBlockData("main") \/ fetchData("main"))
  /\ WF_vars(enqueueNewBlocks("main"))
  /\ WF_vars(Processed("main") \/ LoadBlock("main") \/ ExportEvent("main") \/ ExportEpoch("main"))

------------------------------------------------------------------------------
\* Between two blocks the tree of a database has exactly the objects the chain has
\* left at its height, and exactly their folders; when part of a block was indexed
\* twice (ProcessFails, Restart) folders may be missing, but none is left without an
\* object (handleCreateObject, deleteObject, Process).
TreeFollowsChain ==
  \A s \in Services : svc[s].event = 0 /\ svc[s].again # "now" =>
    LET done == FlattenSeq(SubSeq(chain, 1, svc[s].epoch))
        rows == BagToSet(svc[s].tree)
        objects == Live(done)
    IN  /\ {row \in rows : row.object} = objects
        /\ {row \in rows : ~ row.object} \subseteq Folders(objects)
        /\ svc[s].again = "no" => Folders(objects) \subseteq rows

\* However often events are handled again, no object or folder is in the tree twice.
NoRowTwice == \A s \in Services : \A row \in BagToSet(svc[s].tree) : svc[s].tree[row] = 1

\* A listing in pages gives every entry that was there all the time, and gives it once,
\* while blocks are indexed and across a change of the database (ListObjects and its
\* continuation tokens, checkSignal).
ListingComplete ==
  list.pc = "listed" => list.always \subseteq BagToSet(list.got)
                        /\ \A row \in list.always : list.got[row] = 1

\* A service without a backup catches up with the chain again and again, through the
\* change from the map to the node, restarts and failing statements.
CatchesUp == []<>(~ setup.dual => svc["main"].epoch = height)
=============================================================================
