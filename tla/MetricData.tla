----------------------------- MODULE MetricData -----------------------------
(***************************************************************************)
(* The DuckDB file of metric values, and everything that opens it.  A      *)
(* process that starts (the server, or the command line beside it) has     *)
(* ensure_database compare the file with the workbook and, when it is not  *)
(* current, build a new one beside it and put it in the old one's place.   *)
(* In a running process, threads answer queries and publish increments,    *)
(* one at a time under the process's database_lock, each over a connection *)
(* of its own.  DuckDB locks the file between processes: one may write it, *)
(* or any number may read it; within a process, connections that read and  *)
(* connections that write exclude each other.                              *)
(***************************************************************************)
EXTENDS Integers, Sequences

CONSTANTS
    Processes,   \* processes that may run
    Importers,   \* threads that publish
    Readers,     \* threads that query
    Home,        \* thread -> its process
    Keys,        \* (date, metric, organization)
    Values,      \* metric values
    NoValue,     \* a key without a row
    Batches,     \* what an upload may hold: functions on some of the keys, never on none
    Base,        \* the rows of each version of the workbook
    MaxFiles,    \* bound: database files that exist at once
    NoStore, NoRequest, NoBody

Threads == Importers \cup Readers
Actors == Processes \cup Threads
Content == [Keys -> Values \cup {NoValue}]
NoRows == [k \in Keys |-> NoValue]

ASSUME ActorsAssumption ==
    /\ Importers \cap Readers = {}
    /\ Processes \cap Threads = {}
    /\ NoBody \notin Actors
    /\ Home \in [Threads -> Processes]
ASSUME DataAssumption ==
    /\ NoValue \notin Values
    /\ Base \in Seq(Content)
    /\ Base # <<>>
    /\ Batches \subseteq UNION {[K -> Values] : K \in SUBSET Keys \ {{}}}
    /\ MaxFiles \in Nat

VARIABLES
    workbook,   \* version of the workbook on disk
    files,      \* number -> a database file (meaningless when it is free)
    path,       \* name -> number of the file it leads to, 0 for none
    opened,     \* actor -> the file its connection has open, 0 for none
    lock,       \* process -> the thread that holds its database_lock
    pc,         \* actor -> where it stands
    new,        \* process -> the version of the workbook it builds from, or 0
    request,    \* importer -> the upload and the confirmation
    existing,   \* importer -> the values its comparison has read
    tx,         \* importer -> the table as its transaction sees it
    replaced,   \* history: importer -> the keys whose values its commit replaced
    kept,       \* history: the value last published for each key
    asked,      \* history: a rebuild was asked for, or the workbook was changed
    beside,     \* history: a process set out to build while another one ran
    overlapped  \* history: two processes have built at the same time

build == <<workbook, new, asked, beside, overlapped>>
publication == <<request, existing, tx, replaced, kept>>
vars == <<files, path, opened, lock, pc, build, publication>>

Request == [batch : Batches, confirmed : BOOLEAN]
ASSUME NothingAssumption == NoRequest \notin Request /\ NoStore \notin Content

\* bare: no tables; partial: tables, and some of their rows; whole: all rows.
File == [label : 0..Len(Base), state : {"bare", "partial", "whole"}, values : Content]
NewFile(state) == [label |-> 0, state |-> state, values |-> NoRows]

Init ==
    /\ workbook = 1
    /\ files = [f \in 1..MaxFiles |-> NewFile("bare")]
    /\ path = [name \in {"db", "building"} |-> 0]
    /\ opened = [a \in Actors |-> 0]
    /\ lock = [p \in Processes |-> NoBody]
    /\ pc = [a \in Actors |-> IF a \in Processes THEN "off" ELSE "idle"]
    /\ new = [p \in Processes |-> 0]
    /\ request = [i \in Importers |-> NoRequest]
    /\ existing = [i \in Importers |-> NoRows]
    /\ tx = [i \in Importers |-> NoRows]
    /\ replaced = [i \in Importers |-> {}]
    /\ kept = NoRows
    /\ asked = FALSE
    /\ beside = FALSE
    /\ overlapped = FALSE

Goto(a, from, to) == pc[a] = from /\ pc' = [pc EXCEPT ![a] = to]

\* A file that no name leads to and nobody has open is gone; its number is free.
Free == {f \in 1..MaxFiles : /\ \A name \in DOMAIN path : path[name] # f
                             /\ \A a \in Actors : opened[a] # f}
Fresh == CHOOSE f \in Free : \A g \in Free : f <= g

Writes(a) == a \notin Readers
HomeOf(a) == IF a \in Processes THEN a ELSE Home[a]

\* duckdb.connect by actor a fails: another connection to file f is in the way.
Blocked(a, f) ==
    \E b \in Actors \ {a} :
        /\ opened[b] = f
        /\ Writes(a) \/ Writes(b)
        /\ ~(Writes(a) /\ Writes(b) /\ HomeOf(a) = HomeOf(b))

\* The same for the short read-only connections of a process that starts.
Unreadable(f) == \E b \in Actors : opened[b] = f /\ Writes(b)

-----------------------------------------------------------------------------
(* A process starts: ensure_database, then the semantic catalog.           *)

Building(p) == pc[p] \in {"create", "fill", "label", "unlink", "replace", "tidy"}

\* _database_is_current: any exception counts as "not current".
Start(p, force) ==
    LET db == path["db"]
        current == db # 0 /\ files[db].label = workbook /\ ~Unreadable(db)
    IN  /\ Goto(p, "off", IF current /\ ~force THEN "load" ELSE "clean")
        /\ asked' = (asked \/ force)
        /\ beside' = (beside \/ (~current /\ \E q \in Processes \ {p} : pc[q] # "off"))
        /\ UNCHANGED <<files, path, opened, lock, workbook, new, overlapped, publication>>

\* An earlier .building file is removed.
Clean(p) ==
    /\ Goto(p, "clean", "create")
    /\ path' = [path EXCEPT !["building"] = 0]
    /\ overlapped' = (overlapped \/ \E q \in Processes \ {p} : Building(q))
    /\ UNCHANGED <<files, opened, lock, workbook, new, asked, beside, publication>>

MutantCreate(p) ==    \* the new file is built in the place of the old one
    /\ Free # {}
    /\ Goto(p, "create", "fill")
    /\ files' = [files EXCEPT ![Fresh] = NewFile("partial")]
    /\ path' = [path EXCEPT !["db"] = Fresh]
    /\ opened' = [opened EXCEPT ![p] = Fresh]
    /\ new' = [new EXCEPT ![p] = workbook]
    /\ UNCHANGED <<lock, workbook, asked, beside, overlapped, publication>>

\* The workbook is opened and the .building file created.  When another process
\* has created one since Clean, connecting or CREATE TABLE fails (BuildFails).
Create(p) ==
    /\ path["building"] = 0
    /\ Free # {}
    /\ Goto(p, "create", "fill")
    /\ files' = [files EXCEPT ![Fresh] = NewFile("partial")]
    /\ path' = [path EXCEPT !["building"] = Fresh]
    /\ opened' = [opened EXCEPT ![p] = Fresh]
    /\ new' = [new EXCEPT ![p] = workbook]
    /\ UNCHANGED <<lock, workbook, asked, beside, overlapped, publication>>

Fill(p) ==
    /\ Goto(p, "fill", "label")
    /\ files' = [files EXCEPT ![opened[p]] =
                    [@ EXCEPT !.state = "whole", !.values = Base[new[p]]]]
    /\ UNCHANGED <<path, opened, lock, build, publication>>

MutantLabel(p) ==    \* the metadata row is forgotten
    /\ Goto(p, "label", "unlink")
    /\ opened' = [opened EXCEPT ![p] = 0]
    /\ UNCHANGED <<files, path, lock, build, publication>>

\* The metadata row describes the workbook as it is by now.
Label(p) ==
    /\ Goto(p, "label", "unlink")
    /\ files' = [files EXCEPT ![opened[p]].label = workbook]
    /\ opened' = [opened EXCEPT ![p] = 0]
    /\ UNCHANGED <<path, lock, build, publication>>

Unlink(p) ==
    /\ Goto(p, "unlink", "replace")
    /\ path' = [path EXCEPT !["db"] = 0]
    /\ UNCHANGED <<files, opened, lock, build, publication>>

\* os.replace moves whatever the name leads to.
Replace(p) ==
    /\ path["building"] # 0
    /\ Goto(p, "replace", "tidy")
    /\ path' = [db |-> path["building"], building |-> 0]
    /\ new' = [new EXCEPT ![p] = 0]
    /\ UNCHANGED <<files, opened, lock, workbook, asked, beside, overlapped, publication>>

\* The finally clause removes whatever has the name .building by then.
Tidy(p) ==
    /\ Goto(p, "tidy", "load")
    /\ path' = [path EXCEPT !["building"] = 0]
    /\ UNCHANGED <<files, opened, lock, build, publication>>

\* DataBuildError, and the finally clause.
BuildFails(p) ==
    /\ Building(p)
    /\ pc' = [pc EXCEPT ![p] = "off"]
    /\ opened' = [opened EXCEPT ![p] = 0]
    /\ path' = [path EXCEPT !["building"] = 0]
    /\ new' = [new EXCEPT ![p] = 0]
    /\ UNCHANGED <<files, lock, workbook, asked, beside, overlapped, publication>>

\* SemanticCatalog reads the file it finds, or fails and with it the start.
Load(p) ==
    /\ LET db == path["db"]
           readable == db # 0 /\ ~Unreadable(db)
       IN  \/ readable /\ files[db].state # "bare" /\ Goto(p, "load", "ready")
           \/ ~(readable /\ files[db].state = "whole") /\ Goto(p, "load", "off")
    /\ UNCHANGED <<files, path, opened, lock, build, publication>>

\* The process ends or is killed, with all its threads and connections.
Stop(p) ==
    LET gone(a) == HomeOf(a) = p
    IN  /\ pc[p] # "off"
        /\ pc' = [a \in Actors |-> IF ~gone(a) THEN pc[a]
                                   ELSE IF a = p THEN "off" ELSE "idle"]
        /\ opened' = [a \in Actors |-> IF gone(a) THEN 0 ELSE opened[a]]
        /\ lock' = [lock EXCEPT ![p] = NoBody]
        /\ request' = [i \in Importers |-> IF gone(i) THEN NoRequest ELSE request[i]]
        /\ existing' = [i \in Importers |-> IF gone(i) THEN NoRows ELSE existing[i]]
        /\ tx' = [i \in Importers |-> IF gone(i) THEN NoRows ELSE tx[i]]
        /\ replaced' = [i \in Importers |-> IF gone(i) THEN {} ELSE replaced[i]]
        /\ new' = [new EXCEPT ![p] = 0]
        /\ UNCHANGED <<files, path, workbook, asked, beside, overlapped, kept>>

\* Somebody puts a newer workbook in place.
ChangeWorkbook ==
    /\ workbook < Len(Base)
    /\ workbook' = workbook + 1
    /\ asked' = TRUE
    /\ UNCHANGED <<files, path, opened, lock, pc, new, beside, overlapped, publication>>

-----------------------------------------------------------------------------
(* publish.                                                                *)

Overwritten(content, batch) ==
    {k \in DOMAIN batch : content[k] \notin {NoValue, batch[k]}}
Inserted(content, batch) == {k \in DOMAIN batch : content[k] = NoValue}
Written(content, batch, K) == [k \in Keys |-> IF k \in K THEN batch[k] ELSE content[k]]

Ask(i) ==
    /\ pc[Home[i]] = "ready"
    /\ Goto(i, "idle", "waiting")
    /\ \E r \in Request : request' = [request EXCEPT ![i] = r]
    /\ UNCHANGED <<files, path, opened, lock, build, existing, tx, replaced, kept>>

MutantConnect(i) ==    \* the lock is not taken
    /\ path["db"] # 0 /\ ~Blocked(i, path["db"])
    /\ Goto(i, "waiting", "compare")
    /\ lock' = [lock EXCEPT ![Home[i]] = i]
    /\ opened' = [opened EXCEPT ![i] = path["db"]]
    /\ UNCHANGED <<files, path, build, publication>>

\* The lock is taken and the file opened for writing, which creates it when it
\* is not there.
Connect(i) ==
    /\ lock[Home[i]] = NoBody
    /\ lock' = [lock EXCEPT ![Home[i]] = i]
    /\ \/ /\ path["db"] # 0 /\ ~Blocked(i, path["db"])
          /\ Goto(i, "waiting", "compare")
          /\ opened' = [opened EXCEPT ![i] = path["db"]]
          /\ UNCHANGED <<files, path>>
       \/ /\ path["db"] = 0 /\ Free # {}
          /\ Goto(i, "waiting", "compare")
          /\ files' = [files EXCEPT ![Fresh] = NewFile("bare")]
          /\ path' = [path EXCEPT !["db"] = Fresh]
          /\ opened' = [opened EXCEPT ![i] = Fresh]
       \/ /\ path["db"] # 0 /\ Blocked(i, path["db"])
          /\ Goto(i, "waiting", "close")
          /\ UNCHANGED <<files, path, opened>>
    /\ UNCHANGED <<build, publication>>

\* _catalog, _parse and _compare.  Overwriting needs the confirmation.
Compare(i) ==
    LET file == files[opened[i]]
    IN  /\ pc[i] = "compare" /\ file.state # "bare"
        /\ existing' = [existing EXCEPT ![i] = file.values]
        /\ Goto(i, "compare",
                IF request[i].confirmed \/ Overwritten(file.values, request[i].batch) = {}
                THEN "insert" ELSE "close")
        /\ UNCHANGED <<files, path, opened, lock, build, request, tx, replaced, kept>>

MutantInsert(i) ==    \* no BEGIN: the rows are stored at once
    /\ Goto(i, "insert", "update")
    /\ files' = [files EXCEPT ![opened[i]].values =
                    Written(@, request[i].batch, Inserted(existing[i], request[i].batch))]
    /\ tx' = [tx EXCEPT ![i] = files'[opened[i]].values]
    /\ UNCHANGED <<path, opened, lock, build, request, existing, replaced, kept>>

\* BEGIN and the new rows; a row that is there by now violates the primary key
\* (then only PublishFails is possible).
Insert(i) ==
    LET values == files[opened[i]].values
        rows == Inserted(existing[i], request[i].batch)
    IN  /\ Goto(i, "insert", "update")
        /\ rows \subseteq Inserted(values, request[i].batch)
        /\ tx' = [tx EXCEPT ![i] = Written(values, request[i].batch, rows)]
        /\ UNCHANGED <<files, path, opened, lock, build, request, existing, replaced, kept>>

Update(i) ==
    /\ Goto(i, "update", "commit")
    /\ tx' = [tx EXCEPT ![i] = Written(@, request[i].batch,
                                       Overwritten(existing[i], request[i].batch))]
    /\ UNCHANGED <<files, path, opened, lock, build, request, existing, replaced, kept>>

Commit(i) ==
    LET batch == request[i].batch
    IN  /\ Goto(i, "commit", "published")
        /\ files' = [files EXCEPT ![opened[i]].values = tx[i]]
        /\ replaced' = [replaced EXCEPT ![i] = Overwritten(files[opened[i]].values, batch)]
        /\ kept' = Written(kept, batch, DOMAIN batch)
        /\ UNCHANGED <<path, opened, lock, build, request, existing, tx>>

\* The upload is invalid, or a statement fails: ROLLBACK.
PublishFails(i) ==
    /\ pc[i] \in {"compare", "insert", "update", "commit"}
    /\ pc' = [pc EXCEPT ![i] = "close"]
    /\ UNCHANGED <<files, path, opened, lock, build, publication>>

Close(i) ==
    /\ Goto(i, "close", "idle") \/ Goto(i, "published", "idle")
    /\ opened' = [opened EXCEPT ![i] = 0]
    /\ lock' = [lock EXCEPT ![Home[i]] = NoBody]
    /\ request' = [request EXCEPT ![i] = NoRequest]
    /\ existing' = [existing EXCEPT ![i] = NoRows]
    /\ tx' = [tx EXCEPT ![i] = NoRows]
    /\ replaced' = [replaced EXCEPT ![i] = {}]
    /\ UNCHANGED <<files, path, build, kept>>

-----------------------------------------------------------------------------
(* A query: preflight and execute each take the lock and open the file;    *)
(* previews of an upload and the list of metrics do so once.               *)

Readable(r) ==
    LET db == path["db"]
    IN  /\ lock[Home[r]] = NoBody
        /\ db # 0 /\ ~Blocked(r, db) /\ files[db].state # "bare"

\* preflight opens and closes the file, and leaves nothing but that it could.
Preflight(r) ==
    /\ pc[Home[r]] = "ready"
    /\ Readable(r)
    /\ Goto(r, "idle", "planned")
    /\ UNCHANGED <<files, path, opened, lock, build, publication>>

MutantExecute(r) ==    \* the lock is not taken
    /\ Readable(r)
    /\ Goto(r, "planned", "read")
    /\ opened' = [opened EXCEPT ![r] = path["db"]]
    /\ UNCHANGED <<files, path, lock, build, publication>>

Execute(r) ==
    /\ Readable(r)
    /\ Goto(r, "planned", "read")
    /\ lock' = [lock EXCEPT ![Home[r]] = r]
    /\ opened' = [opened EXCEPT ![r] = path["db"]]
    /\ UNCHANGED <<files, path, build, publication>>

\* The rows are fetched, or the query fails: the file cannot be opened or read.
QueryEnds(r) ==
    /\ pc[r] \in {"planned", "read"}
    /\ pc' = [pc EXCEPT ![r] = "idle"]
    /\ lock' = [lock EXCEPT ![Home[r]] = IF @ = r THEN NoBody ELSE @]
    /\ opened' = [opened EXCEPT ![r] = 0]
    /\ UNCHANGED <<files, path, build, publication>>

Ensure(p) ==
    \/ \E force \in BOOLEAN : Start(p, force)
    \/ Clean(p)
    \/ Create(p)
    \/ Fill(p)
    \/ Label(p)
    \/ Unlink(p)
    \/ Replace(p)
    \/ Tidy(p)
    \/ BuildFails(p)
    \/ Load(p)

Publish(i) ==
    \/ Ask(i)
    \/ Connect(i)
    \/ Compare(i)
    \/ Insert(i)
    \/ Update(i)
    \/ Commit(i)
    \/ PublishFails(i)
    \/ Close(i)

Query(r) ==
    \/ Preflight(r)
    \/ Execute(r)
    \/ QueryEnds(r)

Next ==
    \/ \E p \in Processes : Ensure(p) \/ Stop(p)
    \/ \E i \in Importers : Publish(i)
    \/ \E r \in Readers : Query(r)
    \/ ChangeWorkbook

Spec == Init /\ [][Next]_vars
-----------------------------------------------------------------------------
TypeOK ==
    /\ workbook \in 1..Len(Base)
    /\ files \in [1..MaxFiles -> File]
    /\ path \in [{"db", "building"} -> 0..MaxFiles]
    /\ opened \in [Actors -> 0..MaxFiles]
    /\ lock \in [Processes -> Threads \cup {NoBody}]
    /\ \A p \in Processes : pc[p] \in {"off", "clean", "create", "fill", "label", "unlink",
                                       "replace", "tidy", "load", "ready"}
    /\ \A i \in Importers : pc[i] \in {"idle", "waiting", "compare", "insert", "update",
                                       "commit", "published", "close"}
    /\ \A r \in Readers : pc[r] \in {"idle", "planned", "read"}
    /\ new \in [Processes -> 0..Len(Base)]
    /\ request \in [Importers -> Request \cup {NoRequest}]
    /\ existing \in [Importers -> Content]
    /\ tx \in [Importers -> Content]
    /\ replaced \in [Importers -> SUBSET Keys]
    /\ kept \in Content
    /\ asked \in BOOLEAN /\ beside \in BOOLEAN /\ overlapped \in BOOLEAN

\* What database_lock is for: a thread that has the file open holds it, so that
\* no thread is the reason why another thread of its process cannot open the file.
LockCovers == \A t \in Threads : opened[t] # 0 => lock[Home[t]] = t

Inv == TypeOK /\ LockCovers

\* No query answers from a half-built file, whenever a build fails or its process
\* is killed, as long as no two processes build at the same time.  (If they do,
\* os.replace of the one may move the half-built file of the other.)
AnswerWhole ==
    ~overlapped => \A r \in Readers : pc[r] = "read" => files[opened[r]].state = "whole"

\* The overwritten values that an administrator is told of, and that the audit
\* event keeps, are those that the publication replaced, although they were read
\* in a step of their own before the transaction.
ReportTrue ==
    \A i \in Importers :
        pc[i] = "published" => replaced[i] = Overwritten(existing[i], request[i].batch)

\* The value last published for a key is the one in the file that queries open.
Stays == \A k \in Keys :
    kept[k] # NoValue => path["db"] # 0 /\ files[path["db"]].values[k] = kept[k]

\* A published value stays until another is published for its key, through
\* restarts, crashes, failed publications and failed builds, as long as nobody
\* asks for a rebuild or changes the workbook, and no process sets out to build
\* while another one runs.
PublishedSurvives == (~asked /\ ~beside) => Stays

\* README.md:177: increments are written to the current file, and it is running
\* --build-db again that rebuilds it: without that, they stay.
PublishedKept == ~asked => Stays

\* The table that is found under the name of the database, and the publications
\* that may still change it.
Sources == {Base[v] : v \in DOMAIN Base}
Table ==
    IF path["db"] # 0 /\ files[path["db"]].state = "whole"
    THEN files[path["db"]].values
    ELSE NoStore
Pending ==
    [i \in Importers |-> IF pc[i] \in {"waiting", "compare", "insert", "update", "commit"}
                         THEN request[i]
                         ELSE NoRequest]
Abstract == INSTANCE MetricStore WITH store <- Table, requests <- Pending

\* Every change of the table is a whole requested publication, permitted by the
\* values it replaces or by the confirmation, or a rebuild from the workbook.
Implements == Abstract!Spec
=============================================================================
