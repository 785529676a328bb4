-------------------------- MODULE MetricData_proof --------------------------
(***************************************************************************)
(* The data file, for any number of processes and threads, any workbooks   *)
(* and uploads, and any mixture of builds, publications, queries, failures *)
(* and deaths: what database_lock and DuckDB's lock keep apart, what a     *)
(* query may read, what a publication may report and who may take it away, *)
(* and that the table changes only as MetricStore says.                    *)
(***************************************************************************)
EXTENDS MetricData, WellFoundedInduction, TLAPS

Places == {"off", "clean", "create", "fill", "label", "unlink", "replace", "tidy", "load",
           "ready", "idle", "waiting", "compare", "insert", "update", "commit",
           "published", "close", "planned", "read"}

Typed == TypeOK /\ pc \in [Actors -> Places]

\* Steps of publish between its statement that reads and its COMMIT.
InPublication == {"insert", "update", "commit"}

\* A connection is open exactly while its actor has something to do with it.
Connections ==
    /\ \A p \in Processes :
        /\ opened[p] # 0 <=> pc[p] \in {"fill", "label"}
        /\ pc[p] \in {"fill", "label"} => new[p] # 0
    /\ \A i \in Importers :
        /\ pc[i] \in {"compare", "published"} \cup InPublication => opened[i] # 0
        /\ pc[i] \in {"idle", "waiting"} => opened[i] = 0
        /\ pc[i] # "idle" => request[i] \in Request
    /\ \A r \in Readers : opened[r] # 0 <=> pc[r] = "read"

\* Threads work only while their process serves.
Serving == \A t \in Threads : pc[t] # "idle" => pc[Home[t]] = "ready"

\* A publication holds the lock of its process until it closes its connection.
LockHeld == \A i \in Importers : pc[i] \notin {"idle", "waiting"} => lock[Home[i]] = i

\* DuckDB lets connections be open together that all read, or write in one process.
Exclusive ==
    \A a, b \in Actors : a # b /\ opened[a] # 0 /\ opened[a] = opened[b] =>
        \/ ~Writes(a) /\ ~Writes(b)
        \/ Writes(a) /\ Writes(b) /\ HomeOf(a) = HomeOf(b)

\* The file under construction is not the database, no thread has it open, and when
\* it is complete it holds a workbook's rows.
Names ==
    /\ path["db"] # 0 => path["db"] # path["building"]
    /\ \A t \in Threads : opened[t] # 0 => opened[t] # path["building"]
    /\ (path["building"] # 0 /\ files[path["building"]].state = "whole") =>
            files[path["building"]].values \in Sources

\* What a publication has compared is still what the file holds, the confirmation
\* covers it, and the transaction is the batch put over it.
ComparedBy(i) ==
    LET batch == request[i].batch
    IN /\ pc[i] \in InPublication =>
            /\ files[opened[i]].state # "bare"
            /\ existing[i] = files[opened[i]].values
            /\ request[i].confirmed \/ Overwritten(existing[i], batch) = {}
       /\ pc[i] = "update" => tx[i] = Written(existing[i], batch, Inserted(existing[i], batch))
       /\ pc[i] = "commit" => tx[i] = Written(existing[i], batch, DOMAIN batch)
Compared == \A i \in Importers : ComparedBy(i)

\* One process builds, and what it puts in place of the database is complete.
OneBuilds == \A p, q \in Processes : Building(p) /\ Building(q) => p = q

Construction(p) ==
    /\ pc[p] = "create" => path["building"] = 0
    /\ pc[p] \in {"fill", "label"} => path["building"] = opened[p]
    /\ pc[p] \in {"unlink", "replace"} => path["building"] # 0
    /\ pc[p] \in {"label", "unlink", "replace"} => files[path["building"]].state = "whole"

DatabaseWhole == path["db"] # 0 => files[path["db"]].state # "partial"

BuiltWhole ==
    ~overlapped => OneBuilds /\ (\A p \in Processes : Construction(p)) /\ DatabaseWhole

Current == path["db"] # 0 /\ files[path["db"]].label = workbook
BeforeReplace == {"clean", "create", "fill", "label", "unlink", "replace"}

\* While nobody asks for a rebuild and processes do not build beside others: a
\* database with tables is current, so a process that builds found none that held
\* anything published, and it is the only process that runs.
NothingLost == (\E k \in Keys : kept[k] # NoValue) => Current

Labelled ==
    path["db"] # 0 /\ files[path["db"]].state # "bare" => files[path["db"]].label = workbook

OnDatabase ==
    \A i \in Importers : pc[i] \in {"compare"} \cup InPublication => opened[i] = path["db"]

Lonely(p) ==
    pc[p] \in BeforeReplace =>
        /\ \A q \in Processes \ {p} : pc[q] = "off"
        /\ ~Current
        /\ pc[p] \in {"fill", "label"} => path["building"] = opened[p]
        /\ pc[p] \in {"unlink", "replace"} => files[path["building"]].label = workbook

Undisturbed ==
    (~asked /\ ~beside) =>
        /\ workbook = 1 /\ NothingLost /\ Labelled /\ OnDatabase
        /\ \A p \in Processes : Lonely(p)

\* The inductive invariant.
IInv ==
    /\ Typed /\ Connections /\ Serving
    /\ LockCovers /\ LockHeld /\ Exclusive
    /\ Names /\ Compared /\ ReportTrue
    /\ BuiltWhole /\ AnswerWhole
    /\ Undisturbed /\ PublishedSurvives

-----------------------------------------------------------------------------
(* Numbers of files, names and locks.                                      *)

\* The lowest free number is a free number, when there is one.
LEMMA FreshIsFree ==
  ASSUME Free # {}
  PROVE  Fresh \in Free
<1>1. Free \subseteq Nat
  BY DataAssumption DEF Free
<1> DEFINE R == OpToRel(<, Nat)
<1>2. R = {ss \in Nat \X Nat : ss[1] < ss[2]}
  BY Zenon DEF OpToRel
<1>3. IsWellFoundedOn(R, Nat)
  BY NatLessThanWellFounded
<1> HIDE DEF R
<1>4. PICK f \in Free : \A g \in Free : ~(<<g, f>> \in R)
  BY <1>1, <1>3, WFMin
<1>5. ASSUME NEW g \in Free
      PROVE  f <= g
  <2>1. f \in Nat /\ g \in Nat
    BY <1>1
  <2>2. <<g, f>> \in R <=> g < f
    BY <1>2, <2>1
  <2> QED
    BY <1>4, <2>1, <2>2
<1> QED
  BY <1>5 DEF Fresh
\* Who an actor is.
LEMMA Actor ==
  /\ \A p \in Processes : p \in Actors /\ p \notin Threads /\ p \notin Readers /\ HomeOf(p) = p
  /\ \A t \in Threads : t \in Actors /\ t \notin Processes /\ HomeOf(t) = Home[t] /\ Home[t] \in Processes
  /\ \A i \in Importers : i \in Threads /\ i \notin Readers
  /\ \A r \in Readers : r \in Threads /\ r \notin Importers
  /\ NoBody \notin Actors
  BY ActorsAssumption DEF Actors, Threads, HomeOf

\* A batch gives values to some keys.
LEMMA BatchTyped ==
  ASSUME NEW batch \in Batches
  PROVE  /\ DOMAIN batch \subseteq Keys /\ \A k \in DOMAIN batch : batch[k] \in Values
         /\ batch \in UNION {[K -> Values] : K \in SUBSET Keys \ {{}}}
<1>1. PICK K \in SUBSET Keys \ {{}} : batch \in [K -> Values]
  BY DataAssumption
<1> QED
  BY <1>1

\* A batch put over a table is a table.
LEMMA WrittenContent ==
  ASSUME NEW content \in Content, NEW batch \in Batches, NEW K, K \subseteq DOMAIN batch
  PROVE  Written(content, batch, K) \in Content
  BY BatchTyped DEF Written, Content

LEMMA Parts ==
  ASSUME NEW content, NEW batch \in Batches
  PROVE  /\ Inserted(content, batch) \subseteq DOMAIN batch
         /\ Overwritten(content, batch) \subseteq DOMAIN batch
         /\ DOMAIN batch \subseteq Keys
  BY BatchTyped DEF Inserted, Overwritten

\* Numbers of files and of workbooks.
LEMMA Numbers ==
  /\ MaxFiles \in Nat /\ 0 \in 0..MaxFiles /\ \A f \in 1..MaxFiles : f \in 0..MaxFiles /\ f # 0
  /\ \A f \in 0..MaxFiles : f # 0 => f \in 1..MaxFiles
  /\ Len(Base) \in Nat /\ 0 \in 0..Len(Base) /\ \A v \in 1..Len(Base) : v \in 0..Len(Base) /\ v # 0
  BY DataAssumption

LEMMA BaseContent ==
  ASSUME NEW v \in 0..Len(Base), v # 0
  PROVE  v \in DOMAIN Base /\ Base[v] \in Content
  BY DataAssumption

\* What a step of several outcomes does to places.
LEMMA LoadStep ==
  ASSUME NEW p \in Processes, Load(p)
  PROVE  /\ pc[p] = "load"
         /\ pc' = [pc EXCEPT ![p] = "ready"] \/ pc' = [pc EXCEPT ![p] = "off"]
         /\ UNCHANGED <<files, path, opened, lock, build, publication>>
  BY DEF Load, Goto

LEMMA ConnectStep ==
  ASSUME NEW i \in Importers, Connect(i)
  PROVE  /\ pc[i] = "waiting"
         /\ lock[Home[i]] = NoBody /\ lock' = [lock EXCEPT ![Home[i]] = i]
         /\ \/ /\ pc' = [pc EXCEPT ![i] = "compare"]
               /\ path["db"] # 0 /\ ~Blocked(i, path["db"])
               /\ opened' = [opened EXCEPT ![i] = path["db"]]
               /\ files' = files /\ path' = path
            \/ /\ pc' = [pc EXCEPT ![i] = "compare"]
               /\ path["db"] = 0 /\ Fresh \in Free
               /\ files' = [files EXCEPT ![Fresh] = NewFile("bare")]
               /\ path' = [path EXCEPT !["db"] = Fresh]
               /\ opened' = [opened EXCEPT ![i] = Fresh]
            \/ /\ pc' = [pc EXCEPT ![i] = "close"]
               /\ files' = files /\ path' = path /\ opened' = opened
         /\ UNCHANGED <<build, publication>>
  BY FreshIsFree DEF Connect, Goto

LEMMA CloseStep ==
  ASSUME NEW i \in Importers, Close(i)
  PROVE  /\ pc[i] \in {"close", "published"} /\ pc' = [pc EXCEPT ![i] = "idle"]
         /\ opened' = [opened EXCEPT ![i] = 0]
         /\ lock' = [lock EXCEPT ![Home[i]] = NoBody]
         /\ request' = [request EXCEPT ![i] = NoRequest]
         /\ existing' = [existing EXCEPT ![i] = NoRows]
         /\ tx' = [tx EXCEPT ![i] = NoRows]
         /\ replaced' = [replaced EXCEPT ![i] = {}]
         /\ UNCHANGED <<files, path, build, kept>>
  BY DEF Close, Goto

LEMMA NewFileTyped ==
  ASSUME NEW state \in {"bare", "partial", "whole"}
  PROVE  NewFile(state) \in File
  BY Numbers DEF NewFile, File, NoRows, Content

(* The parts of the type invariant. *)
Walks ==
    /\ pc \in [Actors -> Places]
    /\ \A p \in Processes : pc[p] \in {"off", "clean", "create", "fill", "label", "unlink",
                                       "replace", "tidy", "load", "ready"}
    /\ \A i \in Importers : pc[i] \in {"idle", "waiting", "compare", "insert", "update",
                                       "commit", "published", "close"}
    /\ \A r \in Readers : pc[r] \in {"idle", "planned", "read"}
Disk ==
    /\ workbook \in 1..Len(Base)
    /\ files \in [1..MaxFiles -> File]
    /\ path \in [{"db", "building"} -> 0..MaxFiles]
    /\ opened \in [Actors -> 0..MaxFiles]
Held ==
    /\ lock \in [Processes -> Threads \cup {NoBody}]
    /\ new \in [Processes -> 0..Len(Base)]
    /\ asked \in BOOLEAN /\ beside \in BOOLEAN /\ overlapped \in BOOLEAN
Publications ==
    /\ request \in [Importers -> Request \cup {NoRequest}]
    /\ existing \in [Importers -> Content]
    /\ tx \in [Importers -> Content]
    /\ replaced \in [Importers -> SUBSET Keys]
    /\ kept \in Content

LEMMA TypedParts == Typed <=> Walks /\ Disk /\ Held /\ Publications
  BY DEF Typed, TypeOK, Walks, Disk, Held, Publications

\* Every actor stays at its places.
LEMMA NextWalks ==
  ASSUME Typed, [Next]_vars
  PROVE  Walks'
<1> USE DEF Goto, build, publication, Typed, TypeOK, Walks, Places, Building
<1>1. ASSUME NEW p \in Processes, Ensure(p)
      PROVE  Walks'
  <2>1. ASSUME NEW force \in BOOLEAN, Start(p, force) PROVE Walks'
    BY Actor, <2>1 DEF Start
  <2>2. CASE Clean(p)
    BY Actor, <2>2 DEF Clean
  <2>3. CASE Create(p)
    BY Actor, <2>3 DEF Create
  <2>4. CASE Fill(p)
    BY Actor, <2>4 DEF Fill
  <2>5. CASE Label(p)
    BY Actor, <2>5 DEF Label
  <2>6. CASE Unlink(p)
    BY Actor, <2>6 DEF Unlink
  <2>7. CASE Replace(p)
    BY Actor, <2>7 DEF Replace
  <2>8. CASE Tidy(p)
    BY Actor, <2>8 DEF Tidy
  <2>9. CASE BuildFails(p)
    BY Actor, <2>9 DEF BuildFails
  <2>10. CASE Load(p)
    <3>1. PICK to \in {"ready", "off"} : pc' = [pc EXCEPT ![p] = to]
      BY LoadStep, <2>10
    <3> QED
      BY Actor, <3>1
  <2> QED
    BY <1>1, <2>1, <2>2, <2>3, <2>4, <2>5, <2>6, <2>7, <2>8, <2>9, <2>10 DEF Ensure
<1>2. ASSUME NEW p \in Processes, Stop(p) PROVE Walks'
  BY Actor, <1>2 DEF Stop
<1>3. ASSUME NEW i \in Importers, Publish(i)
      PROVE  Walks'
  <2>1. CASE Ask(i)
    BY Actor, <2>1 DEF Ask
  <2>2. CASE Connect(i)
    <3>1. PICK to \in {"compare", "close"} : pc' = [pc EXCEPT ![i] = to]
      BY ConnectStep, <2>2
    <3> QED
      BY Actor, <3>1
  <2>3. CASE Compare(i)
    BY Actor, <2>3 DEF Compare
  <2>4. CASE Insert(i)
    BY Actor, <2>4 DEF Insert
  <2>5. CASE Update(i)
    BY Actor, <2>5 DEF Update
  <2>6. CASE Commit(i)
    BY Actor, <2>6 DEF Commit
  <2>7. CASE PublishFails(i)
    BY Actor, <2>7 DEF PublishFails
  <2>8. CASE Close(i)
    <3>1. pc' = [pc EXCEPT ![i] = "idle"]
      BY CloseStep, <2>8
    <3> QED
      BY Actor, <3>1
  <2> QED
    BY <1>3, <2>1, <2>2, <2>3, <2>4, <2>5, <2>6, <2>7, <2>8 DEF Publish
<1>4. ASSUME NEW r \in Readers, Query(r)
      PROVE  Walks'
  <2>1. CASE Preflight(r)
    BY Actor, <2>1 DEF Preflight
  <2>2. CASE Execute(r)
    BY Actor, <2>2 DEF Execute
  <2>3. CASE QueryEnds(r)
    BY Actor, <2>3 DEF QueryEnds
  <2> QED
    BY <1>4, <2>1, <2>2, <2>3 DEF Query
<1>5. CASE ChangeWorkbook
  BY Actor, <1>5 DEF ChangeWorkbook
<1>6. CASE UNCHANGED vars
  BY Actor, <1>6 DEF vars
<1> QED
  BY <1>1, <1>2, <1>3, <1>4, <1>5, <1>6 DEF Next

\* Files, names and connections keep their types.
LEMMA NextDisk ==
  ASSUME Typed, Connections, [Next]_vars
  PROVE  Disk'
<1> USE DEF Goto, build, publication, Typed, TypeOK, Disk
<1>1. ASSUME NEW p \in Processes, Ensure(p)
      PROVE  Disk'
  <2>1. ASSUME NEW force \in BOOLEAN, Start(p, force) PROVE Disk'
    BY Actor, Numbers, <2>1 DEF Start
  <2>2. CASE Clean(p)
    <3>1. workbook' \in 1..Len(Base)
      BY Actor, Numbers, <2>2 DEF Clean
    <3>2. files' \in [1..MaxFiles -> File]
      BY Actor, Numbers, <2>2 DEF Clean, File, NewFile, Content, NoRows
    <3>3. path' \in [{"db", "building"} -> 0..MaxFiles]
      BY Actor, Numbers, <2>2 DEF Clean
    <3>4. opened' \in [Actors -> 0..MaxFiles]
      BY Actor, Numbers, <2>2 DEF Clean
    <3> QED
      BY <3>1, <3>2, <3>3, <3>4
  <2>3. CASE Create(p)
    <3>1. workbook' \in 1..Len(Base)
      BY Actor, Numbers, <2>3 DEF Create
    <3>2. files' \in [1..MaxFiles -> File]
      BY Actor, Numbers, FreshIsFree, <2>3 DEF Create, File, NewFile, Content, NoRows, Free
    <3>3. path' \in [{"db", "building"} -> 0..MaxFiles]
      BY Actor, Numbers, FreshIsFree, <2>3 DEF Create, Free
    <3>4. opened' \in [Actors -> 0..MaxFiles]
      BY Actor, Numbers, FreshIsFree, <2>3 DEF Create, Free
    <3> QED
      BY <3>1, <3>2, <3>3, <3>4
  <2>4. CASE Fill(p)
    <3>1. opened[p] \in 1..MaxFiles /\ files[opened[p]] \in File
      BY Actor, Numbers, <2>4 DEF Fill, Connections
    <3>2. [files[opened[p]] EXCEPT !.state = "whole", !.values = Base[new[p]]] \in File
      <4>1. Base[new[p]] \in Content
        BY BaseContent, <2>4 DEF Fill, Connections
      <4> QED
        BY <3>1, <4>1 DEF File
    <3>3. /\ files' = [files EXCEPT ![opened[p]] =
                        [files[opened[p]] EXCEPT !.state = "whole", !.values = Base[new[p]]]]
          /\ UNCHANGED <<workbook, path, opened>>
      BY <2>4 DEF Fill
    <3> QED
      BY <3>1, <3>2, <3>3
  <2>5. CASE Label(p)
    <3>1. opened[p] \in 1..MaxFiles /\ files[opened[p]] \in File /\ workbook \in 0..Len(Base)
      BY Actor, Numbers, <2>5 DEF Label, Connections
    <3>2. [files[opened[p]] EXCEPT !.label = workbook] \in File
      BY <3>1 DEF File
    <3>3. /\ files' = [files EXCEPT ![opened[p]] = [files[opened[p]] EXCEPT !.label = workbook]]
          /\ opened' = [opened EXCEPT ![p] = 0]
          /\ UNCHANGED <<workbook, path>>
      BY <2>5 DEF Label
    <3> QED
      BY Actor, Numbers, <3>1, <3>2, <3>3
  <2>6. CASE Unlink(p)
    <3>1. workbook' \in 1..Len(Base)
      BY Actor, Numbers, <2>6 DEF Unlink
    <3>2. files' \in [1..MaxFiles -> File]
      BY Actor, Numbers, <2>6 DEF Unlink, File, NewFile, Content, NoRows
    <3>3. path' \in [{"db", "building"} -> 0..MaxFiles]
      BY Actor, Numbers, <2>6 DEF Unlink
    <3>4. opened' \in [Actors -> 0..MaxFiles]
      BY Actor, Numbers, <2>6 DEF Unlink
    <3> QED
      BY <3>1, <3>2, <3>3, <3>4
  <2>7. CASE Replace(p)
    <3>1. workbook' \in 1..Len(Base)
      BY Actor, Numbers, <2>7 DEF Replace
    <3>2. files' \in [1..MaxFiles -> File]
      BY Actor, Numbers, <2>7 DEF Replace, File, NewFile, Content, NoRows
    <3>3. path' \in [{"db", "building"} -> 0..MaxFiles]
      BY Actor, Numbers, <2>7 DEF Replace
    <3>4. opened' \in [Actors -> 0..MaxFiles]
      BY Actor, Numbers, <2>7 DEF Replace
    <3> QED
      BY <3>1, <3>2, <3>3, <3>4
  <2>8. CASE Tidy(p)
    <3>1. workbook' \in 1..Len(Base)
      BY Actor, Numbers, <2>8 DEF Tidy
    <3>2. files' \in [1..MaxFiles -> File]
      BY Actor, Numbers, <2>8 DEF Tidy, File, NewFile, Content, NoRows
    <3>3. path' \in [{"db", "building"} -> 0..MaxFiles]
      BY Actor, Numbers, <2>8 DEF Tidy
    <3>4. opened' \in [Actors -> 0..MaxFiles]
      BY Actor, Numbers, <2>8 DEF Tidy
    <3> QED
      BY <3>1, <3>2, <3>3, <3>4
  <2>9. CASE BuildFails(p)
    <3>1. workbook' \in 1..Len(Base)
      BY Actor, Numbers, <2>9 DEF BuildFails
    <3>2. files' \in [1..MaxFiles -> File]
      BY Actor, Numbers, <2>9 DEF BuildFails, File, NewFile, Content, NoRows
    <3>3. path' \in [{"db", "building"} -> 0..MaxFiles]
      BY Actor, Numbers, <2>9 DEF BuildFails
    <3>4. opened' \in [Actors -> 0..MaxFiles]
      BY Actor, Numbers, <2>9 DEF BuildFails
    <3> QED
      BY <3>1, <3>2, <3>3, <3>4
  <2>10. CASE Load(p)
    BY Actor, Numbers, <2>10 DEF Load
  <2> QED
    BY <1>1, <2>1, <2>2, <2>3, <2>4, <2>5, <2>6, <2>7, <2>8, <2>9, <2>10 DEF Ensure
<1>2. ASSUME NEW p \in Processes, Stop(p) PROVE Disk'
  <2>1. workbook' \in 1..Len(Base)
    BY Actor, Numbers, <1>2 DEF Stop
  <2>2. files' \in [1..MaxFiles -> File]
    BY Actor, Numbers, <1>2 DEF Stop, File, NewFile, Content, NoRows
  <2>3. path' \in [{"db", "building"} -> 0..MaxFiles]
    BY Actor, Numbers, <1>2 DEF Stop
  <2>4. opened' \in [Actors -> 0..MaxFiles]
    BY Actor, Numbers, <1>2 DEF Stop
  <2> QED
    BY <2>1, <2>2, <2>3, <2>4
<1>3. ASSUME NEW i \in Importers, Publish(i)
      PROVE  Disk'
  <2>1. CASE Ask(i)
    BY Actor, Numbers, <2>1 DEF Ask
  <2>2. CASE Connect(i)
    <3>1. Fresh \in Free => Fresh \in 1..MaxFiles
      BY DEF Free
    <3>2. files' \in [1..MaxFiles -> File]
      <4>1. NewFile("bare") \in File
        BY NewFileTyped
      <4>2. files' = files \/ (Fresh \in Free /\ files' = [files EXCEPT ![Fresh] = NewFile("bare")])
        BY ConnectStep, <2>2
      <4>3. CASE files' = files
        BY <4>3
      <4>4. CASE Fresh \in Free /\ files' = [files EXCEPT ![Fresh] = NewFile("bare")]
        BY <4>1, <4>4, <3>1
      <4> QED
        BY <4>2, <4>3, <4>4
    <3>3. path' \in [{"db", "building"} -> 0..MaxFiles]
      BY ConnectStep, Numbers, <3>1, <2>2
    <3>4. opened' \in [Actors -> 0..MaxFiles]
      <4>1. i \in Actors /\ path["db"] \in 0..MaxFiles
        BY Actor
      <4>2. \/ opened' = [opened EXCEPT ![i] = path["db"]]
            \/ Fresh \in Free /\ opened' = [opened EXCEPT ![i] = Fresh]
            \/ opened' = opened
        BY ConnectStep, <2>2
      <4> QED
        BY Numbers, <3>1, <4>1, <4>2
    <3> QED
      BY <3>2, <3>3, <3>4, ConnectStep, <2>2
  <2>3. CASE Compare(i)
    BY Actor, Numbers, <2>3 DEF Compare
  <2>4. CASE Insert(i)
    BY Actor, Numbers, <2>4 DEF Insert
  <2>5. CASE Update(i)
    BY Actor, Numbers, <2>5 DEF Update
  <2>6. CASE Commit(i)
    <3>1. opened[i] \in 1..MaxFiles /\ files[opened[i]] \in File /\ tx[i] \in Content
      BY Actor, Numbers, <2>6 DEF Commit, Connections, InPublication
    <3>2. [files[opened[i]] EXCEPT !.values = tx[i]] \in File
      BY <3>1 DEF File
    <3>3. /\ files' = [files EXCEPT ![opened[i]] = [files[opened[i]] EXCEPT !.values = tx[i]]]
          /\ UNCHANGED <<workbook, path, opened>>
      BY <2>6 DEF Commit
    <3> QED
      BY <3>1, <3>2, <3>3
  <2>7. CASE PublishFails(i)
    BY Actor, Numbers, <2>7 DEF PublishFails
  <2>8. CASE Close(i)
    <3>1. opened' = [opened EXCEPT ![i] = 0] /\ UNCHANGED <<files, path, workbook>>
      BY CloseStep, <2>8
    <3> QED
      BY Actor, Numbers, <3>1
  <2> QED
    BY <1>3, <2>1, <2>2, <2>3, <2>4, <2>5, <2>6, <2>7, <2>8 DEF Publish
<1>4. ASSUME NEW r \in Readers, Query(r)
      PROVE  Disk'
  <2>1. CASE Preflight(r)
    BY Actor, Numbers, <2>1 DEF Preflight
  <2>2. CASE Execute(r)
    BY Actor, Numbers, <2>2 DEF Execute
  <2>3. CASE QueryEnds(r)
    <3>1. workbook' \in 1..Len(Base)
      BY Actor, Numbers, <2>3 DEF QueryEnds
    <3>2. files' \in [1..MaxFiles -> File]
      BY Actor, Numbers, <2>3 DEF QueryEnds, File, NewFile, Content, NoRows
    <3>3. path' \in [{"db", "building"} -> 0..MaxFiles]
      BY Actor, Numbers, <2>3 DEF QueryEnds
    <3>4. opened' \in [Actors -> 0..MaxFiles]
      BY Actor, Numbers, <2>3 DEF QueryEnds
    <3> QED
      BY <3>1, <3>2, <3>3, <3>4
  <2> QED
    BY <1>4, <2>1, <2>2, <2>3 DEF Query
<1>5. CASE ChangeWorkbook
  BY Actor, Numbers, <1>5 DEF ChangeWorkbook
<1>6. CASE UNCHANGED vars
  BY Actor, Numbers, <1>6 DEF vars
<1> QED
  BY <1>1, <1>2, <1>3, <1>4, <1>5, <1>6 DEF Next

\* Locks, versions and flags keep their types.
LEMMA NextHeld ==
  ASSUME Typed, [Next]_vars
  PROVE  Held'
<1> USE DEF Goto, build, publication, Typed, TypeOK, Held
<1>1. ASSUME NEW p \in Processes, Ensure(p)
      PROVE  Held'
  <2>1. ASSUME NEW force \in BOOLEAN, Start(p, force) PROVE Held'
    BY Actor, Numbers, <2>1 DEF Start
  <2>2. CASE Clean(p)
    BY Actor, Numbers, <2>2 DEF Clean
  <2>3. CASE Create(p)
    BY Actor, Numbers, <2>3 DEF Create
  <2>4. CASE Fill(p)
    BY Actor, Numbers, <2>4 DEF Fill
  <2>5. CASE Label(p)
    BY Actor, Numbers, <2>5 DEF Label
  <2>6. CASE Unlink(p)
    BY Actor, Numbers, <2>6 DEF Unlink
  <2>7. CASE Replace(p)
    BY Actor, Numbers, <2>7 DEF Replace
  <2>8. CASE Tidy(p)
    BY Actor, Numbers, <2>8 DEF Tidy
  <2>9. CASE BuildFails(p)
    BY Actor, Numbers, <2>9 DEF BuildFails
  <2>10. CASE Load(p)
    BY Actor, Numbers, <2>10 DEF Load
  <2> QED
    BY <1>1, <2>1, <2>2, <2>3, <2>4, <2>5, <2>6, <2>7, <2>8, <2>9, <2>10 DEF Ensure
<1>2. ASSUME NEW p \in Processes, Stop(p) PROVE Held'
  BY Actor, Numbers, <1>2 DEF Stop
<1>3. ASSUME NEW i \in Importers, Publish(i)
      PROVE  Held'
  <2>1. CASE Ask(i)
    BY Actor, Numbers, <2>1 DEF Ask
  <2>2. CASE Connect(i)
    BY Actor, Numbers, <2>2 DEF Connect
  <2>3. CASE Compare(i)
    BY Actor, Numbers, <2>3 DEF Compare
  <2>4. CASE Insert(i)
    BY Actor, Numbers, <2>4 DEF Insert
  <2>5. CASE Update(i)
    BY Actor, Numbers, <2>5 DEF Update
  <2>6. CASE Commit(i)
    BY Actor, Numbers, <2>6 DEF Commit
  <2>7. CASE PublishFails(i)
    BY Actor, Numbers, <2>7 DEF PublishFails
  <2>8. CASE Close(i)
    BY Actor, Numbers, <2>8 DEF Close
  <2> QED
    BY <1>3, <2>1, <2>2, <2>3, <2>4, <2>5, <2>6, <2>7, <2>8 DEF Publish
<1>4. ASSUME NEW r \in Readers, Query(r)
      PROVE  Held'
  <2>1. CASE Preflight(r)
    BY Actor, Numbers, <2>1 DEF Preflight
  <2>2. CASE Execute(r)
    BY Actor, Numbers, <2>2 DEF Execute
  <2>3. CASE QueryEnds(r)
    BY Actor, Numbers, <2>3 DEF QueryEnds
  <2> QED
    BY <1>4, <2>1, <2>2, <2>3 DEF Query
<1>5. CASE ChangeWorkbook
  BY Actor, Numbers, <1>5 DEF ChangeWorkbook
<1>6. CASE UNCHANGED vars
  BY Actor, Numbers, <1>6 DEF vars
<1> QED
  BY <1>1, <1>2, <1>3, <1>4, <1>5, <1>6 DEF Next

\* So does what a publication keeps.
LEMMA NextPublications ==
  ASSUME Typed, Connections, [Next]_vars
  PROVE  Publications'
<1> USE DEF Goto, build, publication, Typed, TypeOK, Publications, NoRows, Content, File
<1>1. ASSUME NEW p \in Processes, Ensure(p)
      PROVE  Publications'
  <2>1. ASSUME NEW force \in BOOLEAN, Start(p, force) PROVE Publications'
    BY Actor, <2>1 DEF Start
  <2>2. CASE Clean(p)
    BY Actor, <2>2 DEF Clean
  <2>3. CASE Create(p)
    BY Actor, <2>3 DEF Create
  <2>4. CASE Fill(p)
    BY Actor, <2>4 DEF Fill
  <2>5. CASE Label(p)
    BY Actor, <2>5 DEF Label
  <2>6. CASE Unlink(p)
    BY Actor, <2>6 DEF Unlink
  <2>7. CASE Replace(p)
    BY Actor, <2>7 DEF Replace
  <2>8. CASE Tidy(p)
    BY Actor, <2>8 DEF Tidy
  <2>9. CASE BuildFails(p)
    BY Actor, <2>9 DEF BuildFails
  <2>10. CASE Load(p)
    BY Actor, <2>10 DEF Load
  <2> QED
    BY <1>1, <2>1, <2>2, <2>3, <2>4, <2>5, <2>6, <2>7, <2>8, <2>9, <2>10 DEF Ensure
<1>2. ASSUME NEW p \in Processes, Stop(p) PROVE Publications'
  <2>1. request' \in [Importers -> Request \cup {NoRequest}]
    BY Actor, <1>2 DEF Stop
  <2>2. existing' \in [Importers -> Content]
    BY Actor, <1>2 DEF Stop
  <2>3. tx' \in [Importers -> Content]
    BY Actor, WrittenContent, Parts, <1>2 DEF Stop, Connections
  <2>4. replaced' \in [Importers -> SUBSET Keys]
    BY Actor, Parts, <1>2 DEF Stop, Connections
  <2>5. kept' \in Content
    BY Actor, WrittenContent, <1>2 DEF Stop, Connections
  <2> QED
    BY <2>1, <2>2, <2>3, <2>4, <2>5
<1>3. ASSUME NEW i \in Importers, Publish(i)
      PROVE  Publications'
  <2>1. CASE Ask(i)
    BY Actor, <2>1 DEF Ask
  <2>2. CASE Connect(i)
    BY Actor, <2>2 DEF Connect
  <2>3. CASE Compare(i)
    <3>1. files[opened[i]].values \in Content
      BY Actor, Numbers, <2>3 DEF Compare, Connections, File
    <3>2. /\ existing' = [existing EXCEPT ![i] = files[opened[i]].values]
          /\ UNCHANGED <<request, tx, replaced, kept>>
      BY <2>3 DEF Compare
    <3> QED
      BY <3>1, <3>2
  <2>4. CASE Insert(i)
    <3>1. files[opened[i]].values \in Content /\ request[i].batch \in Batches
      BY Actor, Numbers, <2>4 DEF Insert, Connections, InPublication, File, Request
    <3>2. Written(files[opened[i]].values, request[i].batch,
                  Inserted(existing[i], request[i].batch)) \in Content
      BY <3>1, Parts, WrittenContent
    <3>3. /\ tx' = [tx EXCEPT ![i] = Written(files[opened[i]].values, request[i].batch,
                                            Inserted(existing[i], request[i].batch))]
          /\ UNCHANGED <<request, existing, replaced, kept>>
      BY <2>4 DEF Insert
    <3> QED
      BY <3>2, <3>3
  <2>5. CASE Update(i)
    <3>1. tx[i] \in Content /\ request[i].batch \in Batches
      BY <2>5 DEF Update, Connections, InPublication, Request
    <3>2. Written(tx[i], request[i].batch, Overwritten(existing[i], request[i].batch)) \in Content
      BY <3>1, Parts, WrittenContent
    <3>3. /\ tx' = [tx EXCEPT ![i] = Written(tx[i], request[i].batch,
                                            Overwritten(existing[i], request[i].batch))]
          /\ UNCHANGED <<request, existing, replaced, kept>>
      BY <2>5 DEF Update
    <3> QED
      BY <3>2, <3>3
  <2>6. CASE Commit(i)
    <3>1. request[i].batch \in Batches
      BY <2>6 DEF Commit, Connections, InPublication, Request
    <3>2. Overwritten(files[opened[i]].values, request[i].batch) \in SUBSET Keys
      BY <3>1, Parts
    <3>3. Written(kept, request[i].batch, DOMAIN request[i].batch) \in Content
      BY <3>1, WrittenContent
    <3>4. /\ replaced' = [replaced EXCEPT ![i] = Overwritten(files[opened[i]].values, request[i].batch)]
          /\ kept' = Written(kept, request[i].batch, DOMAIN request[i].batch)
          /\ UNCHANGED <<request, existing, tx>>
      BY <2>6 DEF Commit
    <3> QED
      BY <3>2, <3>3, <3>4
  <2>7. CASE PublishFails(i)
    BY Actor, <2>7 DEF PublishFails
  <2>8. CASE Close(i)
    <3>1. /\ request' = [request EXCEPT ![i] = NoRequest]
          /\ existing' = [existing EXCEPT ![i] = NoRows]
          /\ tx' = [tx EXCEPT ![i] = NoRows]
          /\ replaced' = [replaced EXCEPT ![i] = {}]
          /\ UNCHANGED kept
      BY CloseStep, <2>8
    <3> QED
      BY Actor, <3>1
  <2> QED
    BY <1>3, <2>1, <2>2, <2>3, <2>4, <2>5, <2>6, <2>7, <2>8 DEF Publish
<1>4. ASSUME NEW r \in Readers, Query(r)
      PROVE  Publications'
  <2>1. CASE Preflight(r)
    BY Actor, <2>1 DEF Preflight
  <2>2. CASE Execute(r)
    BY Actor, <2>2 DEF Execute
  <2>3. CASE QueryEnds(r)
    BY Actor, <2>3 DEF QueryEnds
  <2> QED
    BY <1>4, <2>1, <2>2, <2>3 DEF Query
<1>5. CASE ChangeWorkbook
  BY Actor, <1>5 DEF ChangeWorkbook
<1>6. CASE UNCHANGED vars
  BY Actor, <1>6 DEF vars
<1> QED
  BY <1>1, <1>2, <1>3, <1>4, <1>5, <1>6 DEF Next

\* Typed is kept, from its parts.
LEMMA NextTyped ==
  ASSUME Typed, Connections, [Next]_vars
  PROVE  Typed'
<1>1. Walks' /\ Disk' /\ Held' /\ Publications'
  BY NextWalks, NextDisk, NextHeld, NextPublications
<1> QED
  BY <1>1 DEF Typed, TypeOK, Walks, Disk, Held, Publications

LEMMA CreateStep ==
  ASSUME NEW p \in Processes, Create(p)
  PROVE  /\ pc[p] = "create" /\ pc' = [pc EXCEPT ![p] = "fill"]
         /\ path["building"] = 0 /\ Fresh \in Free
         /\ files' = [files EXCEPT ![Fresh] = NewFile("partial")]
         /\ path' = [path EXCEPT !["building"] = Fresh]
         /\ opened' = [opened EXCEPT ![p] = Fresh]
         /\ new' = [new EXCEPT ![p] = workbook]
         /\ UNCHANGED <<lock, workbook, asked, beside, overlapped, publication>>
  BY FreshIsFree DEF Create, Goto

LEMMA FreeFacts ==
  ASSUME NEW f \in Free
  PROVE  /\ f \in 1..MaxFiles /\ f # 0
         /\ Typed => path["db"] # f /\ path["building"] # f
         /\ \A a \in Actors : opened[a] # f
<1>1. f \in 1..MaxFiles /\ \A a \in Actors : opened[a] # f
  BY DEF Free
<1>2. ASSUME Typed PROVE path["db"] # f /\ path["building"] # f
  BY <1>2 DEF Free, Typed, TypeOK
<1> QED
  BY <1>1, <1>2, Numbers

\* Connections are opened and closed with the work that needs them.
LEMMA NextConnections ==
  ASSUME Typed, Connections, [Next]_vars
  PROVE  Connections'
<1> USE DEF Goto, build, publication, Typed, TypeOK, Connections, InPublication, Building
<1>1. ASSUME NEW p \in Processes, Ensure(p)
      PROVE  Connections'
  <2>1. ASSUME NEW force \in BOOLEAN, Start(p, force) PROVE Connections'
    BY Actor, <2>1 DEF Start
  <2>2. CASE Clean(p)
    BY Actor, <2>2 DEF Clean
  <2>3. CASE Create(p)
    <3>1. /\ pc' = [pc EXCEPT ![p] = "fill"] /\ new' = [new EXCEPT ![p] = workbook]
          /\ opened' = [opened EXCEPT ![p] = Fresh] /\ Fresh # 0
          /\ UNCHANGED request
      BY CreateStep, FreeFacts, <2>3 DEF publication
    <3> QED
      BY Actor, Numbers, <3>1
  <2>4. CASE Fill(p)
    BY Actor, <2>4 DEF Fill
  <2>5. CASE Label(p)
    BY Actor, <2>5 DEF Label
  <2>6. CASE Unlink(p)
    BY Actor, <2>6 DEF Unlink
  <2>7. CASE Replace(p)
    BY Actor, <2>7 DEF Replace
  <2>8. CASE Tidy(p)
    BY Actor, <2>8 DEF Tidy
  <2>9. CASE BuildFails(p)
    BY Actor, <2>9 DEF BuildFails
  <2>10. CASE Load(p)
    <3>1. PICK to \in {"ready", "off"} : pc' = [pc EXCEPT ![p] = to]
      BY LoadStep, <2>10
    <3>2. pc[p] = "load" /\ UNCHANGED <<opened, new, request>>
      BY LoadStep, <2>10 DEF build, publication
    <3> QED
      BY Actor, <3>1, <3>2
  <2> QED
    BY <1>1, <2>1, <2>2, <2>3, <2>4, <2>5, <2>6, <2>7, <2>8, <2>9, <2>10 DEF Ensure
<1>2. ASSUME NEW p \in Processes, Stop(p) PROVE Connections'
  BY Actor, <1>2 DEF Stop
<1>3. ASSUME NEW i \in Importers, Publish(i)
      PROVE  Connections'
  <2>1. CASE Ask(i)
    BY Actor, <2>1 DEF Ask
  <2>2. CASE Connect(i)
    <3>1. pc[i] = "waiting" /\ UNCHANGED <<new, request>>
      BY ConnectStep, <2>2 DEF build, publication
    <3>2. \/ /\ pc' = [pc EXCEPT ![i] = "compare"]
             /\ \E f : f # 0 /\ opened' = [opened EXCEPT ![i] = f]
          \/ pc' = [pc EXCEPT ![i] = "close"] /\ opened' = opened
      <4>1. Fresh \in Free => Fresh # 0
        BY FreeFacts
      <4> QED
        BY ConnectStep, <4>1, <2>2
    <3>3. ASSUME NEW f, f # 0, pc' = [pc EXCEPT ![i] = "compare"], opened' = [opened EXCEPT ![i] = f]
          PROVE  Connections'
      BY Actor, <3>1, <3>3
    <3>4. ASSUME pc' = [pc EXCEPT ![i] = "close"], opened' = opened
          PROVE  Connections'
      BY Actor, <3>1, <3>4
    <3> QED
      BY <3>2, <3>3, <3>4
  <2>3. CASE Compare(i)
    BY Actor, <2>3 DEF Compare
  <2>4. CASE Insert(i)
    BY Actor, <2>4 DEF Insert
  <2>5. CASE Update(i)
    BY Actor, <2>5 DEF Update
  <2>6. CASE Commit(i)
    BY Actor, <2>6 DEF Commit
  <2>7. CASE PublishFails(i)
    BY Actor, <2>7 DEF PublishFails
  <2>8. CASE Close(i)
    <3>1. /\ pc' = [pc EXCEPT ![i] = "idle"] /\ opened' = [opened EXCEPT ![i] = 0]
          /\ request' = [request EXCEPT ![i] = NoRequest] /\ UNCHANGED new
      BY CloseStep, <2>8 DEF build
    <3> QED
      BY Actor, <3>1
  <2> QED
    BY <1>3, <2>1, <2>2, <2>3, <2>4, <2>5, <2>6, <2>7, <2>8 DEF Publish
<1>4. ASSUME NEW r \in Readers, Query(r)
      PROVE  Connections'
  <2>1. CASE Preflight(r)
    BY Actor, <2>1 DEF Preflight
  <2>2. CASE Execute(r)
    BY Actor, <2>2 DEF Execute, Readable
  <2>3. CASE QueryEnds(r)
    BY Actor, <2>3 DEF QueryEnds
  <2> QED
    BY <1>4, <2>1, <2>2, <2>3 DEF Query
<1>5. CASE ChangeWorkbook
  BY Actor, <1>5 DEF ChangeWorkbook
<1>6. CASE UNCHANGED vars
  BY Actor, <1>6 DEF vars
<1> QED
  BY <1>1, <1>2, <1>3, <1>4, <1>5, <1>6 DEF Next

\* A process that stops serving takes its threads with it.
LEMMA NextServing ==
  ASSUME Typed, Serving, [Next]_vars
  PROVE  Serving'
<1> USE DEF Goto, build, publication, Typed, TypeOK, Serving, Building
<1>1. ASSUME NEW p \in Processes, Ensure(p)
      PROVE  Serving'
  <2>1. ASSUME NEW force \in BOOLEAN, Start(p, force) PROVE Serving'
    BY Actor, <2>1 DEF Start
  <2>2. CASE Clean(p)
    BY Actor, <2>2 DEF Clean
  <2>3. CASE Create(p)
    BY Actor, <2>3 DEF Create
  <2>4. CASE Fill(p)
    BY Actor, <2>4 DEF Fill
  <2>5. CASE Label(p)
    BY Actor, <2>5 DEF Label
  <2>6. CASE Unlink(p)
    BY Actor, <2>6 DEF Unlink
  <2>7. CASE Replace(p)
    BY Actor, <2>7 DEF Replace
  <2>8. CASE Tidy(p)
    BY Actor, <2>8 DEF Tidy
  <2>9. CASE BuildFails(p)
    BY Actor, <2>9 DEF BuildFails
  <2>10. CASE Load(p)
    <3>1. PICK to \in {"ready", "off"} : pc' = [pc EXCEPT ![p] = to]
      BY LoadStep, <2>10
    <3>2. pc[p] = "load"
      BY LoadStep, <2>10
    <3> QED
      BY Actor, <3>1, <3>2
  <2> QED
    BY <1>1, <2>1, <2>2, <2>3, <2>4, <2>5, <2>6, <2>7, <2>8, <2>9, <2>10 DEF Ensure
<1>2. ASSUME NEW p \in Processes, Stop(p) PROVE Serving'
  BY Actor, <1>2 DEF Stop
<1>3. ASSUME NEW i \in Importers, Publish(i)
      PROVE  Serving'
  <2>1. CASE Ask(i)
    BY Actor, <2>1 DEF Ask
  <2>2. CASE Connect(i)
    <3>1. PICK to \in {"compare", "close"} : pc' = [pc EXCEPT ![i] = to]
      BY ConnectStep, <2>2
    <3>2. pc[i] = "waiting"
      BY ConnectStep, <2>2
    <3> QED
      BY Actor, <3>1, <3>2
  <2>3. CASE Compare(i)
    BY Actor, <2>3 DEF Compare
  <2>4. CASE Insert(i)
    BY Actor, <2>4 DEF Insert
  <2>5. CASE Update(i)
    BY Actor, <2>5 DEF Update
  <2>6. CASE Commit(i)
    BY Actor, <2>6 DEF Commit
  <2>7. CASE PublishFails(i)
    BY Actor, <2>7 DEF PublishFails
  <2>8. CASE Close(i)
    <3>1. pc' = [pc EXCEPT ![i] = "idle"]
      BY CloseStep, <2>8
    <3> QED
      BY Actor, <3>1
  <2> QED
    BY <1>3, <2>1, <2>2, <2>3, <2>4, <2>5, <2>6, <2>7, <2>8 DEF Publish
<1>4. ASSUME NEW r \in Readers, Query(r)
      PROVE  Serving'
  <2>1. CASE Preflight(r)
    BY Actor, <2>1 DEF Preflight
  <2>2. CASE Execute(r)
    BY Actor, <2>2 DEF Execute
  <2>3. CASE QueryEnds(r)
    BY Actor, <2>3 DEF QueryEnds
  <2> QED
    BY <1>4, <2>1, <2>2, <2>3 DEF Query
<1>5. CASE ChangeWorkbook
  BY Actor, <1>5 DEF ChangeWorkbook
<1>6. CASE UNCHANGED vars
  BY Actor, <1>6 DEF vars
<1> QED
  BY <1>1, <1>2, <1>3, <1>4, <1>5, <1>6 DEF Next

\* A thread opens the file under the lock, and gives both up together.
LEMMA NextLocks ==
  ASSUME Typed, Connections, LockCovers, LockHeld, [Next]_vars
  PROVE  LockCovers' /\ LockHeld'
<1> USE DEF Goto, build, publication, Typed, TypeOK, LockCovers, LockHeld, Connections, InPublication, Building
<1>1. ASSUME NEW p \in Processes, Ensure(p)
      PROVE  LockCovers' /\ LockHeld'
  <2>1. ASSUME NEW force \in BOOLEAN, Start(p, force) PROVE LockCovers' /\ LockHeld'
    BY Actor, <2>1 DEF Start
  <2>2. CASE Clean(p)
    BY Actor, <2>2 DEF Clean
  <2>3. CASE Create(p)
    <3>1. /\ pc' = [pc EXCEPT ![p] = "fill"] /\ opened' = [opened EXCEPT ![p] = Fresh]
          /\ lock' = lock
      BY CreateStep, <2>3
    <3> QED
      BY Actor, <3>1
  <2>4. CASE Fill(p)
    BY Actor, <2>4 DEF Fill
  <2>5. CASE Label(p)
    BY Actor, <2>5 DEF Label
  <2>6. CASE Unlink(p)
    BY Actor, <2>6 DEF Unlink
  <2>7. CASE Replace(p)
    BY Actor, <2>7 DEF Replace
  <2>8. CASE Tidy(p)
    BY Actor, <2>8 DEF Tidy
  <2>9. CASE BuildFails(p)
    BY Actor, <2>9 DEF BuildFails
  <2>10. CASE Load(p)
    <3>1. PICK to \in {"ready", "off"} : pc' = [pc EXCEPT ![p] = to]
      BY LoadStep, <2>10
    <3>2. UNCHANGED <<opened, lock>>
      BY LoadStep, <2>10
    <3> QED
      BY Actor, <3>1, <3>2
  <2> QED
    BY <1>1, <2>1, <2>2, <2>3, <2>4, <2>5, <2>6, <2>7, <2>8, <2>9, <2>10 DEF Ensure
<1>2. ASSUME NEW p \in Processes, Stop(p) PROVE LockCovers' /\ LockHeld'
  BY Actor, <1>2 DEF Stop
<1>3. ASSUME NEW i \in Importers, Publish(i)
      PROVE  LockCovers' /\ LockHeld'
  <2>1. CASE Ask(i)
    BY Actor, <2>1 DEF Ask
  <2>2. CASE Connect(i)
    <3>1. PICK to \in {"compare", "close"} :
            /\ pc' = [pc EXCEPT ![i] = to] /\ pc[i] = "waiting"
            /\ lock[Home[i]] = NoBody /\ lock' = [lock EXCEPT ![Home[i]] = i]
            /\ (\E f : opened' = [opened EXCEPT ![i] = f]) \/ opened' = opened
      BY ConnectStep, <2>2
    <3> QED
      BY Actor, <3>1
  <2>3. CASE Compare(i)
    BY Actor, <2>3 DEF Compare
  <2>4. CASE Insert(i)
    BY Actor, <2>4 DEF Insert
  <2>5. CASE Update(i)
    BY Actor, <2>5 DEF Update
  <2>6. CASE Commit(i)
    BY Actor, <2>6 DEF Commit
  <2>7. CASE PublishFails(i)
    BY Actor, <2>7 DEF PublishFails
  <2>8. CASE Close(i)
    <3>1. /\ pc[i] \in {"close", "published"} /\ pc' = [pc EXCEPT ![i] = "idle"]
          /\ opened' = [opened EXCEPT ![i] = 0] /\ lock' = [lock EXCEPT ![Home[i]] = NoBody]
      BY CloseStep, <2>8
    <3> QED
      BY Actor, <3>1
  <2> QED
    BY <1>3, <2>1, <2>2, <2>3, <2>4, <2>5, <2>6, <2>7, <2>8 DEF Publish
<1>4. ASSUME NEW r \in Readers, Query(r)
      PROVE  LockCovers' /\ LockHeld'
  <2>1. CASE Preflight(r)
    BY Actor, <2>1 DEF Preflight
  <2>2. CASE Execute(r)
    BY Actor, <2>2 DEF Execute, Readable
  <2>3. CASE QueryEnds(r)
    BY Actor, <2>3 DEF QueryEnds
  <2> QED
    BY <1>4, <2>1, <2>2, <2>3 DEF Query
<1>5. CASE ChangeWorkbook
  BY Actor, <1>5 DEF ChangeWorkbook
<1>6. CASE UNCHANGED vars
  BY Actor, <1>6 DEF vars
<1> QED
  BY <1>1, <1>2, <1>3, <1>4, <1>5, <1>6 DEF Next

\* A free file is in nobody's way.
LEMMA FreeNotBlocked ==
  ASSUME NEW a \in Actors, NEW f \in Free
  PROVE  ~Blocked(a, f)
  BY FreeFacts DEF Blocked

\* A step closes connections or opens one that is not blocked.
Opening ==
    \/ \A b \in Actors : opened'[b] \in {0, opened[b]}
    \/ \E a \in Actors, f \in 1..MaxFiles :
            opened' = [opened EXCEPT ![a] = f] /\ ~Blocked(a, f)

\* Who opens the file asks DuckDB.
LEMMA NextOpening ==
  ASSUME Typed, Connections, [Next]_vars
  PROVE  Opening
<1> USE DEF Goto, build, publication, Typed, TypeOK, Opening
<1>1. ASSUME NEW p \in Processes, Ensure(p)
      PROVE  Opening
  <2>1. ASSUME NEW force \in BOOLEAN, Start(p, force) PROVE Opening
    BY Actor, <2>1 DEF Start
  <2>2. CASE Clean(p)
    BY Actor, <2>2 DEF Clean
  <2>3. CASE Create(p)
    <3>1. Fresh \in 1..MaxFiles /\ ~Blocked(p, Fresh)
      BY Actor, FreeFacts, FreeNotBlocked, CreateStep, <2>3
    <3>2. opened' = [opened EXCEPT ![p] = Fresh]
      BY CreateStep, <2>3
    <3> QED
      BY Actor, <3>1, <3>2
  <2>4. CASE Fill(p)
    BY Actor, <2>4 DEF Fill
  <2>5. CASE Label(p)
    BY Actor, <2>5 DEF Label
  <2>6. CASE Unlink(p)
    BY Actor, <2>6 DEF Unlink
  <2>7. CASE Replace(p)
    BY Actor, <2>7 DEF Replace
  <2>8. CASE Tidy(p)
    BY Actor, <2>8 DEF Tidy
  <2>9. CASE BuildFails(p)
    BY Actor, <2>9 DEF BuildFails
  <2>10. CASE Load(p)
    <3>1. opened' = opened
      BY LoadStep, <2>10
    <3> QED
      BY Actor, <3>1
  <2> QED
    BY <1>1, <2>1, <2>2, <2>3, <2>4, <2>5, <2>6, <2>7, <2>8, <2>9, <2>10 DEF Ensure
<1>2. ASSUME NEW p \in Processes, Stop(p) PROVE Opening
  BY Actor, <1>2 DEF Stop
<1>3. ASSUME NEW i \in Importers, Publish(i)
      PROVE  Opening
  <2>1. CASE Ask(i)
    BY Actor, <2>1 DEF Ask
  <2>2. CASE Connect(i)
    <3>1. Fresh \in Free => Fresh \in 1..MaxFiles /\ ~Blocked(i, Fresh)
      BY Actor, FreeFacts, FreeNotBlocked
    <3>2. path["db"] # 0 => path["db"] \in 1..MaxFiles
      BY Numbers
    <3>3. \/ path["db"] # 0 /\ ~Blocked(i, path["db"]) /\ opened' = [opened EXCEPT ![i] = path["db"]]
          \/ Fresh \in Free /\ opened' = [opened EXCEPT ![i] = Fresh]
          \/ opened' = opened
      BY ConnectStep, <2>2
    <3> QED
      BY Actor, <3>1, <3>2, <3>3
  <2>3. CASE Compare(i)
    BY Actor, <2>3 DEF Compare
  <2>4. CASE Insert(i)
    BY Actor, <2>4 DEF Insert
  <2>5. CASE Update(i)
    BY Actor, <2>5 DEF Update
  <2>6. CASE Commit(i)
    BY Actor, <2>6 DEF Commit
  <2>7. CASE PublishFails(i)
    BY Actor, <2>7 DEF PublishFails
  <2>8. CASE Close(i)
    <3>1. opened' = [opened EXCEPT ![i] = 0]
      BY CloseStep, <2>8
    <3> QED
      BY Actor, <3>1
  <2> QED
    BY <1>3, <2>1, <2>2, <2>3, <2>4, <2>5, <2>6, <2>7, <2>8 DEF Publish
<1>4. ASSUME NEW r \in Readers, Query(r)
      PROVE  Opening
  <2>1. CASE Preflight(r)
    BY Actor, <2>1 DEF Preflight
  <2>2. CASE Execute(r)
    <3>1. /\ path["db"] # 0 /\ ~Blocked(r, path["db"])
          /\ opened' = [opened EXCEPT ![r] = path["db"]]
      BY <2>2 DEF Execute, Readable
    <3>2. path["db"] \in 1..MaxFiles
      BY <3>1, Numbers
    <3> QED
      BY Actor, <3>1, <3>2
  <2>3. CASE QueryEnds(r)
    BY Actor, <2>3 DEF QueryEnds
  <2> QED
    BY <1>4, <2>1, <2>2, <2>3 DEF Query
<1>5. CASE ChangeWorkbook
  BY Actor, <1>5 DEF ChangeWorkbook
<1>6. CASE UNCHANGED vars
  BY Actor, <1>6 DEF vars
<1> QED
  BY <1>1, <1>2, <1>3, <1>4, <1>5, <1>6 DEF Next

\* DuckDB's lock between connections holds.
LEMMA NextExclusive ==
  ASSUME Typed, Connections, Exclusive, [Next]_vars
  PROVE  Exclusive'
<1> USE DEF Exclusive, Writes, HomeOf
<1>1. opened \in [Actors -> 0..MaxFiles]
  BY DEF Typed, TypeOK
<1>2. CASE \A b \in Actors : opened'[b] \in {0, opened[b]}
  BY <1>2
<1>3. ASSUME NEW c \in Actors, NEW f \in 1..MaxFiles,
             opened' = [opened EXCEPT ![c] = f], ~Blocked(c, f)
      PROVE  Exclusive'
  <2> SUFFICES ASSUME NEW a \in Actors, NEW b \in Actors, a # b,
                      opened'[a] # 0, opened'[a] = opened'[b]
               PROVE  \/ ~Writes(a) /\ ~Writes(b)
                      \/ Writes(a) /\ Writes(b) /\ HomeOf(a) = HomeOf(b)
    BY DEF Exclusive
  <2>1. CASE a # c /\ b # c
    BY <1>1, <1>3, <2>1
  <2>2. CASE a = c
    BY <1>1, <1>3, <2>2 DEF Blocked
  <2>3. CASE b = c
    BY <1>1, <1>3, <2>3 DEF Blocked
  <2> QED
    BY <2>1, <2>2, <2>3
<1> QED
  BY NextOpening, <1>2, <1>3 DEF Opening

\* So nobody else writes a file that a thread has open.
LEMMA OneWriter ==
  ASSUME Typed, Connections, Serving, LockCovers, Exclusive,
         NEW t \in Threads, NEW a \in Actors, a # t, Writes(a), opened[t] # 0
  PROVE  opened[a] # opened[t]
<1> SUFFICES ASSUME opened[a] = opened[t]
             PROVE  FALSE
  OBVIOUS
<1>1. Writes(t) /\ HomeOf(a) = Home[t]
  BY Actor DEF Exclusive
<1>2. t \in Importers
  BY <1>1, Actor DEF Writes, Threads
<1>3. lock[Home[t]] = t /\ pc[t] # "idle"
  BY <1>2, Actor DEF LockCovers, Connections
<1>4. CASE a \in Threads
  BY Actor, <1>1, <1>3, <1>4 DEF LockCovers
<1>5. CASE a \in Processes
  <2>1. pc[a] = "ready"
    BY Actor, <1>1, <1>3, <1>5 DEF Serving
  <2> QED
    BY <1>5, <2>1 DEF Connections
<1> QED
  BY <1>4, <1>5 DEF Actors

Guarded == Typed /\ Connections /\ Serving /\ LockCovers /\ LockHeld /\ Exclusive

LEMMA OpenNumber ==
  ASSUME Typed, NEW a \in Actors, opened[a] # 0
  PROVE  opened[a] \in 1..MaxFiles
<1>1. opened[a] \in 0..MaxFiles
  BY DEF Typed, TypeOK
<1> QED
  BY <1>1, Numbers

\* A file that a thread has open changes only by that thread's COMMIT.
LEMMA OpenFileStays ==
  ASSUME Guarded, NEW t \in Threads, opened[t] # 0, [Next]_vars
  PROVE  files'[opened[t]] = files[opened[t]] \/ (t \in Importers /\ Commit(t))
<1> USE DEF Goto, build, publication
<1>1. ASSUME NEW p \in Processes, Ensure(p)
      PROVE  files'[opened[t]] = files[opened[t]] \/ (t \in Importers /\ Commit(t))
  <2>1. ASSUME NEW force \in BOOLEAN, Start(p, force) PROVE files'[opened[t]] = files[opened[t]] \/ (t \in Importers /\ Commit(t))
    BY <2>1 DEF Start
  <2>2. CASE Clean(p)
    BY <2>2 DEF Clean
  <2>3. CASE Create(p)
    <3>1. files' = [files EXCEPT ![Fresh] = NewFile("partial")] /\ Fresh \in Free
      BY CreateStep, <2>3
    <3>2. opened[t] # Fresh /\ opened[t] \in 1..MaxFiles
      BY Actor, <3>1, FreeFacts, OpenNumber DEF Guarded
    <3>3. files \in [1..MaxFiles -> File]
      BY DEF Guarded, Typed, TypeOK
    <3> QED
      BY <3>1, <3>2, <3>3
  <2>4. CASE Fill(p)
    <3>1. opened[p] # opened[t] /\ opened[t] \in 1..MaxFiles /\ files \in [1..MaxFiles -> File]
      BY Actor, OneWriter, OpenNumber DEF Guarded, Typed, TypeOK, Writes
    <3> QED
      BY <3>1, <2>4 DEF Fill
  <2>5. CASE Label(p)
    <3>1. opened[p] # opened[t] /\ opened[t] \in 1..MaxFiles /\ files \in [1..MaxFiles -> File]
      BY Actor, OneWriter, OpenNumber DEF Guarded, Typed, TypeOK, Writes
    <3> QED
      BY <3>1, <2>5 DEF Label
  <2>6. CASE Unlink(p)
    BY <2>6 DEF Unlink
  <2>7. CASE Replace(p)
    BY <2>7 DEF Replace
  <2>8. CASE Tidy(p)
    BY <2>8 DEF Tidy
  <2>9. CASE BuildFails(p)
    BY <2>9 DEF BuildFails
  <2>10. CASE Load(p)
    <3>1. files' = files
      BY LoadStep, <2>10
    <3> QED
      BY <3>1
  <2> QED
    BY <1>1, <2>1, <2>2, <2>3, <2>4, <2>5, <2>6, <2>7, <2>8, <2>9, <2>10 DEF Ensure
<1>2. ASSUME NEW p \in Processes, Stop(p) PROVE files'[opened[t]] = files[opened[t]] \/ (t \in Importers /\ Commit(t))
  BY <1>2 DEF Stop
<1>3. ASSUME NEW i \in Importers, Publish(i)
      PROVE  files'[opened[t]] = files[opened[t]] \/ (t \in Importers /\ Commit(t))
  <2>1. CASE Ask(i)
    BY <2>1 DEF Ask
  <2>2. CASE Connect(i)
    <3>1. files' = files \/ (Fresh \in Free /\ files' = [files EXCEPT ![Fresh] = NewFile("bare")])
      BY ConnectStep, <2>2
    <3>2. Fresh \in Free => opened[t] # Fresh /\ opened[t] \in 1..MaxFiles
      BY Actor, FreeFacts, OpenNumber DEF Guarded
    <3>3. files \in [1..MaxFiles -> File]
      BY DEF Guarded, Typed, TypeOK
    <3> QED
      BY <3>1, <3>2, <3>3
  <2>3. CASE Compare(i)
    BY <2>3 DEF Compare
  <2>4. CASE Insert(i)
    BY <2>4 DEF Insert
  <2>5. CASE Update(i)
    BY <2>5 DEF Update
  <2>6. CASE Commit(i)
    <3>1. CASE t = i
      BY <2>6, <3>1
    <3>2. CASE t # i
      <4>1. opened[i] # opened[t] /\ opened[t] \in 1..MaxFiles /\ files \in [1..MaxFiles -> File]
        BY <3>2, Actor, OneWriter, OpenNumber DEF Guarded, Typed, TypeOK, Writes
      <4> QED
        BY <4>1, <2>6 DEF Commit
    <3> QED
      BY <3>1, <3>2
  <2>7. CASE PublishFails(i)
    BY <2>7 DEF PublishFails
  <2>8. CASE Close(i)
    <3>1. files' = files
      BY CloseStep, <2>8
    <3> QED
      BY <3>1
  <2> QED
    BY <1>3, <2>1, <2>2, <2>3, <2>4, <2>5, <2>6, <2>7, <2>8 DEF Publish
<1>4. ASSUME NEW r \in Readers, Query(r)
      PROVE  files'[opened[t]] = files[opened[t]] \/ (t \in Importers /\ Commit(t))
  <2>1. CASE Preflight(r)
    BY <2>1 DEF Preflight
  <2>2. CASE Execute(r)
    BY <2>2 DEF Execute
  <2>3. CASE QueryEnds(r)
    BY <2>3 DEF QueryEnds
  <2> QED
    BY <1>4, <2>1, <2>2, <2>3 DEF Query
<1>5. CASE ChangeWorkbook
  BY <1>5 DEF ChangeWorkbook
<1>6. CASE UNCHANGED vars
  BY <1>6 DEF vars
<1> QED
  BY <1>1, <1>2, <1>3, <1>4, <1>5, <1>6 DEF Next

\* What others do leaves a publication alone, except that its process may die.
LEMMA Others ==
  ASSUME Typed, NEW j \in Importers, [Next]_vars
  PROVE  \/ Publish(j)
         \/ Stop(Home[j])
         \/ /\ pc'[j] = pc[j] /\ opened'[j] = opened[j] /\ request'[j] = request[j]
            /\ existing'[j] = existing[j] /\ tx'[j] = tx[j] /\ replaced'[j] = replaced[j]
<1> USE DEF Goto, build, publication, Typed, TypeOK
<1>1. ASSUME NEW p \in Processes, Ensure(p)
      PROVE  \/ Publish(j)
         \/ Stop(Home[j])
         \/ /\ pc'[j] = pc[j] /\ opened'[j] = opened[j] /\ request'[j] = request[j]
            /\ existing'[j] = existing[j] /\ tx'[j] = tx[j] /\ replaced'[j] = replaced[j]
  <2>1. ASSUME NEW force \in BOOLEAN, Start(p, force) PROVE \/ Publish(j)
         \/ Stop(Home[j])
         \/ /\ pc'[j] = pc[j] /\ opened'[j] = opened[j] /\ request'[j] = request[j]
            /\ existing'[j] = existing[j] /\ tx'[j] = tx[j] /\ replaced'[j] = replaced[j]
    BY Actor, <2>1 DEF Start
  <2>2. CASE Clean(p)
    BY Actor, <2>2 DEF Clean
  <2>3. CASE Create(p)
    <3>1. /\ pc' = [pc EXCEPT ![p] = "fill"] /\ opened' = [opened EXCEPT ![p] = Fresh]
          /\ UNCHANGED publication
      BY CreateStep, <2>3
    <3> QED
      BY Actor, <3>1
  <2>4. CASE Fill(p)
    BY Actor, <2>4 DEF Fill
  <2>5. CASE Label(p)
    BY Actor, <2>5 DEF Label
  <2>6. CASE Unlink(p)
    BY Actor, <2>6 DEF Unlink
  <2>7. CASE Replace(p)
    BY Actor, <2>7 DEF Replace
  <2>8. CASE Tidy(p)
    BY Actor, <2>8 DEF Tidy
  <2>9. CASE BuildFails(p)
    BY Actor, <2>9 DEF BuildFails
  <2>10. CASE Load(p)
    <3>1. PICK to \in {"ready", "off"} : pc' = [pc EXCEPT ![p] = to]
      BY LoadStep, <2>10
    <3>2. UNCHANGED <<opened, publication>>
      BY LoadStep, <2>10
    <3> QED
      BY Actor, <3>1, <3>2
  <2> QED
    BY <1>1, <2>1, <2>2, <2>3, <2>4, <2>5, <2>6, <2>7, <2>8, <2>9, <2>10 DEF Ensure
<1>2. ASSUME NEW p \in Processes, Stop(p) PROVE \/ Publish(j)
         \/ Stop(Home[j])
         \/ /\ pc'[j] = pc[j] /\ opened'[j] = opened[j] /\ request'[j] = request[j]
            /\ existing'[j] = existing[j] /\ tx'[j] = tx[j] /\ replaced'[j] = replaced[j]
  <2>1. CASE p = Home[j]
    BY <1>2, <2>1
  <2>2. CASE p # Home[j]
    <3>1. HomeOf(j) # p /\ j \in Actors /\ j # p
      BY Actor, <2>2
    <3> QED
      BY <3>1, <1>2 DEF Stop
  <2> QED
    BY <2>1, <2>2
<1>3. ASSUME NEW i \in Importers, Publish(i)
      PROVE  \/ Publish(j)
         \/ Stop(Home[j])
         \/ /\ pc'[j] = pc[j] /\ opened'[j] = opened[j] /\ request'[j] = request[j]
            /\ existing'[j] = existing[j] /\ tx'[j] = tx[j] /\ replaced'[j] = replaced[j]
  <2>1. CASE Ask(i)
    <3>1. CASE i = j
      BY <3>1, <1>3
    <3>2. CASE i # j
      BY Actor, <3>2, <2>1 DEF Ask
    <3> QED
      BY <3>1, <3>2
  <2>2. CASE Connect(i)
    <3>1. CASE i = j
      BY <3>1, <1>3
    <3>2. CASE i # j
      <4>1. PICK to \in {"compare", "close"} :
              /\ pc' = [pc EXCEPT ![i] = to] /\ ((\E f : opened' = [opened EXCEPT ![i] = f]) \/ opened' = opened)
              /\ UNCHANGED publication
        BY ConnectStep, <2>2
      <4> QED
        BY Actor, <3>2, <4>1
    <3> QED
      BY <3>1, <3>2
  <2>3. CASE Compare(i)
    <3>1. CASE i = j
      BY <3>1, <1>3
    <3>2. CASE i # j
      BY Actor, <3>2, <2>3 DEF Compare
    <3> QED
      BY <3>1, <3>2
  <2>4. CASE Insert(i)
    <3>1. CASE i = j
      BY <3>1, <1>3
    <3>2. CASE i # j
      BY Actor, <3>2, <2>4 DEF Insert
    <3> QED
      BY <3>1, <3>2
  <2>5. CASE Update(i)
    <3>1. CASE i = j
      BY <3>1, <1>3
    <3>2. CASE i # j
      BY Actor, <3>2, <2>5 DEF Update
    <3> QED
      BY <3>1, <3>2
  <2>6. CASE Commit(i)
    <3>1. CASE i = j
      BY <3>1, <1>3
    <3>2. CASE i # j
      BY Actor, <3>2, <2>6 DEF Commit
    <3> QED
      BY <3>1, <3>2
  <2>7. CASE PublishFails(i)
    <3>1. CASE i = j
      BY <3>1, <1>3
    <3>2. CASE i # j
      BY Actor, <3>2, <2>7 DEF PublishFails
    <3> QED
      BY <3>1, <3>2
  <2>8. CASE Close(i)
    <3>1. CASE i = j
      BY <3>1, <1>3
    <3>2. CASE i # j
      <4>1. /\ pc' = [pc EXCEPT ![i] = "idle"] /\ opened' = [opened EXCEPT ![i] = 0]
            /\ request' = [request EXCEPT ![i] = NoRequest]
            /\ existing' = [existing EXCEPT ![i] = NoRows]
            /\ tx' = [tx EXCEPT ![i] = NoRows]
            /\ replaced' = [replaced EXCEPT ![i] = {}]
        BY CloseStep, <2>8
      <4> QED
        BY Actor, <3>2, <4>1
    <3> QED
      BY <3>1, <3>2
  <2> QED
    BY <1>3, <2>1, <2>2, <2>3, <2>4, <2>5, <2>6, <2>7, <2>8 DEF Publish
<1>4. ASSUME NEW r \in Readers, Query(r)
      PROVE  \/ Publish(j)
         \/ Stop(Home[j])
         \/ /\ pc'[j] = pc[j] /\ opened'[j] = opened[j] /\ request'[j] = request[j]
            /\ existing'[j] = existing[j] /\ tx'[j] = tx[j] /\ replaced'[j] = replaced[j]
  <2>1. CASE Preflight(r)
    BY Actor, <2>1 DEF Preflight
  <2>2. CASE Execute(r)
    BY Actor, <2>2 DEF Execute
  <2>3. CASE QueryEnds(r)
    BY Actor, <2>3 DEF QueryEnds
  <2> QED
    BY <1>4, <2>1, <2>2, <2>3 DEF Query
<1>5. CASE ChangeWorkbook
  BY Actor, <1>5 DEF ChangeWorkbook
<1>6. CASE UNCHANGED vars
  BY Actor, <1>6 DEF vars
<1> QED
  BY <1>1, <1>2, <1>3, <1>4, <1>5, <1>6 DEF Next

\* The new rows and then the new values are the whole batch.
LEMMA WrittenTwice ==
  ASSUME NEW content \in Content, NEW batch \in Batches
  PROVE  Written(Written(content, batch, Inserted(content, batch)), batch, Overwritten(content, batch))
            = Written(content, batch, DOMAIN batch)
<1>1. ASSUME NEW k \in Keys, k \in DOMAIN batch, k \notin Overwritten(content, batch),
             k \notin Inserted(content, batch)
      PROVE  content[k] = batch[k]
  BY <1>1 DEF Overwritten, Inserted
<1>2. Inserted(content, batch) \subseteq DOMAIN batch /\ Overwritten(content, batch) \subseteq DOMAIN batch
  BY Parts
<1> HIDE DEF Inserted, Overwritten
<1> QED
  BY <1>1, <1>2 DEF Written

\* From the comparison to the report nothing changes the rows that were compared.
LEMMA NextCompared ==
  ASSUME Guarded, Compared, ReportTrue, [Next]_vars
  PROVE  Compared' /\ ReportTrue'
<1> SUFFICES ASSUME NEW j \in Importers
             PROVE  /\ ComparedBy(j)'
                    /\ (pc[j] = "published" => replaced[j] = Overwritten(existing[j], request[j].batch))'
  BY DEF Compared, ReportTrue
<1>1. /\ ComparedBy(j)
      /\ pc[j] = "published" => replaced[j] = Overwritten(existing[j], request[j].batch)
      /\ j \in Threads /\ j \in Actors
  BY Actor DEF Compared, ReportTrue
<1>2. /\ pc \in [Actors -> Places] /\ request \in [Importers -> Request \cup {NoRequest}]
      /\ existing \in [Importers -> Content] /\ tx \in [Importers -> Content]
      /\ replaced \in [Importers -> SUBSET Keys]
  BY DEF Guarded, Typed, TypeOK
<1>3. pc[j] \in {"compare"} \cup InPublication => opened[j] # 0 /\ request[j].batch \in Batches
  BY <1>1 DEF Guarded, Connections, InPublication, Request
<1>4. CASE /\ pc'[j] = pc[j] /\ opened'[j] = opened[j] /\ request'[j] = request[j]
           /\ existing'[j] = existing[j] /\ tx'[j] = tx[j] /\ replaced'[j] = replaced[j]
           /\ ~Commit(j)
  <2>1. pc[j] \in InPublication => files'[opened[j]] = files[opened[j]]
    BY <1>1, <1>3, <1>4, OpenFileStays
  <2> QED
    BY <1>1, <1>4, <2>1 DEF ComparedBy, InPublication
<1>5. ASSUME pc'[j] \in {"idle", "waiting", "compare", "close"}
      PROVE  /\ ComparedBy(j)'
             /\ (pc[j] = "published" => replaced[j] = Overwritten(existing[j], request[j].batch))'
  BY <1>5 DEF ComparedBy, InPublication
<1>6. CASE Stop(Home[j])
  <2>1. pc'[j] = "idle"
    BY <1>1, <1>6, Actor DEF Stop
  <2> QED
    BY <1>5, <2>1
<1>7. CASE Publish(j)
  <2>1. CASE Ask(j)
    BY <1>1, <1>2, <1>5, <2>1 DEF Ask, Goto
  <2>2. CASE Connect(j)
    <3>1. PICK to \in {"compare", "close"} : pc' = [pc EXCEPT ![j] = to]
      BY <2>2, ConnectStep
    <3> QED
      BY <1>1, <1>2, <1>5, <3>1
  <2>3. CASE Compare(j)
    <3>1. PICK to \in {"insert", "close"} : pc' = [pc EXCEPT ![j] = to]
      BY <2>3 DEF Compare, Goto
    <3>2. /\ files[opened[j]].state # "bare"
          /\ existing'[j] = files[opened[j]].values
          /\ UNCHANGED <<files, opened, request>>
      BY <1>2, <2>3 DEF Compare, build
    <3>3. to = "insert" => \/ request[j].confirmed
                           \/ Overwritten(files[opened[j]].values, request[j].batch) = {}
      BY <1>1, <1>2, <2>3, <3>1 DEF Compare, Goto
    <3> QED
      BY <1>1, <1>2, <3>1, <3>2, <3>3 DEF ComparedBy, InPublication
  <2>4. CASE Insert(j)
    <3>1. /\ pc[j] = "insert" /\ pc'[j] = "update"
          /\ tx'[j] = Written(files[opened[j]].values, request[j].batch,
                              Inserted(existing[j], request[j].batch))
          /\ UNCHANGED <<files, opened, request, existing>>
      BY <1>1, <1>2, <2>4 DEF Insert, Goto, build
    <3> QED
      BY <1>1, <3>1 DEF ComparedBy, InPublication
  <2>5. CASE Update(j)
    <3>1. /\ pc[j] = "update" /\ pc'[j] = "commit"
          /\ tx'[j] = Written(tx[j], request[j].batch, Overwritten(existing[j], request[j].batch))
          /\ UNCHANGED <<files, opened, request, existing>>
      BY <1>1, <1>2, <2>5 DEF Update, Goto, build
    <3>2. existing[j] \in Content /\ request[j].batch \in Batches
      BY <1>2, <1>3, <3>1 DEF InPublication
    <3> QED
      BY <1>1, <3>1, <3>2, WrittenTwice DEF ComparedBy, InPublication
  <2>6. CASE Commit(j)
    <3>1. /\ pc[j] = "commit" /\ pc'[j] = "published"
          /\ replaced'[j] = Overwritten(files[opened[j]].values, request[j].batch)
          /\ UNCHANGED <<request, existing>>
      BY <1>1, <1>2, <2>6 DEF Commit, Goto, build
    <3> QED
      BY <1>1, <3>1 DEF ComparedBy, InPublication
  <2>7. CASE PublishFails(j)
    BY <1>1, <1>2, <1>5, <2>7 DEF PublishFails
  <2>8. CASE Close(j)
    <3>1. pc' = [pc EXCEPT ![j] = "idle"]
      BY <2>8, CloseStep
    <3> QED
      BY <1>1, <1>2, <1>5, <3>1
  <2> QED
    BY <1>7, <2>1, <2>2, <2>3, <2>4, <2>5, <2>6, <2>7, <2>8 DEF Publish
<1>8. Commit(j) => Publish(j)
  BY DEF Publish
<1> QED
  BY <1>4, <1>6, <1>7, <1>8, Others DEF Guarded


\* Nothing that a thread has open is under construction.
LEMMA NextNames ==
  ASSUME Guarded, Names, [Next]_vars
  PROVE  Names'
<1> USE DEF Names, Sources
<1>1. ASSUME NEW p \in Processes, Ensure(p)
      PROVE  Names'
  <2>1. ASSUME NEW force \in BOOLEAN, Start(p, force) PROVE Names'
    <3>1. path' = path /\ files' = files /\ opened' = opened
      BY <2>1 DEF Start
    <3> QED
      BY <3>1
  <2>2. CASE Clean(p)
    <3>1. path' = [path EXCEPT !["building"] = 0] /\ files' = files /\ opened' = opened
      BY <2>2 DEF Clean
    <3> QED
      BY Numbers, <3>1 DEF Guarded, Typed, TypeOK
  <2>3. CASE Create(p)
    <3>1. /\ path' = [path EXCEPT !["building"] = Fresh] /\ Fresh \in Free
          /\ files' = [files EXCEPT ![Fresh] = NewFile("partial")]
          /\ opened' = [opened EXCEPT ![p] = Fresh]
      BY CreateStep, <2>3
    <3>2. /\ Fresh \in 1..MaxFiles /\ Fresh # 0 /\ path["db"] # Fresh
          /\ \A t \in Threads : opened[t] # Fresh /\ t # p /\ t \in Actors
      BY Actor, <3>1, FreeFacts DEF Guarded
    <3>3. /\ path \in [{"db", "building"} -> 0..MaxFiles]
          /\ opened \in [Actors -> 0..MaxFiles] /\ files \in [1..MaxFiles -> File]
      BY DEF Guarded, Typed, TypeOK
    <3>4. path'["building"] = Fresh /\ path'["db"] = path["db"] /\ files'[Fresh].state = "partial"
      BY <3>1, <3>2, <3>3 DEF NewFile
    <3>5. \A t \in Threads : opened'[t] = opened[t]
      BY <3>1, <3>2, <3>3
    <3> QED
      BY <3>2, <3>4, <3>5
  <2>4. CASE Fill(p)
    <3>1. /\ path' = path /\ opened' = opened
          /\ files' = [files EXCEPT ![opened[p]] =
                        [files[opened[p]] EXCEPT !.state = "whole", !.values = Base[new[p]]]]
      BY <2>4 DEF Fill
    <3>2. Base[new[p]] \in Sources
      BY BaseContent, <2>4 DEF Fill, Goto, Guarded, Typed, TypeOK, Connections
    <3>3. path["building"] # 0 => path["building"] \in 1..MaxFiles
      BY Numbers DEF Guarded, Typed, TypeOK
    <3>4. files \in [1..MaxFiles -> File]
      BY DEF Guarded, Typed, TypeOK
    <3>5. path["building"] # 0 => \/ files'[path["building"]] = files[path["building"]]
                                  \/ files'[path["building"]].values = Base[new[p]]
      <4>1. ASSUME path["building"] # 0, path["building"] = opened[p]
            PROVE  files'[path["building"]].values = Base[new[p]]
        <5>1. files[opened[p]] \in File
          BY <3>3, <3>4, <4>1
        <5> QED
          BY <3>1, <3>3, <3>4, <4>1, <5>1 DEF File
      <4> QED
        BY <3>1, <3>3, <3>4, <4>1
    <3> QED
      BY <3>1, <3>2, <3>5
  <2>5. CASE Label(p)
    <3>1. /\ path' = path /\ opened' = [opened EXCEPT ![p] = 0]
          /\ files' = [files EXCEPT ![opened[p]].label = workbook]
      BY <2>5 DEF Label
    <3>2. path["building"] # 0 => path["building"] \in 1..MaxFiles
      BY Numbers DEF Guarded, Typed, TypeOK
    <3>3. /\ opened \in [Actors -> 0..MaxFiles] /\ files \in [1..MaxFiles -> File]
          /\ \A t \in Threads : t # p /\ t \in Actors
      BY Actor DEF Guarded, Typed, TypeOK
    <3>4. path["building"] # 0 =>
            /\ files'[path["building"]].values = files[path["building"]].values
            /\ files'[path["building"]].state = files[path["building"]].state
      BY <3>1, <3>2, <3>3 DEF File
    <3>5. \A t \in Threads : opened'[t] = opened[t]
      BY <3>1, <3>3
    <3> QED
      BY <3>1, <3>4, <3>5
  <2>6. CASE Unlink(p)
    <3>1. path' = [path EXCEPT !["db"] = 0] /\ files' = files /\ opened' = opened
      BY <2>6 DEF Unlink
    <3> QED
      BY Numbers, <3>1 DEF Guarded, Typed, TypeOK
  <2>7. CASE Replace(p)
    <3>1. /\ path'["building"] = 0 /\ path'["db"] = path["building"]
          /\ files' = files /\ opened' = opened
      BY <2>7 DEF Replace
    <3> QED
      BY Numbers, <3>1
  <2>8. CASE Tidy(p)
    <3>1. path' = [path EXCEPT !["building"] = 0] /\ files' = files /\ opened' = opened
      BY <2>8 DEF Tidy
    <3> QED
      BY Numbers, <3>1 DEF Guarded, Typed, TypeOK
  <2>9. CASE BuildFails(p)
    <3>1. /\ path' = [path EXCEPT !["building"] = 0] /\ files' = files
          /\ opened' = [opened EXCEPT ![p] = 0]
      BY <2>9 DEF BuildFails
    <3> QED
      BY Numbers, <3>1 DEF Guarded, Typed, TypeOK
  <2>10. CASE Load(p)
    <3>1. path' = path /\ files' = files /\ opened' = opened
      BY LoadStep, <2>10
    <3> QED
      BY <3>1
  <2> QED
    BY <1>1, <2>1, <2>2, <2>3, <2>4, <2>5, <2>6, <2>7, <2>8, <2>9, <2>10 DEF Ensure
<1>2. ASSUME NEW p \in Processes, Stop(p) PROVE Names'
  <2>1. path' = path /\ files' = files
    BY <1>2 DEF Stop
  <2>2. \A t \in Threads : opened'[t] \in {0, opened[t]}
    BY Actor, <1>2 DEF Stop
  <2> QED
    BY <2>1, <2>2
<1>3. ASSUME NEW i \in Importers, Publish(i)
      PROVE  Names'
  <2>1. CASE Ask(i)
    <3>1. path' = path /\ files' = files /\ opened' = opened
      BY <2>1 DEF Ask
    <3> QED
      BY <3>1
  <2>2. CASE Connect(i)
    <3>1. /\ path \in [{"db", "building"} -> 0..MaxFiles]
          /\ opened \in [Actors -> 0..MaxFiles] /\ files \in [1..MaxFiles -> File] /\ i \in Actors
      BY Actor DEF Guarded, Typed, TypeOK
    <3>2. CASE path["db"] # 0 /\ opened' = [opened EXCEPT ![i] = path["db"]] /\ files' = files /\ path' = path
      BY <3>1, <3>2
    <3>3. CASE opened' = opened /\ files' = files /\ path' = path
      BY <3>3
    <3>4. CASE /\ Fresh \in Free
               /\ files' = [files EXCEPT ![Fresh] = NewFile("bare")]
               /\ path' = [path EXCEPT !["db"] = Fresh]
               /\ opened' = [opened EXCEPT ![i] = Fresh]
      <4>1. Fresh \in 1..MaxFiles /\ Fresh # 0 /\ path["building"] # Fresh
        BY <3>4, FreeFacts DEF Guarded
      <4>2. path["building"] # 0 => path["building"] \in 1..MaxFiles
        BY Numbers, <3>1
      <4>3. path'["db"] = Fresh /\ path'["building"] = path["building"]
        BY <3>1, <3>4
      <4>4. path["building"] # 0 => files'[path["building"]] = files[path["building"]]
        BY <3>1, <3>4, <4>1, <4>2
      <4>5. \A t \in Threads : opened'[t] \in {Fresh, opened[t]}
        BY <3>1, <3>4
      <4> QED
        BY <4>1, <4>3, <4>4, <4>5
    <3> QED
      BY <3>2, <3>3, <3>4, ConnectStep, <2>2
  <2>3. CASE Compare(i)
    <3>1. path' = path /\ files' = files /\ opened' = opened
      BY <2>3 DEF Compare
    <3> QED
      BY <3>1
  <2>4. CASE Insert(i)
    <3>1. path' = path /\ files' = files /\ opened' = opened
      BY <2>4 DEF Insert
    <3> QED
      BY <3>1
  <2>5. CASE Update(i)
    <3>1. path' = path /\ files' = files /\ opened' = opened
      BY <2>5 DEF Update
    <3> QED
      BY <3>1
  <2>6. CASE Commit(i)
    <3>1. /\ path' = path /\ opened' = opened
          /\ files' = [files EXCEPT ![opened[i]] = [files[opened[i]] EXCEPT !.values = tx[i]]]
      BY <2>6 DEF Commit
    <3>2. path["building"] # opened[i]
      BY Actor, <2>6 DEF Commit, Goto, Guarded, Connections, InPublication
    <3>3. path["building"] # 0 => path["building"] \in 1..MaxFiles
      BY Numbers DEF Guarded, Typed, TypeOK
    <3>4. path["building"] # 0 => files'[path["building"]] = files[path["building"]]
      BY <3>1, <3>2, <3>3 DEF Guarded, Typed, TypeOK
    <3> QED
      BY <3>1, <3>4
  <2>7. CASE PublishFails(i)
    <3>1. path' = path /\ files' = files /\ opened' = opened
      BY <2>7 DEF PublishFails
    <3> QED
      BY <3>1
  <2>8. CASE Close(i)
    <3>1. path' = path /\ files' = files /\ opened' = [opened EXCEPT ![i] = 0]
      BY CloseStep, <2>8
    <3> QED
      BY <3>1 DEF Guarded, Typed, TypeOK
  <2> QED
    BY <1>3, <2>1, <2>2, <2>3, <2>4, <2>5, <2>6, <2>7, <2>8 DEF Publish
<1>4. ASSUME NEW r \in Readers, Query(r)
      PROVE  Names'
  <2>1. CASE Preflight(r)
    <3>1. path' = path /\ files' = files /\ opened' = opened
      BY <2>1 DEF Preflight
    <3> QED
      BY <3>1
  <2>2. CASE Execute(r)
    <3>1. /\ path' = path /\ files' = files /\ opened' = [opened EXCEPT ![r] = path["db"]]
          /\ path["db"] # 0
      BY <2>2 DEF Execute, Readable
    <3> QED
      BY <3>1 DEF Guarded, Typed, TypeOK
  <2>3. CASE QueryEnds(r)
    <3>1. path' = path /\ files' = files /\ opened' = [opened EXCEPT ![r] = 0]
      BY <2>3 DEF QueryEnds
    <3> QED
      BY <3>1 DEF Guarded, Typed, TypeOK
  <2> QED
    BY <1>4, <2>1, <2>2, <2>3 DEF Query
<1>5. CASE ChangeWorkbook
  <2>1. path' = path /\ files' = files /\ opened' = opened
    BY <1>5 DEF ChangeWorkbook
  <2> QED
    BY <2>1
<1>6. CASE UNCHANGED vars
  BY <1>6 DEF vars
<1> QED
  BY <1>1, <1>2, <1>3, <1>4, <1>5, <1>6 DEF Next

Reading == \A r \in Readers : pc[r] = "read" => files[opened[r]].state = "whole"
Alone ==
    /\ OneBuilds /\ \A p \in Processes : Construction(p)
    /\ DatabaseWhole /\ Reading

\* Numbers that lead to files.
LEMMA Leads ==
  ASSUME Guarded
  PROVE  /\ pc \in [Actors -> Places] /\ path \in [{"db", "building"} -> 0..MaxFiles]
         /\ opened \in [Actors -> 0..MaxFiles] /\ files \in [1..MaxFiles -> File]
         /\ path["db"] # 0 => path["db"] \in 1..MaxFiles
         /\ path["building"] # 0 => path["building"] \in 1..MaxFiles
         /\ \A a \in Actors : opened[a] # 0 => opened[a] \in 1..MaxFiles
         /\ \A r \in Readers : pc[r] = "read" => opened[r] \in 1..MaxFiles
<1>1. Typed /\ Connections
  BY DEF Guarded
<1>2. /\ pc \in [Actors -> Places] /\ path \in [{"db", "building"} -> 0..MaxFiles]
      /\ opened \in [Actors -> 0..MaxFiles] /\ files \in [1..MaxFiles -> File]
  BY <1>1 DEF Typed, TypeOK
<1>3. \A r \in Readers : pc[r] = "read" => opened[r] # 0 /\ r \in Actors
  BY <1>1, Actor DEF Connections
<1> QED
  BY <1>2, <1>3, Numbers

\* A process that builds alone puts a complete file in place, and queries read that.
LEMMA NextAlone ==
  ASSUME Guarded, Names, Alone, ~overlapped', [Next]_vars
  PROVE  Alone'
<1> USE DEF Alone, OneBuilds, Construction, DatabaseWhole, Reading, Building
<1>1. ASSUME NEW p \in Processes, Ensure(p)
      PROVE  Alone'
  <2>1. ASSUME NEW force \in BOOLEAN, Start(p, force) PROVE Alone'
    <3>1. PICK to \in {"load", "clean"} : pc' = [pc EXCEPT ![p] = to]
            /\ UNCHANGED <<files, path, opened>>
      BY <2>1 DEF Start, Goto
    <3>2. OneBuilds' /\ \A q \in Processes : Construction(q)'
      BY Actor, Leads, <3>1
    <3>3. DatabaseWhole' /\ Reading'
      BY Actor, Leads, <3>1
    <3> QED
      BY <3>2, <3>3
  <2>2. CASE Clean(p)
    <3>1. /\ pc' = [pc EXCEPT ![p] = "create"] /\ path' = [path EXCEPT !["building"] = 0]
          /\ \A q \in Processes : q # p => ~Building(q)
          /\ UNCHANGED <<files, opened>>
      BY <2>2 DEF Clean, Goto
    <3>2. OneBuilds' /\ \A q \in Processes : Construction(q)'
      BY Actor, Leads, <3>1
    <3>3. DatabaseWhole' /\ Reading'
      BY Actor, Leads, <3>1
    <3> QED
      BY <3>2, <3>3
  <2>3. CASE Create(p)
    <3>1. /\ pc[p] = "create" /\ pc' = [pc EXCEPT ![p] = "fill"]
          /\ path' = [path EXCEPT !["building"] = Fresh] /\ Fresh \in Free
          /\ files' = [files EXCEPT ![Fresh] = NewFile("partial")]
          /\ opened' = [opened EXCEPT ![p] = Fresh]
      BY CreateStep, <2>3
    <3>2. /\ Fresh \in 1..MaxFiles /\ Fresh # 0 /\ path["db"] # Fresh
          /\ \A a \in Actors : opened[a] # Fresh
      BY <3>1, FreeFacts DEF Guarded
    <3>3. \A q \in Processes : q # p => ~Building(q)
      BY <3>1
    <3>4. OneBuilds' /\ \A q \in Processes : Construction(q)'
      BY Actor, Leads, <3>1, <3>2, <3>3
    <3>5. DatabaseWhole' /\ Reading'
      BY Actor, Leads, <3>1, <3>2
    <3> QED
      BY <3>4, <3>5
  <2>4. CASE Fill(p)
    <3>1. /\ pc[p] = "fill" /\ pc' = [pc EXCEPT ![p] = "label"] /\ UNCHANGED <<path, opened>>
          /\ files' = [files EXCEPT ![opened[p]] =
                        [files[opened[p]] EXCEPT !.state = "whole", !.values = Base[new[p]]]]
      BY <2>4 DEF Fill, Goto
    <3>2. \A q \in Processes : q # p => ~Building(q)
      BY <3>1
    <3>3. opened[p] \in 1..MaxFiles /\ path["building"] = opened[p]
      BY <3>1, Actor, Leads DEF Guarded, Connections
    <3>4. files'[opened[p]].state = "whole"
      BY <3>1, <3>3, Leads DEF File
    <3>5. \A f \in 1..MaxFiles : f # opened[p] => files'[f] = files[f]
      BY <3>1, <3>3, Leads
    <3>6. OneBuilds' /\ \A q \in Processes : Construction(q)'
      BY Actor, Leads, <3>1, <3>2, <3>3, <3>4
    <3>7. DatabaseWhole'
      BY Leads, <3>1, <3>4, <3>5
    <3>8. Reading'
      <4> SUFFICES ASSUME NEW r \in Readers, pc'[r] = "read"
                   PROVE  files'[opened'[r]].state = "whole"
        OBVIOUS
      <4>1. pc[r] = "read" /\ opened[r] \in 1..MaxFiles
        BY Actor, Leads, <3>1
      <4> QED
        BY <4>1, <3>1, <3>4, <3>5
    <3> QED
      BY <3>6, <3>7, <3>8
  <2>5. CASE Label(p)
    <3>1. /\ pc[p] = "label" /\ pc' = [pc EXCEPT ![p] = "unlink"] /\ path' = path
          /\ opened' = [opened EXCEPT ![p] = 0]
          /\ files' = [files EXCEPT ![opened[p]].label = workbook]
      BY <2>5 DEF Label, Goto
    <3>2. \A q \in Processes : q # p => ~Building(q)
      BY <3>1
    <3>3. opened[p] \in 1..MaxFiles /\ path["building"] = opened[p] /\ opened[p] # 0
      BY <3>1, Actor, Leads DEF Guarded, Connections
    <3>4. \A f \in 1..MaxFiles : files'[f].state = files[f].state
      BY <3>1, <3>3, Leads DEF File
    <3>5. OneBuilds' /\ \A q \in Processes : Construction(q)'
      BY Actor, Leads, <3>1, <3>2, <3>3, <3>4
    <3>6. DatabaseWhole'
      BY Leads, <3>1, <3>4
    <3>7. Reading'
      <4> SUFFICES ASSUME NEW r \in Readers, pc'[r] = "read"
                   PROVE  files'[opened'[r]].state = "whole"
        OBVIOUS
      <4>1. pc[r] = "read" /\ opened[r] \in 1..MaxFiles /\ opened'[r] = opened[r]
        BY Actor, Leads, <3>1
      <4> QED
        BY <4>1, <3>4
    <3> QED
      BY <3>5, <3>6, <3>7
  <2>6. CASE Unlink(p)
    <3>1. /\ pc[p] = "unlink" /\ pc' = [pc EXCEPT ![p] = "replace"]
          /\ path' = [path EXCEPT !["db"] = 0] /\ UNCHANGED <<files, opened>>
      BY <2>6 DEF Unlink, Goto
    <3>2. OneBuilds' /\ \A q \in Processes : Construction(q)'
      BY Actor, Leads, Numbers, <3>1
    <3>3. DatabaseWhole' /\ Reading'
      BY Actor, Leads, Numbers, <3>1
    <3> QED
      BY <3>2, <3>3
  <2>7. CASE Replace(p)
    <3>1. /\ pc[p] = "replace" /\ pc' = [pc EXCEPT ![p] = "tidy"]
          /\ path'["db"] = path["building"] /\ path'["building"] = 0 /\ UNCHANGED <<files, opened>>
      BY <2>7 DEF Replace, Goto
    <3>2. OneBuilds' /\ \A q \in Processes : Construction(q)'
      BY Actor, Leads, Numbers, <3>1
    <3>3. DatabaseWhole' /\ Reading'
      BY Actor, Leads, Numbers, <3>1
    <3> QED
      BY <3>2, <3>3
  <2>8. CASE Tidy(p)
    <3>1. /\ pc[p] = "tidy" /\ pc' = [pc EXCEPT ![p] = "load"]
          /\ path' = [path EXCEPT !["building"] = 0] /\ UNCHANGED <<files, opened>>
      BY <2>8 DEF Tidy, Goto
    <3>2. OneBuilds' /\ \A q \in Processes : Construction(q)'
      BY Actor, Leads, Numbers, <3>1
    <3>3. DatabaseWhole' /\ Reading'
      BY Actor, Leads, Numbers, <3>1
    <3> QED
      BY <3>2, <3>3
  <2>9. CASE BuildFails(p)
    <3>1. /\ Building(p) /\ pc' = [pc EXCEPT ![p] = "off"]
          /\ path' = [path EXCEPT !["building"] = 0] /\ opened' = [opened EXCEPT ![p] = 0] /\ files' = files
      BY <2>9 DEF BuildFails, Goto
    <3>2. OneBuilds' /\ \A q \in Processes : Construction(q)'
      BY Actor, Leads, Numbers, <3>1
    <3>3. DatabaseWhole' /\ Reading'
      BY Actor, Leads, Numbers, <3>1
    <3> QED
      BY <3>2, <3>3
  <2>10. CASE Load(p)
    <3>1. PICK to \in {"ready", "off"} : pc' = [pc EXCEPT ![p] = to]
      BY LoadStep, <2>10
    <3>2. pc[p] = "load" /\ UNCHANGED <<files, path, opened>>
      BY LoadStep, <2>10
    <3> QED
      BY Actor, Leads, <3>1, <3>2
  <2> QED
    BY <1>1, <2>1, <2>2, <2>3, <2>4, <2>5, <2>6, <2>7, <2>8, <2>9, <2>10 DEF Ensure
<1>2. ASSUME NEW p \in Processes, Stop(p) PROVE Alone'
  <2>1. /\ \A a \in Actors : \/ pc'[a] = pc[a] /\ opened'[a] = opened[a]
                             \/ pc'[a] \in {"off", "idle"}
        /\ UNCHANGED <<files, path>>
    BY <1>2 DEF Stop
  <2>2. OneBuilds' /\ \A q \in Processes : Construction(q)'
    BY Actor, <2>1
  <2>3. DatabaseWhole' /\ Reading'
    BY Actor, <2>1
  <2> QED
    BY <2>2, <2>3
<1>3. ASSUME NEW i \in Importers, Publish(i)
      PROVE  Alone'
  <2>1. CASE Ask(i)
    <3>1. PICK to \in {"waiting"} : pc' = [pc EXCEPT ![i] = to]
            /\ UNCHANGED <<files, path, opened>>
      BY <2>1 DEF Ask, Goto
    <3>2. OneBuilds' /\ \A q \in Processes : Construction(q)'
      BY Actor, Leads, <3>1
    <3>3. DatabaseWhole' /\ Reading'
      BY Actor, Leads, <3>1
    <3> QED
      BY <3>2, <3>3
  <2>2. CASE Connect(i)
    <3>1. PICK to \in {"compare", "close"} : pc' = [pc EXCEPT ![i] = to]
      BY ConnectStep, <2>2
    <3>2. OneBuilds'
      BY Actor, Leads, <3>1
    <3>3. CASE path["db"] # 0 /\ opened' = [opened EXCEPT ![i] = path["db"]] /\ files' = files /\ path' = path
      BY Actor, Leads, <3>1, <3>2, <3>3
    <3>4. CASE opened' = opened /\ files' = files /\ path' = path
      BY Actor, Leads, <3>1, <3>2, <3>4
    <3>5. CASE /\ Fresh \in Free
               /\ files' = [files EXCEPT ![Fresh] = NewFile("bare")]
               /\ path' = [path EXCEPT !["db"] = Fresh]
               /\ opened' = [opened EXCEPT ![i] = Fresh]
      <4>1. /\ Fresh \in 1..MaxFiles /\ Fresh # 0 /\ path["building"] # Fresh
            /\ \A a \in Actors : opened[a] # Fresh
        BY <3>5, FreeFacts DEF Guarded
      <4>2. path'["db"] = Fresh /\ path'["building"] = path["building"]
        BY <3>5, Leads
      <4>3. \A f \in 1..MaxFiles : f # Fresh => files'[f] = files[f]
        BY <3>5, Leads
      <4>4. files'[Fresh].state = "bare"
        BY <3>5, <4>1, Leads DEF NewFile
      <4>5. \A a \in Actors : a # i => pc'[a] = pc[a] /\ opened'[a] = opened[a]
        BY <3>1, <3>5, Leads
      <4>6. ASSUME NEW q \in Processes PROVE Construction(q)'
        <5>1. pc'[q] = pc[q] /\ opened'[q] = opened[q] /\ Construction(q)
          BY <4>5, Actor
        <5>2. path["building"] # 0 => files'[path["building"]] = files[path["building"]]
          BY <4>1, <4>3, Leads
        <5>3. pc[q] \in {"label", "unlink", "replace"} => path["building"] # 0
          BY <5>1, Actor DEF Guarded, Connections
        <5> QED
          BY <4>2, <5>1, <5>2, <5>3
      <4>7. DatabaseWhole'
        BY <4>2, <4>4
      <4>8. Reading'
        <5> SUFFICES ASSUME NEW r \in Readers, pc'[r] = "read"
                     PROVE  files'[opened'[r]].state = "whole"
          OBVIOUS
        <5>1. r \in Actors /\ r # i /\ pc[r] = "read"
          BY Actor, <4>5
        <5>2. opened[r] \in 1..MaxFiles /\ opened[r] # Fresh /\ opened'[r] = opened[r]
          BY <5>1, Leads, <4>1, <4>5
        <5> QED
          BY <5>1, <5>2, <4>3
      <4> QED
        BY <3>2, <4>6, <4>7, <4>8
    <3> QED
      BY <3>3, <3>4, <3>5, ConnectStep, <2>2
  <2>3. CASE Compare(i)
    <3>1. PICK to \in {"insert", "close"} : pc' = [pc EXCEPT ![i] = to]
            /\ UNCHANGED <<files, path, opened>>
      BY <2>3 DEF Compare, Goto
    <3>2. OneBuilds' /\ \A q \in Processes : Construction(q)'
      BY Actor, Leads, <3>1
    <3>3. DatabaseWhole' /\ Reading'
      BY Actor, Leads, <3>1
    <3> QED
      BY <3>2, <3>3
  <2>4. CASE Insert(i)
    <3>1. PICK to \in {"update"} : pc' = [pc EXCEPT ![i] = to]
            /\ UNCHANGED <<files, path, opened>>
      BY <2>4 DEF Insert, Goto
    <3>2. OneBuilds' /\ \A q \in Processes : Construction(q)'
      BY Actor, Leads, <3>1
    <3>3. DatabaseWhole' /\ Reading'
      BY Actor, Leads, <3>1
    <3> QED
      BY <3>2, <3>3
  <2>5. CASE Update(i)
    <3>1. PICK to \in {"commit"} : pc' = [pc EXCEPT ![i] = to]
            /\ UNCHANGED <<files, path, opened>>
      BY <2>5 DEF Update, Goto
    <3>2. OneBuilds' /\ \A q \in Processes : Construction(q)'
      BY Actor, Leads, <3>1
    <3>3. DatabaseWhole' /\ Reading'
      BY Actor, Leads, <3>1
    <3> QED
      BY <3>2, <3>3
  <2>6. CASE Commit(i)
    <3>1. /\ pc[i] = "commit" /\ pc' = [pc EXCEPT ![i] = "published"]
          /\ files' = [files EXCEPT ![opened[i]].values = tx[i]] /\ UNCHANGED <<path, opened>>
      BY <2>6 DEF Commit, Goto
    <3>2. \A f \in 1..MaxFiles : files'[f].state = files[f].state
      BY <3>1, Leads DEF File
    <3>3. OneBuilds'
      BY Actor, Leads, <3>1
    <3>4. ASSUME NEW q \in Processes PROVE Construction(q)'
      <4>1. pc'[q] = pc[q] /\ Construction(q)
        BY <3>1, Actor, Leads
      <4>2. pc[q] \in {"label", "unlink", "replace"} => path["building"] \in 1..MaxFiles
        BY <4>1, Actor, Leads DEF Guarded, Connections
      <4> QED
        BY <3>1, <3>2, <4>1, <4>2
    <3>5. DatabaseWhole'
      BY <3>1, <3>2, Leads
    <3>6. Reading'
      BY <3>1, <3>2, Actor, Leads
    <3> QED
      BY <3>3, <3>4, <3>5, <3>6
  <2>7. CASE PublishFails(i)
    <3>1. PICK to \in {"close"} : pc' = [pc EXCEPT ![i] = to]
            /\ UNCHANGED <<files, path, opened>>
      BY <2>7 DEF PublishFails, Goto
    <3>2. OneBuilds' /\ \A q \in Processes : Construction(q)'
      BY Actor, Leads, <3>1
    <3>3. DatabaseWhole' /\ Reading'
      BY Actor, Leads, <3>1
    <3> QED
      BY <3>2, <3>3
  <2>8. CASE Close(i)
    <3>1. /\ pc' = [pc EXCEPT ![i] = "idle"] /\ opened' = [opened EXCEPT ![i] = 0]
          /\ UNCHANGED <<files, path>>
      BY CloseStep, <2>8
    <3> QED
      BY Actor, Leads, <3>1
  <2> QED
    BY <1>3, <2>1, <2>2, <2>3, <2>4, <2>5, <2>6, <2>7, <2>8 DEF Publish
<1>4. ASSUME NEW r \in Readers, Query(r)
      PROVE  Alone'
  <2>1. CASE Preflight(r)
    <3>1. pc' = [pc EXCEPT ![r] = "planned"] /\ UNCHANGED <<files, path, opened>>
      BY <2>1 DEF Preflight, Goto
    <3>2. OneBuilds' /\ \A q \in Processes : Construction(q)'
      BY Actor, Leads, <3>1
    <3>3. DatabaseWhole' /\ Reading'
      BY Actor, Leads, <3>1
    <3> QED
      BY <3>2, <3>3
  <2>2. CASE Execute(r)
    <3>1. /\ pc' = [pc EXCEPT ![r] = "read"] /\ opened' = [opened EXCEPT ![r] = path["db"]]
          /\ path["db"] # 0 /\ files[path["db"]].state # "bare" /\ UNCHANGED <<files, path>>
      BY <2>2 DEF Execute, Goto, Readable
    <3>2. OneBuilds' /\ \A q \in Processes : Construction(q)'
      BY Actor, Leads, <3>1
    <3>3. DatabaseWhole'
      BY <3>1
    <3>4. files[path["db"]].state = "whole"
      BY <3>1, Leads DEF File
    <3>5. Reading'
      BY Actor, Leads, <3>1, <3>4
    <3> QED
      BY <3>2, <3>3, <3>5
  <2>3. CASE QueryEnds(r)
    <3>1. /\ pc' = [pc EXCEPT ![r] = "idle"] /\ opened' = [opened EXCEPT ![r] = 0]
          /\ UNCHANGED <<files, path>>
      BY <2>3 DEF QueryEnds, Goto
    <3>2. OneBuilds' /\ \A q \in Processes : Construction(q)'
      BY Actor, Leads, <3>1
    <3>3. DatabaseWhole' /\ Reading'
      BY Actor, Leads, <3>1
    <3> QED
      BY <3>2, <3>3
  <2> QED
    BY <1>4, <2>1, <2>2, <2>3 DEF Query
<1>5. CASE ChangeWorkbook
  <2>1. UNCHANGED <<pc, files, path, opened>>
    BY <1>5 DEF ChangeWorkbook
  <2> QED
    BY <2>1
<1>6. CASE UNCHANGED vars
  BY <1>6 DEF vars
<1> QED
  BY <1>1, <1>2, <1>3, <1>4, <1>5, <1>6 DEF Next

\* What has been seen stays seen.
LEMMA OverlapStays ==
  ASSUME Held, [Next]_vars
  PROVE  overlapped => overlapped'
<1> USE DEF build
<1>1. ASSUME NEW p \in Processes, Ensure(p)
      PROVE  overlapped => overlapped'
  <2>1. ASSUME NEW force \in BOOLEAN, Start(p, force) PROVE overlapped => overlapped'
    BY <2>1 DEF Start
  <2>2. CASE Clean(p)
    BY <2>2 DEF Clean
  <2>3. CASE Create(p)
    <3>1. overlapped' = overlapped
      BY CreateStep, <2>3
    <3> QED
      BY <3>1
  <2>4. CASE Fill(p)
    BY <2>4 DEF Fill
  <2>5. CASE Label(p)
    BY <2>5 DEF Label
  <2>6. CASE Unlink(p)
    BY <2>6 DEF Unlink
  <2>7. CASE Replace(p)
    BY <2>7 DEF Replace
  <2>8. CASE Tidy(p)
    BY <2>8 DEF Tidy
  <2>9. CASE BuildFails(p)
    BY <2>9 DEF BuildFails
  <2>10. CASE Load(p)
    <3>1. build' = build
      BY LoadStep, <2>10
    <3> QED
      BY <3>1
  <2> QED
    BY <1>1, <2>1, <2>2, <2>3, <2>4, <2>5, <2>6, <2>7, <2>8, <2>9, <2>10 DEF Ensure
<1>2. ASSUME NEW p \in Processes, Stop(p) PROVE overlapped => overlapped'
  BY <1>2 DEF Stop
<1>3. ASSUME NEW i \in Importers, Publish(i)
      PROVE  overlapped => overlapped'
  <2>1. CASE Ask(i)
    BY <2>1 DEF Ask
  <2>2. CASE Connect(i)
    <3>1. build' = build
      BY ConnectStep, <2>2
    <3> QED
      BY <3>1
  <2>3. CASE Compare(i)
    BY <2>3 DEF Compare
  <2>4. CASE Insert(i)
    BY <2>4 DEF Insert
  <2>5. CASE Update(i)
    BY <2>5 DEF Update
  <2>6. CASE Commit(i)
    BY <2>6 DEF Commit
  <2>7. CASE PublishFails(i)
    BY <2>7 DEF PublishFails
  <2>8. CASE Close(i)
    <3>1. build' = build
      BY CloseStep, <2>8
    <3> QED
      BY <3>1
  <2> QED
    BY <1>3, <2>1, <2>2, <2>3, <2>4, <2>5, <2>6, <2>7, <2>8 DEF Publish
<1>4. ASSUME NEW r \in Readers, Query(r)
      PROVE  overlapped => overlapped'
  <2>1. CASE Preflight(r)
    BY <2>1 DEF Preflight
  <2>2. CASE Execute(r)
    BY <2>2 DEF Execute
  <2>3. CASE QueryEnds(r)
    BY <2>3 DEF QueryEnds
  <2> QED
    BY <1>4, <2>1, <2>2, <2>3 DEF Query
<1>5. CASE ChangeWorkbook
  BY <1>5 DEF ChangeWorkbook
<1>6. CASE UNCHANGED vars
  BY <1>6 DEF vars
<1> QED
  BY <1>1, <1>2, <1>3, <1>4, <1>5, <1>6 DEF Next

LEMMA NextBuiltWhole ==
  ASSUME Guarded, Names, BuiltWhole, AnswerWhole, [Next]_vars
  PROVE  BuiltWhole' /\ AnswerWhole'
<1> SUFFICES ASSUME ~overlapped'
             PROVE  BuiltWhole' /\ AnswerWhole'
  BY DEF BuiltWhole, AnswerWhole
<1>1. ~overlapped
  BY OverlapStays DEF Guarded, Typed, TypeOK, Held
<1>2. Alone
  BY <1>1 DEF BuiltWhole, AnswerWhole, Alone, Reading
<1>3. Alone'
  BY <1>2, NextAlone
<1> QED
  BY <1>3 DEF BuiltWhole, AnswerWhole, Alone, Reading

Quiet ==
    /\ workbook = 1 /\ NothingLost /\ Labelled /\ OnDatabase
    /\ \A p \in Processes : Lonely(p)
    /\ Stays

\* Before it replaces the database a process runs alone, and none of its threads do.
LEMMA AllIdle ==
  ASSUME Guarded, Quiet, NEW p \in Processes, pc[p] \in BeforeReplace
  PROVE  /\ \A q \in Processes : q # p => pc[q] = "off"
         /\ \A t \in Threads : pc[t] = "idle" /\ pc[Home[t]] # "ready"
         /\ \A k \in Keys : kept[k] = NoValue
         /\ ~Current /\ Lonely(p)
<1>1. Lonely(p) /\ Serving /\ NothingLost
  BY DEF Quiet, Guarded
<1>2. \A q \in Processes : q # p => pc[q] = "off"
  BY <1>1 DEF Lonely
<1>3. ~Current /\ \A k \in Keys : kept[k] = NoValue
  BY <1>1 DEF Lonely, NothingLost
<1>4. ASSUME NEW t \in Threads PROVE pc[t] = "idle" /\ pc[Home[t]] # "ready"
  <2>1. pc[Home[t]] # "ready"
    BY <1>2, Actor DEF BeforeReplace
  <2> QED
    BY <2>1, <1>1 DEF Serving
<1> QED
  BY <1>1, <1>2, <1>3, <1>4

\* So while a thread does something, no process is about to replace the database.
LEMMA NobodyBuilds ==
  ASSUME Guarded, Quiet, NEW t \in Threads, pc[t] # "idle" \/ pc[Home[t]] = "ready"
  PROVE  \A q \in Processes : pc[q] \notin BeforeReplace
  BY AllIdle

\* What was asked for or has begun is not forgotten.
LEMMA FlagsStay ==
  ASSUME Held, [Next]_vars
  PROVE  (asked => asked') /\ (beside => beside')
<1> USE DEF build, Held
<1>1. ASSUME NEW p \in Processes, Ensure(p)
      PROVE  (asked => asked') /\ (beside => beside')
  <2>1. ASSUME NEW force \in BOOLEAN, Start(p, force) PROVE (asked => asked') /\ (beside => beside')
    BY <2>1 DEF Start
  <2>2. CASE Clean(p)
    BY <2>2 DEF Clean
  <2>3. CASE Create(p)
    <3>1. asked' = asked /\ beside' = beside
      BY CreateStep, <2>3
    <3> QED
      BY <3>1
  <2>4. CASE Fill(p)
    BY <2>4 DEF Fill
  <2>5. CASE Label(p)
    BY <2>5 DEF Label
  <2>6. CASE Unlink(p)
    BY <2>6 DEF Unlink
  <2>7. CASE Replace(p)
    BY <2>7 DEF Replace
  <2>8. CASE Tidy(p)
    BY <2>8 DEF Tidy
  <2>9. CASE BuildFails(p)
    BY <2>9 DEF BuildFails
  <2>10. CASE Load(p)
    <3>1. build' = build
      BY LoadStep, <2>10
    <3> QED
      BY <3>1
  <2> QED
    BY <1>1, <2>1, <2>2, <2>3, <2>4, <2>5, <2>6, <2>7, <2>8, <2>9, <2>10 DEF Ensure
<1>2. ASSUME NEW p \in Processes, Stop(p) PROVE (asked => asked') /\ (beside => beside')
  BY <1>2 DEF Stop
<1>3. ASSUME NEW i \in Importers, Publish(i)
      PROVE  (asked => asked') /\ (beside => beside')
  <2>1. CASE Ask(i)
    BY <2>1 DEF Ask
  <2>2. CASE Connect(i)
    <3>1. build' = build
      BY ConnectStep, <2>2
    <3> QED
      BY <3>1
  <2>3. CASE Compare(i)
    BY <2>3 DEF Compare
  <2>4. CASE Insert(i)
    BY <2>4 DEF Insert
  <2>5. CASE Update(i)
    BY <2>5 DEF Update
  <2>6. CASE Commit(i)
    BY <2>6 DEF Commit
  <2>7. CASE PublishFails(i)
    BY <2>7 DEF PublishFails
  <2>8. CASE Close(i)
    <3>1. build' = build
      BY CloseStep, <2>8
    <3> QED
      BY <3>1
  <2> QED
    BY <1>3, <2>1, <2>2, <2>3, <2>4, <2>5, <2>6, <2>7, <2>8 DEF Publish
<1>4. ASSUME NEW r \in Readers, Query(r)
      PROVE  (asked => asked') /\ (beside => beside')
  <2>1. CASE Preflight(r)
    BY <2>1 DEF Preflight
  <2>2. CASE Execute(r)
    BY <2>2 DEF Execute
  <2>3. CASE QueryEnds(r)
    BY <2>3 DEF QueryEnds
  <2> QED
    BY <1>4, <2>1, <2>2, <2>3 DEF Query
<1>5. CASE ChangeWorkbook
  BY <1>5 DEF ChangeWorkbook
<1>6. CASE UNCHANGED vars
  BY <1>6 DEF vars
<1> QED
  BY <1>1, <1>2, <1>3, <1>4, <1>5, <1>6 DEF Next

\* Undisturbed, a process that builds takes away nothing that was published.
LEMMA NextQuiet ==
  ASSUME Guarded, Names, Compared, Quiet, ~asked', ~beside', [Next]_vars
  PROVE  Quiet'
<1> USE DEF Quiet, NothingLost, Labelled, OnDatabase, Stays, Current
<1>1. ASSUME NEW p \in Processes, Ensure(p)
      PROVE  Quiet'
  <2>1. ASSUME NEW force \in BOOLEAN, Start(p, force) PROVE Quiet'
    <3>1. PICK to \in {"load", "clean"} : pc[p] = "off" /\ pc' = [pc EXCEPT ![p] = to]
      BY <2>1 DEF Start, Goto
    <3>2. UNCHANGED <<files, path, opened, workbook, kept>>
      BY <2>1 DEF Start, publication
    <3>3. to = "load" => Current
      BY <2>1, <3>1, Leads, Actor DEF Start, Goto
    <3>4. ASSUME to = "clean"
          PROVE  ~Current /\ \A q \in Processes : q # p => pc[q] = "off"
      <4>1. force = FALSE
        BY <2>1 DEF Start
      <4>2. ~(path["db"] # 0 /\ files[path["db"]].label = workbook /\ ~Unreadable(path["db"]))
        BY <3>1, <3>4, <4>1, <2>1, Leads, Actor DEF Start, Goto
      <4>3. \A q \in Processes : q # p => pc[q] = "off"
        BY <4>2, <2>1 DEF Start
      <4>4. \A q \in Processes : pc[q] = "off" /\ opened[q] = 0
        BY <3>1, <4>3 DEF Guarded, Connections
      <4>5. \A t \in Threads : opened[t] = 0
        BY <4>4, Actor DEF Guarded, Serving, Connections, Threads
      <4>6. path["db"] # 0 => ~Unreadable(path["db"])
        BY <4>4, <4>5 DEF Unreadable, Actors
      <4> QED
        BY <4>2, <4>3, <4>6
    <3>5. \A q \in Processes : Lonely(q)'
      <4>1. CASE to = "load"
        BY <3>1, <3>2, <3>3, <4>1, Leads, Actor DEF Lonely, BeforeReplace
      <4>2. CASE to = "clean"
        BY <3>1, <3>2, <3>4, <4>2, Leads, Actor DEF Lonely, BeforeReplace
      <4> QED
        BY <4>1, <4>2
    <3>6. \A j \in Importers : pc'[j] = pc[j]
      BY <3>1, Actor, Leads
    <3> QED
      BY <3>2, <3>5, <3>6
  <2>2. CASE Clean(p)
    <3>1. /\ pc[p] = "clean" /\ pc' = [pc EXCEPT ![p] = "create"]
          /\ path' = [path EXCEPT !["building"] = 0]
          /\ UNCHANGED <<files, opened, workbook, kept>>
      BY <2>2 DEF Clean, Goto, publication
    <3>2. \A t \in Threads : pc'[t] = pc[t] /\ opened'[t] = opened[t]
      BY <3>1, Actor, Leads
    <3>3. \A q \in Processes : q # p => pc'[q] = pc[q] /\ opened'[q] = opened[q]
      BY <3>1, Leads
    <3>4. /\ \A q \in Processes : q # p => pc[q] = "off"
          /\ \A t \in Threads : pc[t] = "idle"
          /\ \A k \in Keys : kept[k] = NoValue
          /\ ~Current /\ Lonely(p)
      BY <3>1, AllIdle DEF BeforeReplace
    <3>5. NothingLost' /\ OnDatabase' /\ Stays'
      BY <3>1, <3>2, <3>4, Actor DEF InPublication
    <3>6. \A q \in Processes : q # p => Lonely(q)'
      BY <3>3, <3>4 DEF Lonely, BeforeReplace
    <3>7. path'["db"] = path["db"]
      BY <3>1, Leads
    <3>8. Lonely(p)'
      BY <3>1, <3>3, <3>4, <3>7, Leads, Actor DEF Lonely, BeforeReplace
    <3>9. Labelled'
      BY <3>1, <3>3, <3>4, <3>7, Leads
    <3> QED
      BY <3>1, <3>5, <3>6, <3>8, <3>9
  <2>3. CASE Create(p)
    <3>1. /\ pc[p] = "create" /\ pc' = [pc EXCEPT ![p] = "fill"]
          /\ path' = [path EXCEPT !["building"] = Fresh] /\ Fresh \in Free
          /\ files' = [files EXCEPT ![Fresh] = NewFile("partial")]
          /\ opened' = [opened EXCEPT ![p] = Fresh]
          /\ UNCHANGED <<workbook, kept>>
      BY CreateStep, <2>3 DEF build, publication
    <3>2. \A t \in Threads : pc'[t] = pc[t] /\ opened'[t] = opened[t]
      BY <3>1, Actor, Leads
    <3>3. \A q \in Processes : q # p => pc'[q] = pc[q] /\ opened'[q] = opened[q]
      BY <3>1, Leads
    <3>4. /\ \A q \in Processes : q # p => pc[q] = "off"
          /\ \A t \in Threads : pc[t] = "idle"
          /\ \A k \in Keys : kept[k] = NoValue
          /\ ~Current /\ Lonely(p)
      BY <3>1, AllIdle DEF BeforeReplace
    <3>5. NothingLost' /\ OnDatabase' /\ Stays'
      BY <3>1, <3>2, <3>4, Actor DEF InPublication
    <3>6. \A q \in Processes : q # p => Lonely(q)'
      BY <3>3, <3>4 DEF Lonely, BeforeReplace
    <3>7. path'["db"] = path["db"] /\ path'["building"] = Fresh /\ opened'[p] = Fresh
      BY <3>1, Leads, Actor
    <3>8. path["db"] # 0 => files'[path["db"]] = files[path["db"]]
      BY <3>1, FreeFacts, Leads DEF Guarded
    <3>9. Lonely(p)'
      BY <3>1, <3>3, <3>4, <3>7, <3>8, Leads, Actor DEF Lonely, BeforeReplace
    <3>10. Labelled'
      BY <3>1, <3>3, <3>4, <3>7, <3>8, Leads
    <3> QED
      BY <3>1, <3>5, <3>6, <3>9, <3>10
  <2>4. CASE Fill(p)
    <3>1. /\ pc[p] = "fill" /\ pc' = [pc EXCEPT ![p] = "label"]
          /\ files' = [files EXCEPT ![opened[p]] =
                        [files[opened[p]] EXCEPT !.state = "whole", !.values = Base[new[p]]]]
          /\ UNCHANGED <<path, opened, workbook, kept>>
      BY <2>4 DEF Fill, Goto, build, publication
    <3>2. \A t \in Threads : pc'[t] = pc[t] /\ opened'[t] = opened[t]
      BY <3>1, Actor, Leads
    <3>3. \A q \in Processes : q # p => pc'[q] = pc[q] /\ opened'[q] = opened[q]
      BY <3>1, Leads
    <3>4. /\ \A q \in Processes : q # p => pc[q] = "off"
          /\ \A t \in Threads : pc[t] = "idle"
          /\ \A k \in Keys : kept[k] = NoValue
          /\ ~Current /\ Lonely(p)
      BY <3>1, AllIdle DEF BeforeReplace
    <3>5. NothingLost' /\ OnDatabase' /\ Stays'
      BY <3>1, <3>2, <3>4, Actor DEF InPublication
    <3>6. \A q \in Processes : q # p => Lonely(q)'
      BY <3>3, <3>4 DEF Lonely, BeforeReplace
    <3>7. path["building"] = opened[p]
      BY <3>1, <3>4 DEF Lonely, BeforeReplace
    <3>8. path["db"] # 0 => files'[path["db"]] = files[path["db"]]
      BY <3>1, <3>7, Leads DEF Names
    <3>9. Lonely(p)'
      BY <3>1, <3>3, <3>4, <3>7, <3>8, Leads, Actor DEF Lonely, BeforeReplace
    <3>10. Labelled'
      BY <3>1, <3>3, <3>4, <3>7, <3>8, Leads
    <3> QED
      BY <3>1, <3>5, <3>6, <3>9, <3>10
  <2>5. CASE Label(p)
    <3>1. /\ pc[p] = "label" /\ pc' = [pc EXCEPT ![p] = "unlink"]
          /\ files' = [files EXCEPT ![opened[p]].label = workbook]
          /\ opened' = [opened EXCEPT ![p] = 0]
          /\ UNCHANGED <<path, workbook, kept>>
      BY <2>5 DEF Label, Goto, build, publication
    <3>2. \A t \in Threads : pc'[t] = pc[t] /\ opened'[t] = opened[t]
      BY <3>1, Actor, Leads
    <3>3. \A q \in Processes : q # p => pc'[q] = pc[q] /\ opened'[q] = opened[q]
      BY <3>1, Leads
    <3>4. /\ \A q \in Processes : q # p => pc[q] = "off"
          /\ \A t \in Threads : pc[t] = "idle"
          /\ \A k \in Keys : kept[k] = NoValue
          /\ ~Current /\ Lonely(p)
      BY <3>1, AllIdle DEF BeforeReplace
    <3>5. NothingLost' /\ OnDatabase' /\ Stays'
      BY <3>1, <3>2, <3>4, Actor DEF InPublication
    <3>6. \A q \in Processes : q # p => Lonely(q)'
      BY <3>3, <3>4 DEF Lonely, BeforeReplace
    <3>7. path["building"] = opened[p] /\ opened[p] \in 1..MaxFiles
      BY <3>1, <3>4, Actor, Leads DEF Lonely, BeforeReplace, Guarded, Connections
    <3>8. path["db"] # 0 => files'[path["db"]] = files[path["db"]]
      BY <3>1, <3>7, Leads DEF Names
    <3>9. files'[opened[p]].label = workbook
      BY <3>1, <3>7, Leads DEF File
    <3>10. Lonely(p)'
      BY <3>1, <3>3, <3>4, <3>7, <3>8, <3>9, Leads, Actor DEF Lonely, BeforeReplace
    <3>11. Labelled'
      BY <3>1, <3>8
    <3> QED
      BY <3>1, <3>5, <3>6, <3>10, <3>11
  <2>6. CASE Unlink(p)
    <3>1. /\ pc[p] = "unlink" /\ pc' = [pc EXCEPT ![p] = "replace"]
          /\ path' = [path EXCEPT !["db"] = 0]
          /\ UNCHANGED <<files, opened, workbook, kept>>
      BY <2>6 DEF Unlink, Goto, build, publication
    <3>2. \A t \in Threads : pc'[t] = pc[t] /\ opened'[t] = opened[t]
      BY <3>1, Actor, Leads
    <3>3. \A q \in Processes : q # p => pc'[q] = pc[q] /\ opened'[q] = opened[q]
      BY <3>1, Leads
    <3>4. /\ \A q \in Processes : q # p => pc[q] = "off"
          /\ \A t \in Threads : pc[t] = "idle"
          /\ \A k \in Keys : kept[k] = NoValue
          /\ ~Current /\ Lonely(p)
      BY <3>1, AllIdle DEF BeforeReplace
    <3>5. NothingLost' /\ OnDatabase' /\ Stays'
      BY <3>1, <3>2, <3>4, Actor DEF InPublication
    <3>6. \A q \in Processes : q # p => Lonely(q)'
      BY <3>3, <3>4 DEF Lonely, BeforeReplace
    <3>7. path'["db"] = 0 /\ path'["building"] = path["building"]
      BY <3>1, Leads
    <3>8. Lonely(p)'
      BY <3>1, <3>3, <3>4, <3>7, Leads, Actor DEF Lonely, BeforeReplace
    <3>9. Labelled'
      BY <3>1, <3>3, <3>4, <3>7, Leads
    <3> QED
      BY <3>1, <3>5, <3>6, <3>8, <3>9
  <2>7. CASE Replace(p)
    <3>1. /\ pc[p] = "replace" /\ pc' = [pc EXCEPT ![p] = "tidy"]
          /\ path'["db"] = path["building"] /\ path'["building"] = 0
          /\ UNCHANGED <<files, opened, workbook, kept>>
      BY <2>7 DEF Replace, Goto, publication
    <3>2. \A t \in Threads : pc'[t] = pc[t] /\ opened'[t] = opened[t]
      BY <3>1, Actor, Leads
    <3>3. \A q \in Processes : q # p => pc'[q] = pc[q] /\ opened'[q] = opened[q]
      BY <3>1, Leads
    <3>4. /\ \A q \in Processes : q # p => pc[q] = "off"
          /\ \A t \in Threads : pc[t] = "idle"
          /\ \A k \in Keys : kept[k] = NoValue
          /\ ~Current /\ Lonely(p)
      BY <3>1, AllIdle DEF BeforeReplace
    <3>5. NothingLost' /\ OnDatabase' /\ Stays'
      BY <3>1, <3>2, <3>4, Actor DEF InPublication
    <3>6. \A q \in Processes : q # p => Lonely(q)'
      BY <3>3, <3>4 DEF Lonely, BeforeReplace
    <3>7. Lonely(p)'
      BY <3>1, Leads, Actor DEF Lonely, BeforeReplace
    <3>8. Labelled'
      BY <3>1, <3>4 DEF Lonely, BeforeReplace
    <3> QED
      BY <3>1, <3>5, <3>6, <3>7, <3>8
  <2>8. CASE Tidy(p)
    <3>1. /\ pc[p] = "tidy" /\ pc' = [pc EXCEPT ![p] = "load"]
          /\ path'["db"] = path["db"] /\ UNCHANGED <<files, opened, workbook, kept>>
      BY <2>8, Leads DEF Tidy, Goto, build, publication
    <3>2. \A t \in Threads : pc'[t] = pc[t] /\ opened'[t] = opened[t]
      BY <3>1, Actor, Leads
    <3>3. \A q \in Processes : q # p => pc'[q] = pc[q] /\ opened'[q] = opened[q]
      BY <3>1, Leads
    <3>4. \A q \in Processes : Lonely(q)'
      <4> SUFFICES ASSUME NEW q \in Processes, pc'[q] \in BeforeReplace
                   PROVE  Lonely(q)'
        BY DEF Lonely
      <4>1. q # p
        BY <3>1, Leads, Actor DEF BeforeReplace
      <4>2. pc[p] = "off"
        BY <3>3, <4>1 DEF Lonely
      <4> QED
        BY <3>1, <4>2 DEF Building
    <3>5. NothingLost' /\ Labelled' /\ OnDatabase' /\ Stays'
      BY <3>1, <3>2, Actor, Leads
    <3> QED
      BY <3>1, <3>4, <3>5
  <2>9. CASE BuildFails(p)
    <3>1. Building(p)
      BY <2>9 DEF BuildFails
    <3>2. CASE pc[p] = "tidy"
      <4>1. /\ pc' = [pc EXCEPT ![p] = "off"]
            /\ path'["db"] = path["db"] /\ opened' = [opened EXCEPT ![p] = 0]
            /\ UNCHANGED <<files, workbook, kept>>
        BY <2>9, Leads DEF BuildFails, Goto, build, publication
      <4>2. \A t \in Threads : pc'[t] = pc[t] /\ opened'[t] = opened[t]
        BY <4>1, Actor, Leads
      <4>3. \A q \in Processes : q # p => pc'[q] = pc[q] /\ opened'[q] = opened[q]
        BY <4>1, Leads
      <4>4. \A q \in Processes : Lonely(q)'
        <5> SUFFICES ASSUME NEW q \in Processes, pc'[q] \in BeforeReplace
                     PROVE  Lonely(q)'
          BY DEF Lonely
        <5>1. q # p
          BY <4>1, Leads, Actor DEF BeforeReplace
        <5>2. pc[p] = "off"
          BY <4>3, <5>1 DEF Lonely
        <5> QED
          BY <3>2, <5>2
      <4>5. NothingLost' /\ Labelled' /\ OnDatabase' /\ Stays'
        BY <4>1, <4>2, Actor, Leads
      <4> QED
        BY <4>1, <4>4, <4>5
    <3>3. CASE pc[p] # "tidy"
      <4>1. /\ pc[p] \in BeforeReplace /\ pc' = [pc EXCEPT ![p] = "off"]
            /\ path'["db"] = path["db"] /\ opened' = [opened EXCEPT ![p] = 0]
            /\ UNCHANGED <<files, workbook, kept>>
        BY <2>9, <3>3, <3>1, Leads DEF BuildFails, Building, BeforeReplace, build, publication
      <4>2. \A t \in Threads : pc'[t] = pc[t] /\ opened'[t] = opened[t]
        BY <4>1, Actor, Leads
      <4>3. \A q \in Processes : q # p => pc'[q] = pc[q] /\ opened'[q] = opened[q]
        BY <4>1, Leads
      <4>4. /\ \A q \in Processes : q # p => pc[q] = "off"
            /\ \A t \in Threads : pc[t] = "idle"
            /\ \A k \in Keys : kept[k] = NoValue
            /\ ~Current /\ Lonely(p)
        BY <4>1, AllIdle DEF BeforeReplace
      <4>5. NothingLost' /\ OnDatabase' /\ Stays'
        BY <4>1, <4>2, <4>4, Actor DEF InPublication
      <4>6. \A q \in Processes : q # p => Lonely(q)'
        BY <4>3, <4>4 DEF Lonely, BeforeReplace
      <4>7. Lonely(p)'
        BY <4>1, Leads, Actor DEF Lonely, BeforeReplace
      <4>8. Labelled'
        BY <4>1
      <4> QED
        BY <4>1, <4>5, <4>6, <4>7, <4>8
    <3> QED
      BY <3>2, <3>3
  <2>10. CASE Load(p)
    <3>1. PICK to \in {"ready", "off"} : pc' = [pc EXCEPT ![p] = to]
      BY LoadStep, <2>10
    <3>2. pc[p] = "load" /\ UNCHANGED <<files, path, opened, workbook, kept>>
      BY LoadStep, <2>10 DEF build, publication
    <3>3. \A q \in Processes : q # p => pc'[q] = pc[q]
      BY <3>1, Leads
    <3>4. \A q \in Processes : Lonely(q)'
      <4> SUFFICES ASSUME NEW q \in Processes, pc'[q] \in BeforeReplace
                   PROVE  Lonely(q)'
        BY DEF Lonely
      <4>1. q # p
        BY <3>1, Leads, Actor DEF BeforeReplace
      <4>2. pc[p] = "off"
        BY <3>3, <4>1 DEF Lonely
      <4> QED
        BY <3>2, <4>2
    <3>5. \A j \in Importers : pc'[j] = pc[j]
      BY <3>1, Actor, Leads
    <3> QED
      BY <3>2, <3>4, <3>5
  <2> QED
    BY <1>1, <2>1, <2>2, <2>3, <2>4, <2>5, <2>6, <2>7, <2>8, <2>9, <2>10 DEF Ensure
<1>2. ASSUME NEW p \in Processes, Stop(p) PROVE Quiet'
  <2>1. /\ \A a \in Actors : \/ pc'[a] = pc[a] /\ opened'[a] = opened[a]
                             \/ pc'[a] \in {"off", "idle"}
        /\ \A q \in Processes : pc[q] = "off" => pc'[q] = "off"
        /\ UNCHANGED <<files, path, workbook, kept>>
    BY Actor, <1>2 DEF Stop
  <2>2. \A q \in Processes : Lonely(q)'
    BY Actor, <2>1 DEF Lonely, BeforeReplace
  <2>3. NothingLost' /\ Labelled' /\ OnDatabase' /\ Stays'
    BY Actor, <2>1 DEF InPublication
  <2> QED
    BY <2>1, <2>2, <2>3
<1>3. ASSUME NEW i \in Importers, Publish(i)
      PROVE  Quiet'
  <2>1. CASE Ask(i)
    <3>1. /\ pc[Home[i]] = "ready" /\ pc' = [pc EXCEPT ![i] = "waiting"]
          /\ UNCHANGED <<files, path, opened, kept>>
          /\ workbook' = workbook
      BY <2>1 DEF Ask, Goto, build, publication
    <3>2. \A q \in Processes : pc[q] \notin BeforeReplace /\ pc'[q] = pc[q]
      BY <3>1, NobodyBuilds, Actor, Leads
    <3>3. \A q \in Processes : Lonely(q)'
      BY <3>2 DEF Lonely
    <3>4. \A j \in Importers : j # i => pc'[j] = pc[j] /\ opened'[j] = opened[j]
      BY <3>1, Actor, Leads
    <3> QED
      BY <3>1, <3>2, <3>3, <3>4, Actor, Leads DEF InPublication
  <2>2. CASE Connect(i)
    <3>1. PICK to \in {"compare", "close"} : pc' = [pc EXCEPT ![i] = to]
      BY ConnectStep, <2>2
    <3>2. pc[i] = "waiting" /\ UNCHANGED <<workbook, kept>>
      BY ConnectStep, <2>2 DEF build, publication
    <3>3. \A q \in Processes : pc[q] \notin BeforeReplace /\ pc'[q] = pc[q]
      BY <3>1, <3>2, NobodyBuilds, Actor, Leads
    <3>4. \A q \in Processes : Lonely(q)'
      BY <3>3 DEF Lonely
    <3>5. \A j \in Importers : j # i => pc'[j] = pc[j]
      BY <3>1, Actor, Leads
    <3>6. CASE path["db"] # 0 /\ opened' = [opened EXCEPT ![i] = path["db"]] /\ files' = files /\ path' = path
      BY <3>1, <3>2, <3>4, <3>5, <3>6, Actor, Leads
    <3>7. CASE /\ pc' = [pc EXCEPT ![i] = "close"]
               /\ opened' = opened /\ files' = files /\ path' = path
      BY <3>2, <3>4, <3>5, <3>7, Actor, Leads DEF InPublication
    <3>8. CASE /\ path["db"] = 0 /\ Fresh \in Free
               /\ files' = [files EXCEPT ![Fresh] = NewFile("bare")]
               /\ path' = [path EXCEPT !["db"] = Fresh]
               /\ opened' = [opened EXCEPT ![i] = Fresh]
      <4>1. path'["db"] = Fresh /\ files'[Fresh].state = "bare"
        BY <3>8, FreeFacts, Leads DEF NewFile
      <4>2. \A k \in Keys : kept[k] = NoValue
        BY <3>8
      <4>3. \A j \in Importers : j # i => pc[j] \notin {"compare"} \cup InPublication
        BY <3>8 DEF Guarded, Connections
      <4>4. opened'[i] = Fresh
        BY <3>8, Actor, Leads
      <4>5. OnDatabase'
        BY <3>5, <4>1, <4>3, <4>4
      <4> QED
        BY <3>2, <3>4, <4>1, <4>2, <4>5
    <3> QED
      BY <3>6, <3>7, <3>8, ConnectStep, <2>2
  <2>3. CASE Compare(i)
    <3>1. PICK to \in {"insert", "close"} : pc' = [pc EXCEPT ![i] = to]
      BY <2>3 DEF Compare, Goto
    <3>2. pc[i] = "compare" /\ UNCHANGED <<files, path, opened, workbook, kept>>
      BY <2>3 DEF Compare, build
    <3>3. \A q \in Processes : pc[q] \notin BeforeReplace /\ pc'[q] = pc[q]
      BY <3>1, <3>2, NobodyBuilds, Actor, Leads
    <3>4. \A q \in Processes : Lonely(q)'
      BY <3>3 DEF Lonely
    <3>5. OnDatabase'
      BY <3>1, <3>2, Actor, Leads DEF InPublication
    <3> QED
      BY <3>2, <3>4, <3>5
  <2>4. CASE Insert(i)
    <3>1. /\ pc[i] = "insert" /\ pc' = [pc EXCEPT ![i] = "update"]
          /\ UNCHANGED <<files, path, opened, kept>>
          /\ workbook' = workbook
      BY <2>4 DEF Insert, Goto, build, publication
    <3>2. \A q \in Processes : pc[q] \notin BeforeReplace /\ pc'[q] = pc[q]
      BY <3>1, NobodyBuilds, Actor, Leads
    <3>3. \A q \in Processes : Lonely(q)'
      BY <3>2 DEF Lonely
    <3>4. \A j \in Importers : j # i => pc'[j] = pc[j] /\ opened'[j] = opened[j]
      BY <3>1, Actor, Leads
    <3> QED
      BY <3>1, <3>2, <3>3, <3>4, Actor, Leads DEF InPublication
  <2>5. CASE Update(i)
    <3>1. /\ pc[i] = "update" /\ pc' = [pc EXCEPT ![i] = "commit"]
          /\ UNCHANGED <<files, path, opened, kept>>
          /\ workbook' = workbook
      BY <2>5 DEF Update, Goto, build, publication
    <3>2. \A q \in Processes : pc[q] \notin BeforeReplace /\ pc'[q] = pc[q]
      BY <3>1, NobodyBuilds, Actor, Leads
    <3>3. \A q \in Processes : Lonely(q)'
      BY <3>2 DEF Lonely
    <3>4. \A j \in Importers : j # i => pc'[j] = pc[j] /\ opened'[j] = opened[j]
      BY <3>1, Actor, Leads
    <3> QED
      BY <3>1, <3>2, <3>3, <3>4, Actor, Leads DEF InPublication
  <2>6. CASE Commit(i)
    <3>1. /\ pc[i] = "commit" /\ pc' = [pc EXCEPT ![i] = "published"]
          /\ files' = [files EXCEPT ![opened[i]].values = tx[i]]
          /\ kept' = Written(kept, request[i].batch, DOMAIN request[i].batch)
          /\ UNCHANGED <<path, opened, workbook>>
      BY <2>6 DEF Commit, Goto, build
    <3>2. \A q \in Processes : pc[q] \notin BeforeReplace /\ pc'[q] = pc[q]
      BY <3>1, NobodyBuilds, Actor, Leads
    <3>3. \A q \in Processes : Lonely(q)'
      BY <3>2 DEF Lonely
    <3>4. opened[i] = path["db"] /\ path["db"] # 0 /\ path["db"] \in 1..MaxFiles
      BY <3>1, Leads DEF InPublication, Guarded, Connections
    <3>5. /\ files[path["db"]].state # "bare"
          /\ tx[i] = Written(files[path["db"]].values, request[i].batch, DOMAIN request[i].batch)
      BY <3>1, <3>4 DEF Compared, ComparedBy, InPublication
    <3>6. /\ files'[path["db"]].values = tx[i]
          /\ files'[path["db"]].state = files[path["db"]].state
          /\ files'[path["db"]].label = files[path["db"]].label
      BY <3>1, <3>4, Leads DEF File
    <3>7. files[path["db"]].label = workbook
      BY <3>4, <3>5
    <3>8. NothingLost' /\ Labelled'
      BY <3>1, <3>4, <3>6, <3>7
    <3>9. OnDatabase'
      BY <3>1, Actor, Leads DEF InPublication
    <3>10. Stays'
      <4> SUFFICES ASSUME NEW k \in Keys, kept'[k] # NoValue
                   PROVE  files'[path["db"]].values[k] = kept'[k]
        BY <3>1, <3>4
      <4>1. kept'[k] = IF k \in DOMAIN request[i].batch THEN request[i].batch[k] ELSE kept[k]
        BY <3>1 DEF Written
      <4>2. tx[i][k] = IF k \in DOMAIN request[i].batch THEN request[i].batch[k]
                       ELSE files[path["db"]].values[k]
        BY <3>5 DEF Written
      <4> QED
        BY <3>6, <4>1, <4>2
    <3> QED
      BY <3>1, <3>3, <3>8, <3>9, <3>10
  <2>7. CASE PublishFails(i)
    <3>1. /\ pc[i] # "idle" /\ pc' = [pc EXCEPT ![i] = "close"]
          /\ UNCHANGED <<files, path, opened, kept>>
          /\ workbook' = workbook
      BY <2>7 DEF PublishFails, Goto, build, publication
    <3>2. \A q \in Processes : pc[q] \notin BeforeReplace /\ pc'[q] = pc[q]
      BY <3>1, NobodyBuilds, Actor, Leads
    <3>3. \A q \in Processes : Lonely(q)'
      BY <3>2 DEF Lonely
    <3>4. \A j \in Importers : j # i => pc'[j] = pc[j] /\ opened'[j] = opened[j]
      BY <3>1, Actor, Leads
    <3> QED
      BY <3>1, <3>2, <3>3, <3>4, Actor, Leads DEF InPublication
  <2>8. CASE Close(i)
    <3>1. /\ pc[i] # "idle" /\ pc' = [pc EXCEPT ![i] = "idle"] /\ opened' = [opened EXCEPT ![i] = 0]
          /\ UNCHANGED <<files, path, kept>>
          /\ workbook' = workbook
      BY CloseStep, <2>8 DEF build, publication, build, publication
    <3>2. \A q \in Processes : pc[q] \notin BeforeReplace /\ pc'[q] = pc[q]
      BY <3>1, NobodyBuilds, Actor, Leads
    <3>3. \A q \in Processes : Lonely(q)'
      BY <3>2 DEF Lonely
    <3>4. \A j \in Importers : j # i => pc'[j] = pc[j] /\ opened'[j] = opened[j]
      BY <3>1, Actor, Leads
    <3> QED
      BY <3>1, <3>2, <3>3, <3>4, Actor, Leads DEF InPublication
  <2> QED
    BY <1>3, <2>1, <2>2, <2>3, <2>4, <2>5, <2>6, <2>7, <2>8 DEF Publish
<1>4. ASSUME NEW r \in Readers, Query(r)
      PROVE  Quiet'
  <2>1. CASE Preflight(r)
    <3>1. /\ pc[Home[r]] = "ready" /\ pc' = [pc EXCEPT ![r] = "planned"]
          /\ UNCHANGED <<files, path, opened, kept>>
          /\ workbook' = workbook
      BY <2>1 DEF Preflight, Goto, build, publication
    <3>2. \A q \in Processes : pc[q] \notin BeforeReplace /\ pc'[q] = pc[q]
      BY <3>1, NobodyBuilds, Actor, Leads
    <3>3. \A q \in Processes : Lonely(q)'
      BY <3>2 DEF Lonely
    <3>4. \A j \in Importers : j # r => pc'[j] = pc[j] /\ opened'[j] = opened[j]
      BY <3>1, Actor, Leads
    <3> QED
      BY <3>1, <3>2, <3>3, <3>4, Actor, Leads DEF InPublication
  <2>2. CASE Execute(r)
    <3>1. /\ pc[r] = "planned" /\ pc' = [pc EXCEPT ![r] = "read"]
          /\ opened' = [opened EXCEPT ![r] = path["db"]] /\ UNCHANGED <<files, path, kept>>
          /\ workbook' = workbook
      BY <2>2 DEF Execute, Goto, build, publication
    <3>2. \A q \in Processes : pc[q] \notin BeforeReplace /\ pc'[q] = pc[q]
      BY <3>1, NobodyBuilds, Actor, Leads
    <3>3. \A q \in Processes : Lonely(q)'
      BY <3>2 DEF Lonely
    <3>4. \A j \in Importers : j # r => pc'[j] = pc[j] /\ opened'[j] = opened[j]
      BY <3>1, Actor, Leads
    <3> QED
      BY <3>1, <3>2, <3>3, <3>4, Actor, Leads DEF InPublication
  <2>3. CASE QueryEnds(r)
    <3>1. /\ pc[r] # "idle" /\ pc' = [pc EXCEPT ![r] = "idle"]
          /\ opened' = [opened EXCEPT ![r] = 0] /\ UNCHANGED <<files, path, kept>>
          /\ workbook' = workbook
      BY <2>3 DEF QueryEnds, Goto, build, publication
    <3>2. \A q \in Processes : pc[q] \notin BeforeReplace /\ pc'[q] = pc[q]
      BY <3>1, NobodyBuilds, Actor, Leads
    <3>3. \A q \in Processes : Lonely(q)'
      BY <3>2 DEF Lonely
    <3>4. \A j \in Importers : j # r => pc'[j] = pc[j] /\ opened'[j] = opened[j]
      BY <3>1, Actor, Leads
    <3> QED
      BY <3>1, <3>2, <3>3, <3>4, Actor, Leads DEF InPublication
  <2> QED
    BY <1>4, <2>1, <2>2, <2>3 DEF Query
<1>5. CASE ChangeWorkbook
  <2>1. asked'
    BY <1>5 DEF ChangeWorkbook
  <2> QED
    BY <2>1
<1>6. CASE UNCHANGED vars
  BY <1>6 DEF vars, build, publication, Lonely
<1> QED
  BY <1>1, <1>2, <1>3, <1>4, <1>5, <1>6 DEF Next

LEMMA NextUndisturbed ==
  ASSUME Guarded, Names, Compared, Undisturbed, PublishedSurvives, [Next]_vars
  PROVE  Undisturbed' /\ PublishedSurvives'
<1> SUFFICES ASSUME ~asked', ~beside'
             PROVE  Undisturbed' /\ PublishedSurvives'
  BY DEF Undisturbed, PublishedSurvives
<1>1. ~asked /\ ~beside
  BY FlagsStay DEF Guarded, Typed, TypeOK, Held
<1>2. Quiet
  BY <1>1 DEF Undisturbed, PublishedSurvives, Quiet
<1>3. Quiet'
  BY <1>2, NextQuiet
<1> QED
  BY <1>3 DEF Undisturbed, PublishedSurvives, Quiet


-----------------------------------------------------------------------------
(* The invariant holds.                                                    *)

LEMMA InitIInv == Init => IInv
<1> SUFFICES ASSUME Init
             PROVE  IInv
  OBVIOUS
<1> USE DEF Init, NewFile
<1>1. Typed
  <2>1. NewFile("bare") \in File /\ NoRows \in Content
    BY NewFileTyped DEF NoRows, Content
  <2>2. Walks
    BY Actor DEF Walks, Places
  <2>3. Disk
    BY Numbers, DataAssumption, <2>1 DEF Disk
  <2>4. Held /\ Publications
    BY Numbers, <2>1 DEF Held, Publications
  <2> QED
    BY <2>2, <2>3, <2>4, TypedParts
<1>2. \A a \in Actors : opened[a] = 0 /\ pc[a] \in {"off", "idle"}
  OBVIOUS
<1>3. /\ \A p \in Processes : pc[p] = "off"
      /\ \A t \in Threads : pc[t] = "idle"
  BY Actor
<1>4. Connections /\ Serving /\ LockCovers /\ LockHeld
  BY <1>2, <1>3, Actor DEF Connections, Serving, LockCovers, LockHeld, InPublication
<1>5. Exclusive /\ Names
  BY <1>2, Actor DEF Exclusive, Names
<1>6. Compared /\ ReportTrue
  BY <1>3, Actor DEF Compared, ComparedBy, ReportTrue, InPublication
<1>7. BuiltWhole /\ AnswerWhole
  BY <1>3, Actor DEF BuiltWhole, AnswerWhole, OneBuilds, Construction, DatabaseWhole, Building
<1>8. Undisturbed /\ PublishedSurvives
  BY <1>3, Actor DEF Undisturbed, PublishedSurvives, NothingLost, Labelled, OnDatabase, Lonely,
                     Stays, BeforeReplace, InPublication, NoRows
<1> QED
  BY <1>1, <1>4, <1>5, <1>6, <1>7, <1>8 DEF IInv

LEMMA NextIInv == IInv /\ [Next]_vars => IInv'
<1> SUFFICES ASSUME IInv, [Next]_vars
             PROVE  IInv'
  OBVIOUS
<1>1. Guarded
  BY DEF IInv, Guarded
<1>2. Typed' /\ Connections' /\ Serving' /\ LockCovers' /\ LockHeld' /\ Exclusive'
  BY <1>1, NextTyped, NextConnections, NextServing, NextLocks, NextExclusive DEF Guarded
<1>3. Names' /\ Compared' /\ ReportTrue'
  BY <1>1, NextNames, NextCompared DEF IInv
<1>4. BuiltWhole' /\ AnswerWhole' /\ Undisturbed' /\ PublishedSurvives'
  BY <1>1, NextBuiltWhole, NextUndisturbed DEF IInv
<1> QED
  BY <1>2, <1>3, <1>4 DEF IInv

LEMMA SpecIInv == Spec => []IInv
  BY InitIInv, NextIInv, PTL DEF Spec

\* A thread that has the file open holds its process's database_lock, in every
\* interleaving of any number of processes and threads: database_lock, executor.py,
\* metric_data_import.py.
THEOREM LockCoversAlways == Spec => []Inv
<1>1. IInv => Inv
  BY DEF IInv, Inv, Typed
<1> QED
  BY <1>1, SpecIInv, PTL

\* Queries read complete files, unless two processes have built at the same time.
THEOREM AnswersAreWhole == Spec => []AnswerWhole
<1>1. IInv => AnswerWhole
  BY DEF IInv
<1> QED
  BY <1>1, SpecIInv, PTL

\* The overwritten values that are reported are those that were replaced: publish.
THEOREM ReportIsTrue == Spec => []ReportTrue
<1>1. IInv => ReportTrue
  BY DEF IInv
<1> QED
  BY <1>1, SpecIInv, PTL

\* What was published stays, unless somebody asks for a rebuild, changes the workbook,
\* or a process sets out to build beside a running one: ensure_database, publish.
THEOREM PublicationsSurvive == Spec => []PublishedSurvives
<1>1. IInv => PublishedSurvives
  BY DEF IInv
<1> QED
  BY <1>1, SpecIInv, PTL

-----------------------------------------------------------------------------
(* The refinement of MetricStore: what a step does to the table and to the *)
(* publications under way.                                                 *)

Refines == Abstract!Next \/ UNCHANGED Abstract!vars

LEMMA StutterStep ==
  ASSUME Table' = Table, Pending' = Pending
  PROVE  Refines
  BY DEF Refines, Abstract!vars

LEMMA TakeAwayStep ==
  ASSUME Table' = NoStore, Pending' = Pending
  PROVE  Refines
  BY DEF Refines, Abstract!Next, Abstract!TakeAway

LEMMA RebuildStep ==
  ASSUME Table' \in Sources, Pending' = Pending
  PROVE  Refines
  BY DEF Refines, Abstract!Next, Abstract!Rebuild

LEMMA DropStep ==
  ASSUME NEW I \in SUBSET Importers, Table' = Table,
         \A j \in Importers : Pending'[j] = IF j \in I THEN NoRequest ELSE Pending[j]
  PROVE  Refines
<1>1. Pending' = [j \in Importers |-> IF j \in I THEN NoRequest ELSE Pending[j]]
  BY DEF Pending
<1>2. Abstract!Drop(I)
  BY <1>1 DEF Abstract!Drop
<1> QED
  BY <1>2 DEF Refines, Abstract!Next

\* The publications under way change by what their threads do.
LEMMA PendingSame ==
  ASSUME \A j \in Importers : pc'[j] = pc[j] /\ request'[j] = request[j]
  PROVE  Pending' = Pending
  BY DEF Pending

LEMMA TableSame ==
  ASSUME path'["db"] = path["db"],
         path["db"] # 0 => /\ files'[path["db"]].state = files[path["db"]].state
                           /\ files'[path["db"]].values = files[path["db"]].values
  PROVE  Table' = Table
  BY DEF Table

\* A step of one importer that asks for nothing new.
LEMMA PendingOne ==
  ASSUME NEW i \in Importers,
         \A j \in Importers : j # i => pc'[j] = pc[j] /\ request'[j] = request[j]
  PROVE  /\ \A j \in Importers : j # i => Pending'[j] = Pending[j]
         /\ pc'[i] \notin {"waiting", "compare"} \cup InPublication => Pending'[i] = NoRequest
         /\ pc'[i] \in {"waiting", "compare"} \cup InPublication => Pending'[i] = request'[i]
  BY DEF Pending, InPublication

\* Every step of the program is one of the store's, or none that it can see.
LEMMA StepRefines ==
  ASSUME Guarded, Names, Compared, [Next]_vars
  PROVE  Refines
<1>1. ASSUME NEW p \in Processes, Ensure(p)
      PROVE  Refines
  <2>1. ASSUME NEW force \in BOOLEAN, Start(p, force) PROVE Refines
    <3>1. PICK to \in {"load", "clean"} : pc' = [pc EXCEPT ![p] = to]
      BY <2>1 DEF Start, Goto
    <3>2. path' = path /\ files' = files /\ request' = request
      BY <2>1 DEF Start, publication
    <3>3. \A j \in Importers : pc'[j] = pc[j] /\ request'[j] = request[j]
      BY <3>1, <3>2, Actor, Leads
    <3>4. Table' = Table /\ Pending' = Pending
      BY <3>2, <3>3, TableSame, PendingSame
    <3> QED
      BY <3>4, StutterStep
  <2>2. CASE Clean(p)
    <3>1. /\ pc[p] = "clean" /\ pc' = [pc EXCEPT ![p] = "create"] /\ request' = request
          /\ path'["db"] = path["db"] /\ files' = files
      BY <2>2, Leads DEF Clean, Goto, build, publication
    <3>2. Pending' = Pending
      <4>1. \A j \in Importers : pc'[j] = pc[j] /\ request'[j] = request[j]
        BY <3>1, Actor, Leads
      <4> QED
        BY <4>1, PendingSame
    <3>3. Table' = Table
      BY <3>1, TableSame
    <3> QED
      BY <3>2, <3>3, StutterStep
  <2>3. CASE Create(p)
    <3>1. /\ pc' = [pc EXCEPT ![p] = "fill"] /\ request' = request
          /\ path'["db"] = path["db"] /\ Fresh \in Free
          /\ files' = [files EXCEPT ![Fresh] = NewFile("partial")]
      BY CreateStep, <2>3, Leads DEF build, publication
    <3>2. Pending' = Pending
      <4>1. \A j \in Importers : pc'[j] = pc[j] /\ request'[j] = request[j]
        BY <3>1, Actor, Leads
      <4> QED
        BY <4>1, PendingSame
    <3>3. path["db"] # 0 => files'[path["db"]] = files[path["db"]]
      BY <3>1, FreeFacts, Leads DEF Guarded
    <3>4. Table' = Table
      BY <3>1, <3>3, TableSame
    <3> QED
      BY <3>2, <3>4, StutterStep
  <2>4. CASE Fill(p)
    <3>1. /\ pc[p] = "fill" /\ pc' = [pc EXCEPT ![p] = "label"] /\ request' = request
          /\ path' = path
          /\ files' = [files EXCEPT ![opened[p]] =
                        [files[opened[p]] EXCEPT !.state = "whole", !.values = Base[new[p]]]]
      BY <2>4, Leads DEF Fill, Goto, build, publication
    <3>2. Pending' = Pending
      <4>1. \A j \in Importers : pc'[j] = pc[j] /\ request'[j] = request[j]
        BY <3>1, Actor, Leads
      <4> QED
        BY <4>1, PendingSame
    <3>3. CASE path["db"] # 0 /\ path["db"] = opened[p]
      <4>1. Base[new[p]] \in Sources
        BY BaseContent, <3>1 DEF Guarded, Typed, TypeOK, Connections, Sources
      <4>2. files'[path["db"]].state = "whole" /\ files'[path["db"]].values = Base[new[p]]
        BY <3>1, <3>3, Leads DEF File
      <4>3. Table' \in Sources
        BY <3>1, <3>3, <4>1, <4>2 DEF Table
      <4> QED
        BY <3>2, <4>3, RebuildStep
    <3>4. CASE path["db"] = 0 \/ path["db"] # opened[p]
      <4>1. path["db"] # 0 => files'[path["db"]] = files[path["db"]]
        BY <3>1, <3>4, Leads
      <4>2. Table' = Table
        BY <3>1, <4>1, TableSame
      <4> QED
        BY <3>2, <4>2, StutterStep
    <3> QED
      BY <3>3, <3>4
  <2>5. CASE Label(p)
    <3>1. /\ pc' = [pc EXCEPT ![p] = "unlink"] /\ request' = request
          /\ path' = path /\ pc[p] = "label"
          /\ files' = [files EXCEPT ![opened[p]].label = workbook]
      BY <2>5, Leads DEF Label, Goto, build, publication
    <3>2. Pending' = Pending
      <4>1. \A j \in Importers : pc'[j] = pc[j] /\ request'[j] = request[j]
        BY <3>1, Actor, Leads
      <4> QED
        BY <4>1, PendingSame
    <3>3. path["db"] # 0 => /\ files'[path["db"]].state = files[path["db"]].state
                             /\ files'[path["db"]].values = files[path["db"]].values
      BY <3>1, Leads DEF File
    <3>4. Table' = Table
      BY <3>1, <3>3, TableSame
    <3> QED
      BY <3>2, <3>4, StutterStep
  <2>6. CASE Unlink(p)
    <3>1. /\ pc' = [pc EXCEPT ![p] = "replace"] /\ request' = request
          /\ path'["db"] = 0
      BY <2>6, Leads DEF Unlink, Goto, build, publication
    <3>2. Pending' = Pending
      <4>1. \A j \in Importers : pc'[j] = pc[j] /\ request'[j] = request[j]
        BY <3>1, Actor, Leads
      <4> QED
        BY <4>1, PendingSame
    <3>3. Table' = NoStore
      BY <3>1 DEF Table
    <3> QED
      BY <3>2, <3>3, TakeAwayStep
  <2>7. CASE Replace(p)
    <3>1. /\ pc' = [pc EXCEPT ![p] = "tidy"] /\ request' = request
          /\ path'["db"] = path["building"] /\ files' = files
      BY <2>7, Leads DEF Replace, Goto, build, publication
    <3>2. Pending' = Pending
      <4>1. \A j \in Importers : pc'[j] = pc[j] /\ request'[j] = request[j]
        BY <3>1, Actor, Leads
      <4> QED
        BY <4>1, PendingSame
    <3>3. CASE path["building"] # 0 /\ files[path["building"]].state = "whole"
      <4>1. Table' = files[path["building"]].values
        BY <3>1, <3>3 DEF Table
      <4>2. files[path["building"]].values \in Sources
        BY <3>3 DEF Names
      <4> QED
        BY <3>2, <4>1, <4>2, RebuildStep
    <3>4. CASE ~(path["building"] # 0 /\ files[path["building"]].state = "whole")
      <4>1. Table' = NoStore
        BY <3>1, <3>4 DEF Table
      <4> QED
        BY <3>2, <4>1, TakeAwayStep
    <3> QED
      BY <3>3, <3>4
  <2>8. CASE Tidy(p)
    <3>1. /\ pc[p] = "tidy" /\ pc' = [pc EXCEPT ![p] = "load"] /\ request' = request
          /\ path'["db"] = path["db"] /\ files' = files
      BY <2>8, Leads DEF Tidy, Goto, build, publication
    <3>2. Pending' = Pending
      <4>1. \A j \in Importers : pc'[j] = pc[j] /\ request'[j] = request[j]
        BY <3>1, Actor, Leads
      <4> QED
        BY <4>1, PendingSame
    <3>3. Table' = Table
      BY <3>1, TableSame
    <3> QED
      BY <3>2, <3>3, StutterStep
  <2>9. CASE BuildFails(p)
    <3>1. /\ pc' = [pc EXCEPT ![p] = "off"] /\ request' = request
          /\ path'["db"] = path["db"] /\ files' = files
      BY <2>9, Leads DEF BuildFails, Goto, build, publication
    <3>2. Pending' = Pending
      <4>1. \A j \in Importers : pc'[j] = pc[j] /\ request'[j] = request[j]
        BY <3>1, Actor, Leads
      <4> QED
        BY <4>1, PendingSame
    <3>3. Table' = Table
      BY <3>1, TableSame
    <3> QED
      BY <3>2, <3>3, StutterStep
  <2>10. CASE Load(p)
    <3>1. PICK to \in {"ready", "off"} : pc' = [pc EXCEPT ![p] = to]
      BY LoadStep, <2>10
    <3>2. path' = path /\ files' = files /\ request' = request
      BY LoadStep, <2>10 DEF publication
    <3>3. \A j \in Importers : pc'[j] = pc[j] /\ request'[j] = request[j]
      BY <3>1, <3>2, Actor, Leads
    <3>4. Table' = Table /\ Pending' = Pending
      BY <3>2, <3>3, TableSame, PendingSame
    <3> QED
      BY <3>4, StutterStep
  <2> QED
    BY <1>1, <2>1, <2>2, <2>3, <2>4, <2>5, <2>6, <2>7, <2>8, <2>9, <2>10 DEF Ensure
<1>2. ASSUME NEW p \in Processes, Stop(p) PROVE Refines
  <2>1. /\ \A j \in Importers : IF HomeOf(j) = p THEN pc'[j] = "idle"
                                ELSE pc'[j] = pc[j] /\ request'[j] = request[j]
        /\ UNCHANGED <<files, path>>
    BY Actor, <1>2 DEF Stop
  <2> DEFINE I == {j \in Importers : HomeOf(j) = p}
  <2>2. \A j \in Importers : Pending'[j] = IF j \in I THEN NoRequest ELSE Pending[j]
    BY <2>1 DEF Pending
  <2>3. Table' = Table
    BY <2>1, TableSame
  <2> HIDE DEF I
  <2>4. I \in SUBSET Importers
    BY DEF I
  <2> QED
    BY <2>2, <2>3, <2>4, DropStep
<1>3. ASSUME NEW i \in Importers, Publish(i)
      PROVE  Refines
  <2>1. CASE Ask(i)
    <3>1. /\ pc[i] = "idle" /\ pc' = [pc EXCEPT ![i] = "waiting"]
          /\ path' = path /\ files' = files
          /\ \E r \in Request : request' = [request EXCEPT ![i] = r]
      BY <2>1 DEF Ask, Goto
    <3>2. Table' = Table
      BY <3>1, TableSame
    <3>3. PICK r \in Request : request' = [request EXCEPT ![i] = r]
      BY <3>1
    <3>4. request'[i] = r /\ pc'[i] = "waiting" /\ pc[i] = "idle"
      BY <3>1, <3>3, Actor, Leads DEF Guarded, Typed, TypeOK
    <3>5. \A j \in Importers : j # i => pc'[j] = pc[j] /\ request'[j] = request[j]
      BY <3>1, <3>3, Actor, Leads DEF Guarded, Typed, TypeOK
    <3>6. Pending[i] = NoRequest /\ Pending'[i] = r
      BY <3>4 DEF Pending
    <3>7. Pending' = [Pending EXCEPT ![i] = Pending'[i]]
      BY <3>5, <3>4, <3>6 DEF Pending
    <3>8. r \in Abstract!Request
      BY BatchTyped DEF Request, Abstract!Request, Abstract!Batch
    <3>9. Abstract!Ask(i)
      BY <3>2, <3>6, <3>7, <3>8 DEF Abstract!Ask
    <3> QED
      BY <3>9 DEF Refines, Abstract!Next
  <2>2. CASE Connect(i)
    <3>1. pc[i] = "waiting" /\ request' = request
      BY ConnectStep, <2>2 DEF publication
    <3>2. Table' = Table
      <4>1. CASE files' = files /\ path' = path
        BY <4>1, TableSame
      <4>2. CASE /\ path["db"] = 0 /\ Fresh \in Free
                 /\ files' = [files EXCEPT ![Fresh] = NewFile("bare")]
                 /\ path' = [path EXCEPT !["db"] = Fresh]
        <5>1. path'["db"] = Fresh /\ files'[Fresh].state = "bare"
          BY <4>2, FreeFacts, Leads DEF NewFile
        <5> QED
          BY <4>2, <5>1 DEF Table
      <4> QED
        BY <4>1, <4>2, ConnectStep, <2>2
    <3>3. PICK to \in {"compare", "close"} : pc' = [pc EXCEPT ![i] = to]
      BY ConnectStep, <2>2
    <3>4. \A j \in Importers : j # i => pc'[j] = pc[j] /\ request'[j] = request[j]
      BY <3>1, <3>3, Actor, Leads
    <3>5. CASE to = "compare"
      <4>1. \A j \in Importers : Pending'[j] = Pending[j]
        BY <3>1, <3>3, <3>4, <3>5, Actor, Leads DEF Pending
      <4>2. Pending' = Pending
        BY <4>1 DEF Pending
      <4> QED
        BY <3>2, <4>2, StutterStep
    <3>6. CASE to = "close"
      <4>1. \A j \in Importers : Pending'[j] = IF j \in {i} THEN NoRequest ELSE Pending[j]
        BY <3>1, <3>3, <3>4, <3>6, Actor, Leads DEF Pending
      <4> QED
        BY <3>2, <4>1, DropStep
    <3> QED
      BY <3>5, <3>6
  <2>3. CASE Compare(i)
    <3>1. pc[i] = "compare" /\ request' = request /\ path' = path /\ files' = files
      BY <2>3 DEF Compare
    <3>2. Table' = Table
      BY <3>1, TableSame
    <3>3. PICK to \in {"insert", "close"} : pc' = [pc EXCEPT ![i] = to]
      BY <2>3 DEF Compare, Goto
    <3>4. \A j \in Importers : j # i => pc'[j] = pc[j] /\ request'[j] = request[j]
      BY <3>1, <3>3, Actor, Leads
    <3>5. CASE to = "insert"
      <4>1. \A j \in Importers : Pending'[j] = Pending[j]
        BY <3>1, <3>3, <3>4, <3>5, Actor, Leads DEF Pending
      <4>2. Pending' = Pending
        BY <4>1 DEF Pending
      <4> QED
        BY <3>2, <4>2, StutterStep
    <3>6. CASE to = "close"
      <4>1. \A j \in Importers : Pending'[j] = IF j \in {i} THEN NoRequest ELSE Pending[j]
        BY <3>1, <3>3, <3>4, <3>6, Actor, Leads DEF Pending
      <4> QED
        BY <3>2, <4>1, DropStep
    <3> QED
      BY <3>5, <3>6
  <2>4. CASE Insert(i)
    <3>1. /\ pc[i] = "insert" /\ pc' = [pc EXCEPT ![i] = "update"] /\ request' = request
          /\ path' = path /\ files' = files
      BY <2>4 DEF Insert, Goto
    <3>2. Table' = Table
      BY <3>1, TableSame
    <3>3. \A j \in Importers : j # i => pc'[j] = pc[j] /\ request'[j] = request[j]
      BY <3>1, Actor, Leads
    <3>4. \A j \in Importers : Pending'[j] = Pending[j]
      BY <3>1, <3>3, Actor, Leads DEF Pending
    <3>5. Pending' = Pending
      BY <3>4 DEF Pending
    <3> QED
      BY <3>2, <3>5, StutterStep
  <2>5. CASE Update(i)
    <3>1. /\ pc[i] = "update" /\ pc' = [pc EXCEPT ![i] = "commit"] /\ request' = request
          /\ path' = path /\ files' = files
      BY <2>5 DEF Update, Goto
    <3>2. Table' = Table
      BY <3>1, TableSame
    <3>3. \A j \in Importers : j # i => pc'[j] = pc[j] /\ request'[j] = request[j]
      BY <3>1, Actor, Leads
    <3>4. \A j \in Importers : Pending'[j] = Pending[j]
      BY <3>1, <3>3, Actor, Leads DEF Pending
    <3>5. Pending' = Pending
      BY <3>4 DEF Pending
    <3> QED
      BY <3>2, <3>5, StutterStep
  <2>6. CASE Commit(i)
    <3>1. /\ pc[i] = "commit" /\ pc' = [pc EXCEPT ![i] = "published"] /\ request' = request
          /\ path' = path
          /\ files' = [files EXCEPT ![opened[i]].values = tx[i]]
      BY <2>6 DEF Commit, Goto
    <3>2. \A j \in Importers : j # i => pc'[j] = pc[j] /\ request'[j] = request[j]
      BY <3>1, Actor, Leads
    <3>3. \A j \in Importers : Pending'[j] = IF j \in {i} THEN NoRequest ELSE Pending[j]
      BY <3>1, <3>2, Actor, Leads DEF Pending
    <3>4. CASE path["db"] # 0 /\ path["db"] = opened[i] /\ files[path["db"]].state = "whole"
      <4>1. /\ existing[i] = files[path["db"]].values
            /\ request[i].confirmed \/ Overwritten(existing[i], request[i].batch) = {}
            /\ tx[i] = Written(existing[i], request[i].batch, DOMAIN request[i].batch)
            /\ request[i] \in Request
        BY <3>1, <3>4 DEF Compared, ComparedBy, InPublication, Guarded, Connections
      <4>2. Table = existing[i] /\ Pending[i] = request[i]
        BY <3>1, <3>4, <4>1 DEF Table, Pending
      <4>3. Table' = tx[i]
        BY <3>1, <3>4, Leads DEF Table, File
      <4>4. files[path["db"]].values \in Content
        BY <3>4, Leads DEF File
      <4>5. Table # NoStore /\ Pending[i] # NoRequest
        BY <4>1, <4>2, <4>4, NothingAssumption
      <4>6. Pending[i].confirmed \/ Abstract!Overwritten(Table, Pending[i].batch) = {}
        BY <4>1, <4>2 DEF Overwritten, Abstract!Overwritten
      <4>7. Table' = Abstract!Merged(Table, Pending[i].batch)
        BY <4>1, <4>2, <4>3 DEF Written, Abstract!Merged
      <4>8. Pending' = [Pending EXCEPT ![i] = NoRequest]
        BY <3>3 DEF Pending
      <4>9. Abstract!Publish(i)
        BY <4>5, <4>6, <4>7, <4>8 DEF Abstract!Publish
      <4> QED
        BY <4>9 DEF Refines, Abstract!Next
    <3>5. CASE ~(path["db"] # 0 /\ path["db"] = opened[i] /\ files[path["db"]].state = "whole")
      <4>1. CASE path["db"] = 0 \/ path["db"] # opened[i]
        <5>1. path["db"] # 0 => files'[path["db"]] = files[path["db"]]
          BY <3>1, <4>1, Leads
        <5>2. Table' = Table
          BY <3>1, <5>1, TableSame
        <5> QED
          BY <3>3, <5>2, DropStep
      <4>2. CASE path["db"] # 0 /\ path["db"] = opened[i] /\ files[path["db"]].state # "whole"
        <5>1. files'[path["db"]].state = files[path["db"]].state
          BY <3>1, <4>2, Leads DEF File
        <5>2. Table' = Table
          BY <3>1, <4>2, <5>1 DEF Table
        <5> QED
          BY <3>3, <5>2, DropStep
      <4> QED
        BY <3>5, <4>1, <4>2
    <3> QED
      BY <3>4, <3>5
  <2>7. CASE PublishFails(i)
    <3>1. /\ pc' = [pc EXCEPT ![i] = "close"] /\ request' = request
          /\ path' = path /\ files' = files
      BY <2>7 DEF PublishFails, publication
    <3>2. Table' = Table
      BY <3>1, TableSame
    <3>3. \A j \in Importers : j # i => pc'[j] = pc[j] /\ request'[j] = request[j]
      BY <3>1, Actor, Leads
    <3>4. \A j \in Importers : Pending'[j] = IF j \in {i} THEN NoRequest ELSE Pending[j]
      BY <3>1, <3>3, Actor, Leads DEF Pending
    <3> QED
      BY <3>2, <3>4, DropStep
  <2>8. CASE Close(i)
    <3>1. /\ pc[i] \in {"close", "published"} /\ pc' = [pc EXCEPT ![i] = "idle"]
          /\ request' = [request EXCEPT ![i] = NoRequest]
          /\ path' = path /\ files' = files
      BY CloseStep, <2>8
    <3>2. Table' = Table
      BY <3>1, TableSame
    <3>3. \A j \in Importers : j # i => pc'[j] = pc[j] /\ request'[j] = request[j]
      BY <3>1, Actor, Leads DEF Guarded, Typed, TypeOK
    <3>4. \A j \in Importers : Pending'[j] = Pending[j]
      BY <3>1, <3>3, Actor, Leads DEF Pending
    <3>5. Pending' = Pending
      BY <3>4 DEF Pending
    <3> QED
      BY <3>2, <3>5, StutterStep
  <2> QED
    BY <1>3, <2>1, <2>2, <2>3, <2>4, <2>5, <2>6, <2>7, <2>8 DEF Publish
<1>4. ASSUME NEW r \in Readers, Query(r)
      PROVE  Refines
  <2>1. CASE Preflight(r)
    <3>1. /\ pc' = [pc EXCEPT ![r] = "planned"] /\ request' = request
          /\ path' = path /\ files' = files
      BY <2>1, Leads DEF Preflight, Goto, build, publication
    <3>2. Pending' = Pending
      <4>1. \A j \in Importers : pc'[j] = pc[j] /\ request'[j] = request[j]
        BY <3>1, Actor, Leads
      <4> QED
        BY <4>1, PendingSame
    <3>3. Table' = Table
      BY <3>1, TableSame
    <3> QED
      BY <3>2, <3>3, StutterStep
  <2>2. CASE Execute(r)
    <3>1. /\ pc' = [pc EXCEPT ![r] = "read"] /\ request' = request
          /\ path' = path /\ files' = files
      BY <2>2, Leads DEF Execute, Goto, build, publication
    <3>2. Pending' = Pending
      <4>1. \A j \in Importers : pc'[j] = pc[j] /\ request'[j] = request[j]
        BY <3>1, Actor, Leads
      <4> QED
        BY <4>1, PendingSame
    <3>3. Table' = Table
      BY <3>1, TableSame
    <3> QED
      BY <3>2, <3>3, StutterStep
  <2>3. CASE QueryEnds(r)
    <3>1. /\ pc' = [pc EXCEPT ![r] = "idle"] /\ request' = request
          /\ path' = path /\ files' = files
      BY <2>3, Leads DEF QueryEnds, Goto, build, publication
    <3>2. Pending' = Pending
      <4>1. \A j \in Importers : pc'[j] = pc[j] /\ request'[j] = request[j]
        BY <3>1, Actor, Leads
      <4> QED
        BY <4>1, PendingSame
    <3>3. Table' = Table
      BY <3>1, TableSame
    <3> QED
      BY <3>2, <3>3, StutterStep
  <2> QED
    BY <1>4, <2>1, <2>2, <2>3 DEF Query
<1>5. CASE ChangeWorkbook
  <2>1. path' = path /\ files' = files /\ pc' = pc /\ request' = request
    BY <1>5 DEF ChangeWorkbook, publication
  <2>2. Table' = Table /\ Pending' = Pending
    BY <2>1, TableSame, PendingSame
  <2> QED
    BY <2>2, StutterStep
<1>6. CASE UNCHANGED vars
  <2>1. path' = path /\ files' = files /\ pc' = pc /\ request' = request
    BY <1>6 DEF vars, publication
  <2>2. Table' = Table /\ Pending' = Pending
    BY <2>1, TableSame, PendingSame
  <2> QED
    BY <2>2, StutterStep
<1> QED
  BY <1>1, <1>2, <1>3, <1>4, <1>5, <1>6 DEF Next

\* The data file implements the store that administrators and readers rely on: whole
\* batches, permitted by what they replace or confirmed, and rebuilds, whatever
\* processes, threads, failures and deaths there are.
THEOREM Refinement == Spec => Implements
<1>1. Init => Abstract!Init
  <2> SUFFICES ASSUME Init
               PROVE  Abstract!Init
    OBVIOUS
  <2>1. Table = NoStore
    BY DEF Init, Table
  <2>2. \A i \in Importers : pc[i] = "idle"
    BY Actor DEF Init
  <2>3. Pending = [i \in Importers |-> NoRequest]
    BY <2>2 DEF Pending
  <2> QED
    BY <2>1, <2>3 DEF Abstract!Init
<1>2. IInv /\ [Next]_vars => [Abstract!Next]_(Abstract!vars)
  BY StepRefines DEF IInv, Guarded, Refines
<1> QED
  BY <1>1, <1>2, SpecIInv, PTL DEF Spec, Implements, Abstract!Spec
=============================================================================
