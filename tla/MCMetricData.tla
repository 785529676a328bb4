---------------------------- MODULE MCMetricData ----------------------------
(* The server with its threads, and a second process beside it.              *)
EXTENDS MetricData, TLC

CONSTANTS server, k1, k2, x, y

MCHome == [t \in Threads |-> server]
\* One row in the first version of the workbook, another value in the second.
MCBase == << (k1 :> x @@ k2 :> NoValue), (k1 :> y @@ k2 :> x) >>
\* An upload that overwrites and inserts, one that only overwrites the same
\* key, and one that brings nothing new.
MCBatches == {k1 :> y @@ k2 :> y}
\* The content of a free file number is written before it is read, and once a
\* rebuild has been asked for, or has begun beside a running process, nothing is
\* said of the published values any more.
View == << [f \in 1..MaxFiles |-> IF f \in Free THEN NewFile("bare") ELSE files[f]],
           path, opened, lock, pc, workbook, new, request, existing, tx, replaced, overlapped,
           IF asked \/ beside THEN NoRows ELSE kept, asked \/ beside >>
Symmetric == Permutations(Importers)
=============================================================================
