------------------------------ MODULE MCIndexer ------------------------------
(***************************************************************************)
(* Small trees for the model checker.                                      *)
(***************************************************************************)
EXTENDS IndexerProperties

\* Two directories, so that two DirScanWorkers walk; an ignored argument.
\* The first directory has a file, a link, an ignored file, an ignored
\* subdirectory and one to walk; the second directory has one to walk.
TreeArgs == <<"d", "x", "e">>
TreeChildren == [d |-> <<"a", "l", "x", "y", "s">>, e |-> <<"t">>]
TreeBelow == [s |-> <<"s1", "x", "s2">>, t |-> <<"t1">>, y |-> <<"y1">>]

\* A file, and one directory with two files and a subdirectory, for the restarts.
FlatArgs == <<"f", "d">>
FlatChildren == [d |-> <<"a", "b", "s">>]
FlatBelow == [s |-> <<"s1">>]

\* A directory with two files and a subdirectory with a third, for the command line: with
\* QueueSize = 1 they are as many as its queues take before a job makes room.
CliArgs == <<"d">>
CliChildren == [d |-> <<"a", "b", "s">>]
CliBelow == [s |-> <<"s1">>]

\* One worker that finds more than the queue holds.
LongArgs == <<"d">>
LongChildren == [d |-> <<"s">>]
LongBelow == [s |-> <<"s1", "s2", "s3">>]

\* The trees meet what the theorems about a run's files assume.
ASSUME TreesAreForests == NothingTwice /\ SoundStart
=============================================================================
