# looqs: a verification project

looqs indexes documents into an SQLite database, with full-text search, and shows
previews of what it finds. A Qt GUI and a command line share the code in `shared/`.
This directory models the parts of looqs in which something can go wrong that a test
would hardly reach, model-checks them with TLC and proves the results that matter
most with TLAPS. All paths below are relative to `src/`.

Contents: [1 inventory](#1-inventory) · [2 modules](#2-modules-and-the-code) ·
[3 runs](#3-runs) · [4 fairness](#4-fairness) · [5 proofs](#5-proofs) ·
[6 findings](#6-where-code-and-documentation-disagree) · [7 not modelled](#7-what-is-not-modelled) ·
[8 plan](#8-plan)

## 1 Inventory

| Component | State | Operations | What must hold |
| --- | --- | --- | --- |
| **Bounded queue** `shared/concurrentqueue.h` | a list under a mutex, a semaphore of free places | `enqueue` (one, many), `dequeue` (one, n), `clear`, `remaining` | nobody takes what is not there; places and elements add up |
| **Directory scanner** `paralleldirscanner`, `dirscanworker` | paths, progress counters, a pool of workers, queue of directories, queue of files, stop token | `scan`, worker loop, `handleWorkersProgress`, `handleWorkersFinish`, `cancel` | every file is announced exactly once; it ends, also when stopped |
| **Indexer** `indexer`, `filescanworker` | running-jobs counter, cancellation token, result counts, queue of file arguments | `beginIndexing`, job loop, slots for results and ends, `requestCancellation` | `finished` comes, once, when all is indexed |
| **Owners of indexing** `MainWindow::startIndexing`, `CommandAdd` | the button; the exit code | start, stop, `finishIndexing`; exit on `finished` | the button comes back; the process exits with no job left |
| **File saver** `filesaver`, `sandboxedprocessor` | per call: stat, row found, child process | `addFile`, `updateFile`, `saveFile` | what looks indexed is indexed, in its current version as far as seconds tell |
| **Index database** `sqlitedbservice`, migrations 1 and 6 | tables `file`, `content`, `outline`, `tag`, `filetag` | `saveFile`, `insertFile`, `deleteFile`, `getFiles`, `fileExistsInDatabase` | a row's text is the text of its file |
| **Syncer** `indexsyncer`, `CommandUpdate` | offset, page, files to update, stop token | `sync`, `cancel` | after a sync index and disk agree; it ends |
| **Bulk deletion** `CommandDelete` | offset, page, count | `remove`, `removePaths` | nothing that was to go is left; it ends |
| **Query language** `looqsquery` | tokens, mask of token types, sort conditions | `build`, `addSortCondition`, `setTokens` | the expression means what the documentation says |
| **Search** `sqlitesearch`, `CommandSearch`, the search line | — (one SQL statement) | `search` | the files found are those meant |
| **Previews** `previewcoordinator`, `ipcpreviewclient`, `ipcserver`, `ipcpreviewworker`, `MainWindow` | generation numbers on both sides, order of targets, results, event queue, socket, the layout, enabled controls | `startGeneration`, request and answer, slots, search, paging, scaling | what is shown belongs to what was asked last; controls come back |
| **Text previews** `previewgeneratorplaintext`, `limitqueue` | the queue of lines before, how much context is left, the snippets with their counts | `generate`: line by line, sort, heading | every line with a searched word is shown in its context, with its number, once; no such line is left out of the count; the words are those that were searched |
| **Tags** `tagmanager`, `commandtag`, the GUI's context menu, migration 5 | tables `tag`, `filetag`; the tags a command has read | `addTag`, `setTags`, `removePathsForTag`, `deleteTag` | files have the tags they were given; no assignment without its tag |
| **Migrations and start-up** `dbmigrator`, `Common::ensureConfigured`, both `main`s | `user_version`, the schema, how far a process is | `migrationNeeded`, `performMigrations` | each migration runs once, in order; nobody works on an old schema unnoticed |
| Document processors, PDF and ODT previews, widgets, other utilities | none that outlives a call | — | — |

Interactions. The GUI and the command line each own an `Indexer`. `beginIndexing`
runs on the owner's thread and calls `ParallelDirScanner::scan`, which lists the
arguments itself and starts `DirScanWorker`s on a pool of its own; these feed one
bounded queue of files. Every `progress` signal makes the `Indexer` launch a
`FileScanWorker` on the global pool with the *promise* that so many files are in the
queue. Workers speak to the main thread by queued signals, that is, by messages in one
FIFO event queue. Each job calls `FileSaver::addFile`, which stats the file, asks the
database, runs a sandboxed child process (the program itself, restarted) that reads the
file, and saves text and stat in one transaction. `IndexSyncer` pages through the same
tables and calls `FileSaver` with a parallel map. The GUI's syncer has a thread of its
own. `looqs` on a terminal does the same to the same database file from another process.
Searches run on a pool thread; their results fill a list of previewable results, pages of
which the `PreviewCoordinator` asks of the `IPCPreviewClient` (a thread), which asks
the sandboxed server (a process) over a local socket. The server makes the preview of a
text file by reading the file again, and marks in it the words of the query the window
keeps from the last search.

What is hard here:

* three kinds of threads, two queues and one event loop agree on counts by messages only;
* cancellation is a shared flag that every party reads at another moment, and that is
  reset while threads of the last run may still live;
* blocking: workers wait for room that only jobs make, jobs are launched only by
  messages that workers send, and the main thread enqueues too;
* the file system changes between stat, extraction and commit, and stamps have no more than
  seconds;
* paging through a table with OFFSET while deleting from it;
* ids are reused and foreign keys are not enforced;
* errors that nobody looks at: of COMMIT, of a child that does not start;
* a token mask made of enum values that are not single bits, and SQL put together from
  parts that do not know of each other;
* a reader of text with a queue, a countdown and line numbers computed from both;
* generation numbers counted by two parties, one of which misses some.

`PROJECT.json` lists each of these hazards at its line with the properties for it.

## 2 Modules and the code

    ConcurrentQueue <- DirScanner <- Indexer <- IndexerProperties <- MCIndexer
                                        \          (INSTANCE IndexRun) \
                                         IndexerProofs <---------------- JobProofs <- RunProofs
    Sums <- IndexerProperties, PlainTextPreview, OrderLemmas
    FileStore <- FileSaver <- IndexSyncer <- IndexUpkeep <- MCIndexUpkeep
            \<- CommandDelete <---------------/      \<- UpkeepProofs
    LooqsQuery <- Search <- SearchPage <- MCSearch
      PlainTextPreview <----/    \<- SearchProofs
    PreviewServer <- PreviewClient <- PreviewWindow <- Previews <- MCPreviews
                                     (INSTANCE Screen)    \<- PreviewsProofs
    OrderLemmas <- UpkeepProofs, PreviewsProofs, SearchProofs, JobProofs
    FileStore <- Tags <- Sessions <- MCSessions     (INSTANCE TagBook)
       Migrations <-----/    \<- SessionsProofs

The arrow points from what is extended. `PROJECT.json` maps each definition to the
lines it stands for. Definitions introduced by "Slip:" in a comment are plausible bugs
of the definition after or before them and are used by no specification; they show,
one by one, that a property would notice.

### Indexing

`ConcurrentQueue` is a pure module: a queue is a record of its list and the free places
of its semaphore, and each method is split into the *halves* that other threads can get
between: `acquire` then append; release then `takeFirst`. `Clear` returns `QueueSize`
places whatever was taken, as the code does.

`DirScanner` holds the scanner. A `DirScanWorker` is a record with a program counter
(`queued`, `pick`, `walk`, `acquire`, `append`, `progress`, their `last...` twins for the
flush at the end, `finished`, `done`). Each step touches shared state once. Directory
trees are the constants `Args`, `Children`, `Below`, `Links`, `Ignored`: what the
arguments are, what a listing gives at the first level, and what a recursive walk gives
below; ignore patterns are the set of paths they match. `scan()` runs on the main
thread, so its steps are part of `Indexer`'s `MainStep`.

`Indexer` adds jobs, the main thread and its event loop. The main thread is at
`mainPc = "loop"` (handles one event or one click at a time), or somewhere inside
`beginIndexing`, where it handles none: `arguments`, `list`, `spawn`, `launch`. `jobs` is
the sequence of all `FileScanWorker`s ever launched. `StartButton`, `StopIndexing` and
`EmitFinished` model `MainWindow`; `AddCommand` and `LeaveEventLoop` model `looqs add`
(constant `Gui` chooses). `addFile` is an answer code from `Codes`; what is behind it is
the next part. Progress reports (`indexProgress`) have no effect and are left out.

`IndexRun` is the abstract specification of a run: files are reported one at a time,
each at most once, and the run finishes with all reported, or after a cancellation or an
error. `IndexerProperties` has the refinement (`INSTANCE IndexRun WITH Expected <- Files, StopsOnError <- ~KeepGoing`)
and the properties over sums and time; `Sums` adds up a weight over a sequence.

Two things the code leaves to its user and its platform are named there, as hypotheses of
theorems; TLC evaluates them for the trees of the runs (`TreesAreForests` in `MCIndexer`).
`NothingTwice`: each path is come across at most once. Nothing removes duplicates:
`looqs add d d`, or `d` and `d/sub`, indexes and counts files twice. `SoundStart`: the token
that no constructor initialises (`indexer.h:70`) happens to be false, and the scanner's pool
has a thread (section 6).

### The index and the files

`FileStore` has the disk (`disk[p]`) and the two tables that indexing uses, `rows` (table `file`)
and `content`. A version of a path is a modification time in seconds, which is all looqs reads of
it and stores (`sqlitedbservice.cpp:351`), and a number `nth` that tells versions of the same second
apart and that no definition of the program looks at. Paths have a directory (`DirOf`), a file may
be empty. One operator per transaction: `SaveFile`, `DeleteFile`, with ids reused as
`INTEGER PRIMARY KEY` does and no cascade, as no connection sets `PRAGMA foreign_keys`.

`FileSaver` runs `addFile` or `updateFile` on any number of threads (`task[w]`), in the
steps between which anything may happen: `Lookup` (stat and query), `Decide` (skip, save without
text, or extract: `MustFillContent` asks for the options and for the row of the *directory*, as
`filesaver.cpp:142-151` does), `Extract` (the child: exit code and the version it read, which may be a
later one; `ChildAnswers` is `SandboxedProcessor::process`, `NoAnswers` a child that crashes, fails,
cannot be started or is not waited for any longer, the last two with exit code 0 and no text),
`Save` (the transaction, which may fail), `EndAdd`. A query that fails throws: the indexing job
reports an error (`AddQueryFails`), the syncer's process ends (`QueryFails`). The history `bare`
has the files that were last saved without the text they may have.
`IndexSyncer` and `CommandDelete` are the two loops over pages. `IndexUpkeep` composes
them with other programs that write and remove files and with a kill at any moment.
`Cancel` is modelled as what it is: a slot queued to the thread that is busy in
`sync()`. The variables `seen`, `announced`, `failed`, `interfered`, `listed` and
`disturbed` are histories: what a sync visited, what it told, whether something else
wrote meanwhile.

### Queries

`LooqsQuery` models `build`: an expression is the sequence of the matches of the
program's regular expression (a lone word that swallowed a parenthesis is one of them), a
token type is the *set of its bits*, so that the mask and the tests `mask & TYPE == TYPE`
are unions and inclusions as in the code. `Search` models `makeSqlQuery` and the five ways
of the search line. What SQLite does with the resulting WHERE clause (precedence,
syntax errors, MATCH) is external and modelled by its rules. A MATCH is usable where it must
hold of every row (`MustHold`); anywhere else, below OR or NOT, it is an error as soon as SQLite
evaluates it. SQLite must where the rest of the clause does not decide (`Bound`), and elsewhere it
may: `Eager`, any set of clauses, says for which it does. A word that ends with a star is
matched without it (`EscapeFtsArgument`, constant `Stripped`). As for the other rules, tokens make groups (`Groups`, one for each parenthesis and one for all), an OR parts a
group into terms, a term is what stands side by side in it (`Ors`, `Term`), and `Selected`
gives the rows for a place from those for the places after it. That a lexeme `sort:` names
columns which the statement does not have is an error (`Sortable`), and `--reverse` adds one
more sort. `Lexemes` are the matches that are typed: any set of them, as long as a lone word
is not empty. A result is an error or the set of files
found; their order and the limits are left out.

`PlainTextPreview` is `generateLineBasedPreviewText`, one step per line: `justRead` counts
down the context of a match (-1: none yet), `queue` is the `LimitQueue` of the lines before,
`current` the snippet being filled, a line printed is its number and what stands there. A
line of text is the set of its words; `Parts` says which words stand within others and
`Markup` which stand in the tags of a mark, for the program marks word by word in a line
that already has marks (`Hit`). `std::sort` may leave equal snippets in any order.

`SearchPage` composes both: what is typed and the text of one file on disk are chosen
together, a search is one step, and the preview is of that file with the words of
`contentSearchQuery` (`WordsToHighlight`: as typed, with their stars), if it is among the results. The search reads
the index and the preview the file, so a file that has changed since may show anything.

### Previews

`PreviewServer` is the sandboxed process: accepts one connection at a time, renders the
targets in any order, writes the frames, flushes and disconnects; it may die, and nothing
restarts it. `PreviewClient` is the client's thread with its queue of requests.
`PreviewWindow` is the GUI thread: the coordinator and the handlers of `MainWindow` that
search, page, select a file, scale, and show. Slots called by Qt *inside* another handler
(`setMaximum` and `setValue` call `makePreviews`) are part of that handler; queued slots
are messages in `events`. `wanted`, `told` and `failed` are histories. `crashed` is the
dereference of a deleted layout, which can happen (section 6). `KeyOf` is path and page
number written one after the other, as the code does, so two targets may share a key. The list
of the results of one file (`Selected`) is said by the places of these results and their ranks.

`Screen` is the abstract specification of the tab: any request wipes it; between requests
previews of the last one appear one by one, at any place, and stay. It knows no generations,
threads or sockets. `Previews` refines it with the number of calls of `startGeneration` as
`number`, the coordinator's targets as `page` and the widgets of the layout as `screen`. That
the same preview may appear twice and another not at all is left open, as the code has it.

### Start-up and tags

`Migrations` follows a process from `ensureConfigured` to the moment it works
(`stage[p]`): `configure`, `create` and `init` (a new file, migrated at once), `check`
(`migrationNeeded`), `ask` (the GUI's question), `open` and `migrate`, `leave` (the GUI
ends its thread), `work`. A migration is its number; the transaction that runs its
statements and sets `user_version` is one action, because others see it only when it is
committed, and a process killed before leaves nothing. Every migration begins with
something that cannot be done twice (CREATE TABLE, DROP TRIGGER, ADD COLUMN), so one that
another process has committed fails; so does one that waits longer than the 30 s of the busy
timeout for another process's migration (`Overtaken`). Any statement may fail besides, for a full or
unreadable disk (`SqlFails`): in `currentRevision` the exception ends the process (`OpenFails`); in a
migration the transaction is rolled back and `error()` emitted (`MigrationFails`). Nobody looks at the
results of `PRAGMA user_version` and of COMMIT (`dbmigrator.cpp:90-91`): after such an error the loop
goes on with the next migration, the statements of this one kept or lost (`MigrateInVain`). The
history `mishap` has the worst so far: none, a process that was `stopped` by a kill, its user or an
error, or an error that was `ignored`. `AfterError` is where the three callers differ:
creating a database nobody listens; the GUI exits; the command line calls `quit()` before
`exec()`, which does nothing, and works on.

`Tags` adds the tables `tag` and `filetag` to `FileStore`, with one operator per
transaction and the commands as steps: `looqs tag add` checks the paths and writes later,
`remove` deletes path by path, the context menu reads all tags of a path and then writes
all of them. `filetag` refers to the *row* of a file; `Reindex` and `Unindex` are what
other processes do to rows meanwhile. A tag is a member of `Names`, its lower-case name.
`Sessions` composes both: only a process that works issues commands, a kill ends start-up
and command alike.

`TagBook` is the abstract specification of tagging: a book of sets of tags, the paths that
are listed, and commands that change what they name, `remove` file by file, the others all
at once. It has neither ids nor rows. `Sessions` refines it with `book[p]` as the tags found
by joining the three tables and `listed` as the paths that have a row. What the tags of a
file become when its row is written anew, and that a command writes the set it has
read although it may have changed since, is left open in `TagBook` as the code leaves it
(section 6).

## 3 Runs

Every passing run explores its complete state space.

| Run | Shows | Bounds, and why they are enough |
| --- | --- | --- |
| `IndexStop` | A run, left alone or stopped at any moment: it counts nothing twice, takes no batch that is not there, places and elements add up, every step leaves less work, it implements `IndexRun` (and so finishes), and one that was not stopped reports every file. | Two directories (two workers) with a link, an ignored file, an ignored and two walked subdirectories, an ignored file below; queue of 2 and threshold 2, so that workers do wait for room and both full and final batches occur. After a stop the queue has room here: `clear()` has doubled its capacity. With fewer places that is not so (`IndexStopHangs`). For the first run all but that it finishes is proved for any tree, queue, threshold and pools, `WorkRunsOut` for every run. |
| `IndexRestart` | The running-jobs counter is exact, `finished` comes only when all is quiet, and it comes, over a stop and a second run that overlaps the workers of the first. | Two runs, two job threads; the first two are proved for any number. |
| `IndexCommandLine` | `looqs add` without `--continue` exits whatever files answer, and until it has finished some thread can move; it implements `IndexRun`, so without an error everything is indexed; then no job uses the database that `main` destroys. | All four kinds of answers, two jobs at a time. Queues of one, doubled by `clear()`, and two files and a subdirectory in the argument: the queue of results is full before the first job runs, and the worker that walks the subdirectory waits for it. All but that it exits is proved for any of these. |
| `IndexStopHangs` | *Violation*: a stopped run that never finishes. | One worker that finds more than the queue holds. |
| `SyncPages` | Visited rows agree with their files; a dry run tells of exactly what would be done; `looqs delete` leaves nothing, and ends. | Four rows in pages of two, so rows move between pages; all ages, failing extractions, queries and transactions; a pattern that matches nothing on the first page and both rows of the second. 515 964 states. The first three are proved for tables and pages of any size. |
| `SaveRaces` | A row that looks up to date has the text of the first version with that time, unless the child was not asked or did not answer, and the sync ends whatever happens to its table. | One file in a directory that has a row of type `f` or none, two threads, an add with any options and a sync; the file rewritten, twice within a second and up to mtime 3, emptied, replaced by a directory, removed; children that fail, crash or say nothing, failing queries and transactions, kills. 1 178 427 states. Rows of different paths meet only in the row of their directory; all but that it ends is proved for any number. |
| `SyncSkips` | *Violation*: an undisturbed sync ends with a changed file not reindexed. | as `SyncPages` |
| `StaleText` | *Violation*: text of an old version belongs to a new row. | one change of one file |
| `PreviewPages` | Nothing stale is shown, everything kept is at a rank of its key, at rest the coordinator has a preview for every key of the page that can be rendered, the controls come back or the user is told or the program has crashed, and the tab implements `Screen`. | Three clicks of any kind, so that two generations overlap a third; pages of two; two result lists, one with two targets of the same key on a page and one that cannot be rendered on the next, the other with a page whose previews both reach the screen; a server that starts late or dies. 244 369 states. All but that the controls come back is proved for any of these. |
| `Searches` | The answer of the command, with and without `--reverse`, and of the search line is the files the expression describes, or an error where a `c:` stands below OR or is negated. The preview of a text file among them shows the lines with the words meant, in context, once, with their numbers, and counts every line with a word once per place of the word in the list. | All expressions of up to three lexemes of 20 kinds (a starred word is one), of up to six out of filters, operators and brackets, of up to five out of words, a filter of each table and brackets, of up to five out of a word, a filter of the content, AND and NOT, of up to five out of a filter of the content, two of the path, OR and NOT; a MATCH that comes first is evaluated even if it decides nothing. 602 213 states. Three files: with an outline, with none, without content. A nested bracket with an operator on either side takes six. For the preview every text of seven lines of three kinds (no word; a word and one that is in the markup; a word that others tear, with one of its parts) with two lines of context: two matches may be apart by less, exactly and more than the context, before, between and after lines without. Proved for every index, expression and text and any context. |
| `Sessions` | The revision tells the schema, an upgrade is finished by somebody, nobody works on an old schema unnoticed, tagging implements `TagBook`, tags that are assigned exist. | A GUI and a command line; two migrations, the second of which creates the tables of tags, from no database, from the old one and from the latest: enough for one to be passed over and the next performed. Two starts, three commands with any tags out of two and files out of two, one row replaced or deleted: a command can be prepared, another delete the tag, a third get its id. Failing statements and transactions; kills at any moment. 846 929 states. All but the liveness is proved for any number of each. |
| `NeedlessJoin` | *Violation*: the documented form of a query loses a file. | the one query `p:(foo) (pe:(bar) OR pe:(baz))`, which is USAGE.md:179's `p:(notes) (pe:(odt) OR pe:(docx))` with other words, and the three files of `Searches` |

Properties that leave something out say so in their condition, never silently:
`FinishedMeansAllIndexed` is claimed of runs that follow no cancellation; `BatchesAreBacked`
and `PermitsConserved` count places for one run (a worker of a cancelled run that lives on may
add to the next one's progress); `CountedOnce` and the others about what was counted are checked
and proved of the first run, for a second one may be told the results of the first; `CheckedMeansInSync` and the rest of `SyncPages` are claimed
of undisturbed syncs.

`UpToDateMeansIndexed` speaks of the first version of a file within a second, and not of files that
were last saved without asking the child, because of a row of their directory, or without an answer
of it (`bare`). `CompleteAtRest` is about the coordinator's results, not the screen, which shows fewer
(section 6); it takes one preview for all targets of the page that share a key; and it leaves out
what follows a failed request, because the client's generation is behind for ever after one.
`KeptAtRank` compares keys, too. `EventuallyAnswered` ends with a crash.

`FiltersFindWhatIsMeant` claims, for expressions with a `c:` below OR or NOT, the files or an error.
The documentation excludes only the negation (USAGE.md:170), so for `c:` below OR this is less than
is promised, and section 6 has it as a disagreement. It leaves out two negations in a row, sorts of
anything but a search of paths (section 6), `size:` (accepted, but "Unknown token passed (should not
happen)"), outline filters together with content filters (no table of them is joined), words with a
swallowed parenthesis and, in the search line, words next to operators (section 6), and it *knows* of
the needless join (`Lossy`), so that everything else about it stays checked. `WordsAreContent` asks of
the filters only that they read as an expression without the words, and has the same exception for a
`c:` among them. `EveryMatchCounted` says what the code counts, which is not what a comment says of
it (section 6), and leaves out words that another searched word tears and words that stand in the
tags of a mark. `FoundMeansMarked` leaves out words that are torn, words typed with a star at their
end, searches in which not every `c:` must hold, and files that no longer have the words they were
indexed with.

`RevisionTellsSchema` and `WorksUpToDate` end where an error of `PRAGMA user_version` or COMMIT was
passed over, and `WorksUpToDate` lets the command line work on an old schema after a process gave an
upgrade up: killed, refused or stopped by an SQL error. `EventuallyUpgraded` ends with any of these.

Deadlock is not checked: each of these systems may stop, when the run is over or the bound
on clicks, files or runs is reached. That it does not stop early is what the liveness
properties say.

## 4 Fairness

Only weak fairness, and only of what the operating system schedules: each directory
worker, each job and the main thread (`Indexer`); the syncer's thread, each thread of
the pool and the deleting process (`IndexUpkeep`); server, client and GUI thread
(`Previews`); each process while it starts or has begun a command (`Sessions`). Nobody is
required to click, no file need change, no process need die and a dying one need not be
restarted. A step of a thread that blocks (a semaphore without
places) is not enabled, so fairness does not help it: `IndexStopHangs` is such a case.
That an extraction returns is part of fairness: `waitForFinished` gives up after 30 s.

## 5 Proofs

`tlapm` checks all proofs from nothing; the assumptions are the ASSUMEs of the modules
(types of constants; TLC evaluates them in the runs).

**`IndexerProofs`: `TypeCorrect == Spec => []TypeOK`.** The invariant is inductive as it
stands because it contains `LoopsHaveWork`: wherever a loop of the code takes the
next element without looking (`dirs`, `todo`, `entries`, `left`), the list is not empty.
Lemmas about queues and about replacing an element of a sequence carry the types through
the steps; one lemma per thread, one step per action.

**`JobProofs`: `RunningWorkersCorrect`, `FinishIsQuietTheorem`.** That
`runningWorkers` is the number of live jobs is not inductive. `JobsInv` adds
`JobEventsInv` (each message about a job is from a job that exists, the end of a job is
posted once, after all of its results, and the job is then at `posted`) and
`NothingBeforeRun`. The order of messages is needed: the counter is decremented when the
end is *handled*. With it the step that makes `phase` idle without an error has no live job
and no result on its way. It holds for any tree, number of runs and threads, although old
runs overlap new ones.

**`JobProofs`: `BatchesCorrect`, `PermitsCorrect`, `TakingIsSafe`.** `dequeue(n)` takes `n`
elements without looking, so what is promised must be there. `QueuesInv` is two balances for each
queue, written as one number that every step keeps: the elements that nobody was promised
(`SpareFiles`, `SpareResults`; zero unless a stop discards a worker's announcement) and the
permits together with the elements and the threads between the two halves of an operation. A
promise moves from the worker about to announce it (`AboutToBeAnnounced`) to the signal
(`AnnouncedByEvents`) to the job (`Claimed`). These are sums over sequences; `OrderLemmas` says
what `Weigh` is after an element is appended, removed or replaced, by the least-number principle
in place of induction. `StagesInv` says how much of this exists at each stage of `beginIndexing`:
nothing before `scan()`, and while it lists, a count in step with the queue.

**`JobProofs`: `ExitLeavesNoJobCorrect`.** `EndsInv` does for directory workers what
`JobEventsInv` does for jobs: each posts its end once and nothing after it, so while
a scan is on, some end is still to be handled. `FinishInv` concludes that a run that finishes
by itself leaves no live job and no worker, and that `looqs add` leaves its event loop only then
or on an error.

**`RunProofs`: `CountedOnceInFirstRun`, `FirstRunFinishedMeansAllIndexed`.** The first assumes
`NothingTwice`, the second `SoundStart` too. The argument is conservation: a path to come across
is still ahead of the main thread (`ToVisit`), among the queued file arguments (`Given`), below
a directory that waits for a worker (`Targeted`), with a worker (`Walking`), in the queue of
results (`Found`), with a job (`Indexing`), in a signal on its way (`Answered`) or `Reported`;
`Held(p)` is how often it is in any of these, and `Occurrences(p)` how often the arguments
lead to it. `HeldInv`: `Held(p) <= Occurrences(p)` always, and equal while the run is not
cancelled. Each step moves paths from one place to the next, worker steps by a whole listing.
So no path is reported twice, and as `FinishInv` and `PlacesInv` leave no other place when
an uncancelled run is finished, each is then reported. The hypotheses are needed, section 6 has
what happens without each. Later runs are left out because old workers and results of a
cancelled run get into them.

**`RunProofs`: `FirstRunImplementsIndexRun`, `CommandImplementsIndexRun`.** Each step of the first
run is a step of `IndexRun` or a stutter, so `looqs add`, which has no other run, implements
`IndexRun!Safety`, its specification without fairness. The step that needs an argument
is the last one: `finished` comes with everything reported or after a cancellation, which is the
property before, and no result comes after it (`QuietInv`). Without `KeepGoing`, which the window
always sets (`mainwindow.cpp:331`) and `--continue` does, an error reports, cancels and finishes
in one step (`Fail`), and only then may results of other jobs arrive after the end
(`ReportLate`): files that nobody had reported before. `IndexStop` and `IndexCommandLine` check
the whole of `IndexRun`.

**`RunProofs`: `WorkRunsOutTheorem`, `FirstRunNeverStuck`.** What can be proved of an end without
fairness: a run can neither go on for ever nor come to a stop. `Work` adds up weights for
everything there is still to do, a path, a directory, a worker at each of its steps, a signal on its
way, so that each weighs more than what a step makes of it; every step but a start of indexing
leaves less, cancelled or not, in any run. `NeverStuck` says that in the first run, unless it is
stopped, some thread can move until it is finished. That needs two things. `GoesOnInv`: no job is
stuck, a worker waits with no more elements than the queue can ever take, and while the run is on
some job or the scan is counted (`SomethingRuns`), each with a thread or a signal whose end will be
handled (`EndsComing`, `EndsInv`, `RunningWorkersExact`). And an account of who holds
the places of the results: unless it has room for a whole batch, `PermitsConserved` and
`BatchesAreBacked` leave an element that a job or a signal stands for, or a thread between the halves
of an operation, and any of these can move. While the main thread lists the arguments nobody takes
anything, so the queues must take the first level (`QueuesFit`); `FillInv` counts what is still
to be put into each. Its bounds are those of the code: file arguments in `QueueSize` places, files
and subdirectories directly in arguments in twice that. Under fairness the two theorems leave of
`EventuallyFinished`, for a first run nobody stops, only that `ENABLED` of each thread's step is
what `NeverStuck` spells out, which the provers cannot expand; `EventuallyFinished` is checked.

**`UpkeepProofs`: `UpToDateCorrect == Spec => []UpToDateMeansIndexed`.** The argument is
that of the code: the stat is taken *before* the child reads, so the version read is at
least the one of the stat (`TasksNotAhead`), and no row is ahead of its file (`RowsNotAhead`). So if
the file still has the time of the stamp when the row is written, and only one version has had it, the
child has read that version (`HoldsTextOfStamp`, for a task between extraction and commit that was
not told to do without a text). A later rewrite gives the file another time, or another version in the
same second, which the property leaves out. `StoreInv` is `SaverTypeOK /\ StampsInv /\
UpToDateMeansIndexed`; `SelectionInv` adds that the syncer hands over paths only. The
steps of sync, deletion, other programs and kills are cases of their own.

**`UpkeepProofs`: `UpkeepTypes`, `CheckedCorrect`, `DryRunCorrect`, `DeleteCorrect`**, for
tables, pages, pools and options of any size. The invariant is `UpkeepInv`, which goes on from
`StoreInv`. Ids are unique and the table is finite (`RowsInv`), so a row has a rank, the
number of rows with a smaller id, and `LIMIT`/`OFFSET` is an interval of ranks. `ControlInv`
is what holds whoever interferes: updates run in the pool of `updateFiles` only, a dry run selects
nothing, and the token is not set while `sync()` runs, because its slot is queued to the
thread that is busy. The rest is claimed while nothing else writes (`~interfered`). Visited rows
agree with their files unless one of five places still has them to do (`SeenInv`, `Underway`):
selected, on the page, pending, or under way in a thread, which then knows the stat the row is
compared with (`UpdateFits`). A dry run has announced exactly the stale and gone rows
`Behind` it (`AnnouncedInv`). Deleting moves the rows behind up, so for `looqs delete` the rows
`DealtWith` are those of a rank below `deleteOffset + DeleteLimit - deleted`; when
the next page comes back empty no rank is left above, for ranks have no gap: a row with rank at
least `k` implies one of rank `k`. That needs a least element. The library's induction theorems
cannot be instantiated (above), so `OrderLemmas` derives `LeastNatural` from the
well-foundedness of the strict subset order on finite sets, and from it `LargestOfFinite` and
`Ranked` (a finite set of positive numbers has elements of every rank up to its size).

**`SearchProofs`: `LinesInOrderCorrect`, `ContextAroundCorrect`, `EveryMatchCountedCorrect`**,
of `ReaderSpec`: any text, any list of words, any number of lines of context. `OrderInv` says
where the reader stands: the queue holds the lines just read (`QueueInv`), the snippet being
filled ends with the line just read, and snippets lie in the order of the text (`CurrentInv`);
so a number computed from the queue is that of the line, and nothing can be printed twice.
Nothing in this says that a line is printed at all. `CoverInv` does: what lies around the
matches so far is in a snippet or in the one being read (`BeforeMatches`, `AfterMatches`), the
lines a later match would need are in the queue or shown (`WindowKept`), and `justRead` is how
far the context still reaches after the first match of a snippet (`AfterIsolated`,
`ContextHasMatch`). It needs `OrderInv`. `TallyInv` is the account of the counts: those of the
snippets and of the one being read add up, for a word that nothing tears, to its places in the
list times the lines with it so far, because the lines still in the queue have none
(`CountsKept`). That sorting keeps the total is `SumReordered` of `OrderLemmas`.

**`SearchProofs`: `FiltersFindTheorem`, `WordsAreContentTheorem`, `WordsAreBothTheorem`**, of
`Spec` of `SearchPage`: any index, any set of lexemes, expressions of any length. An answer is
what its search of the expression gives (`SearchInv`); all else is about that. Three things
stand between what was typed and the rows of a statement. `build` reads match by match and keeps
a mask and the words apart: after `k` lexemes its query has the tokens of the reading of these
`k` (`QueryAt`, `AllRead`), and it refuses none as long as operators do not meet (`NoClash`,
which a sound expression has, `SoundNoClash`). Then it puts the ANDs: `Inflates(f, ts, us)` says
that `us` is `ts` with an AND at every place that is not some `f[k]`, and that is all one needs
to know. Depths, groups, ORs and terms of `us` are the images of those of `ts` (`InflatedDepth`,
`InflatedParts`, `InflatedTerm`), so the same rows are selected (`InflatedSelection`), what
could be read with factors side by side can be read by SQL (`InflatedGrammar`), and MATCH is as
usable (`InflatedUsable`): an error comes only of one that is not, wherever else SQLite chooses to
evaluate it (`Eager`). The selection is recursive towards the *end* of the tokens, and two
selections are compared from there (`AgreeFrom`, `SameSelection`). Last, the mask chooses the
tables: its bits are those of the kinds typed (`MaskBits`), but for the bits that together look
like an outline filter, which is `Lossy` (`JoinsAre`, `FiltersFound`). The words of the search
line are one operand more: behind an expression without an OR outside of groups it is one more
thing that must hold (`AppendedSelects`); without filters all operands must hold
(`OperandsSelect`).

**`SearchProofs`: `FoundMeansMarkedTheorem`, `PreviewsMadeTheorem`.** From the search line to the count in the header
of a preview. The reader's part of a run is a run of `ReaderSpec` (`SourceAlways`), so the
theorems above hold of the previews that are made. Its words are a list that `WordsToHighlight`
gives for the query of the search, its text that on disk (`SourceInv`); that neither query was
an error follows from something having been found (`FoundNoError`). Every word meant is in a
content filter of that query, whichever of the readings of the line it is (`ContentQueryIs`), so
it is in the list (`HighlightFacts`). A row that is selected has all of them on one page, the starred
ones without their star: every `c:` must hold, so every group around one is a conjunction without a
negation (`ContentHolds`, `FoundHasWords`). So some line of the file has the word, the line is in a
snippet, and what the list finds in a line of a snippet was counted (`SeenInv`), torn words and
tags included.

The recursions here (the loops of `build`, a reading, a selection, the list of words) are
recursive functions. The library's theorems on recursive functions take operators, which the
provers cannot instantiate, so for each it is shown with `LeastNatural` that there is such a
function and what its last value is (`ReadingsIs`, `AndsIs`, `QueriesIs`, `SelectedIs`,
`ListedIs`).

**`SessionsProofs`: `RevisionCorrect`, `WorksUpToDateCorrect`, `AssignedTagsExistCorrect`,
`TypeCorrect`, `BookKeptCorrect`.** The first two need `MigrationsInv`, whose part `Orderly` is
claimed as long as no error was passed over (`mishap # "ignored"`): the schema is
that of the revisions so far, no process is to
perform a migration beyond the one that comes next (`next[p] <= revision + 1`), and
`UpgradeGoesOn`: if a process works or was overtaken while the schema is not the latest, there
is a *leader*, a process whose next migration is exactly the one needed, or there was a mishap. A leader stops to be one only by migrating, after which it leads again, or by
failing, which needs another one or is a mishap. That assigned tags exist is inductive by itself; one lemma
per transaction. `BookKeptCorrect` is `Spec => Book!Spec`, the refinement of `TagBook`. It
rests on `TagsInv`: names and ids of tags and ids of rows are unique and assigned tags exist.
Without the latter a new tag that gets a used id would appear in the book of files nobody has
tagged. For each transaction a lemma says what `TagsForPath` is afterwards, for the path
concerned and for the others; each step then maps to a step of `TagBook` or leaves the book
alone.

**`PreviewsProofs`: `ShownIsCurrentCorrect`, `ScreenKeptCorrect`**, for any targets, results,
clicks and failures of the server, and whatever a page is made of. `PreviewsInv` follows a
request from the click to the screen. The one numbered `n` is made at generation `n + 1`, and
those the client has not begun are the last ones in order (`RequestsInv`). The client counts a
request at most once and serves them in order, so while it serves number `n` its generation is at
most `n + 1` (`ClientInv`). Nothing but what belongs to that request is on the wire (`LinkInv`,
`WireInv`), so a message's generation is at most one more than the number of its request
(`EventsInv`), and one that passes the coordinator's test `generation >= current` is of the
last request (`ScreenInv`). A failed request only makes the client's number smaller: previews
are lost, never stale ones shown.

**`PreviewsProofs`: `PreviewsTypes`, `KeptAtRankCorrect`, `CompleteAtRestCorrect`.** `TypesInv`
adds to `TypeOK` why a page is never taken of nothing: the page number is at least 1 and the
file selected in the combo box has a result (`Places`), so the pages of `Selected` exist; that a
page's targets are targets rests on `Ranked`. A preview is kept at the *largest* rank of its
key, which exists by `LargestOfFinite`. `CompleteInv` is three accounts that hold as long as no
request was given up, the last two as long as the server lives. The client's generation is
exactly that of the request it serves (`GenerationInv`), so the coordinator drops nothing of the
last one. Each answer was read, is written or is being rendered (`AnswersInv`), so the client,
which reads as many as were announced, leaves none on the wire. And every target of the last request
that can be rendered is still to be asked for, being served, in a message on its way, or kept
(`SomewhereInv`). At rest only the last is left. A target whose key others of the page share is kept
under that key only, so for these it is a preview of one of them.

Only model-checked: everything temporal under fairness, with it the liveness half of `IndexRun`
and of a finished scan. Every invariant that a passing run checks is proved.

## 6 Where code and documentation disagree

Shown by a run: `IndexStopHangs`, `SyncSkips`, `StaleText`, `NeedlessJoin` (see `findings`).
Also met while modelling, reproducible with the modules, without a run of their own:

* After *Stop indexing*, the next run's first job may still see the old cancellation
  token (`indexer.cpp:62` resets it after `scan()` launched the job): it drops its batch
  and the run finishes. `MaxRuns = 2`, `MayCancel = TRUE`, `FinishedMeansAllIndexed`.
  An uninitialised token (`indexer.h:70`) does the same to the first run.
* `looqs add` with more than `QUEUE_SIZE` file arguments blocks before it has launched a
  job (`indexer.cpp:50`): `EventuallyExits` with more file arguments than `QueueSize`. So does
  `scan()`, in the GUI too, with more than twice as many files, or subdirectories, directly in the
  arguments (`paralleldirscanner.cpp:90-98`; `clear()` has doubled the queues): `NeverStuck`
  without `QueuesFit`.
* Previews are inserted at `layout->count() - 1` (`mainwindow.cpp:665`): the first is
  shown twice and the last never, against "previews [...] from all documents/pages"
  (`USAGE.md:62`). `HandleReady` models it. Of targets on a page whose path and page number read
  alike when written one after the other (`previewcoordinator.cpp:94`) only one gets its preview:
  `CompleteAtRest` with `{targets[i]}` for `Sharing(i)`.
* A preview that arrives after a search without previewable results dereferences the
  deleted layout (`mainwindow.cpp:664`): `crashed` is reachable.
* `foo AND bar` in the search line is an SQL error: lone words move behind the operator. So is
  `NOT foo AND c:foo`, which `build` refuses, for NOT and AND meet where the word was:
  `FiltersFindWhatIsMeant` without `WordsAreApart` shows both.
* A sort works in a search of paths only. Around the union that a search of content is,
  `ORDER BY file.mtime` names a table that is not there (`sqlitesearch.cpp:64,187-205`): `sort:`
  with `c:`, `page:` or lone words, and `looqs search --reverse`, "short for adding
  "sort:(mtime asc)"" (`commandsearch.cpp:12`), end in an SQL error; by `content.text`, which
  `looqsquery.cpp:359` lets pass when content is searched, one can never sort. The comment's own
  example `sort:(mtime desc, page asc)` (`looqsquery.cpp:113`) is refused for the blank after
  its comma. `FiltersFindWhatIsMeant` without the last conjunct of `SortsFiles` shows it.
* The needless join of `NeedlessJoin` also happens to two tag filters joined by AND.
* "The booleans AND and OR are supported. Negations can be applied too, except for c:()"
  (`USAGE.md:170`), but a `c:` below OR ends in an SQL error, too, for MATCH is not usable there
  (`sqlitesearch.cpp:144`), unless SQLite need not evaluate it: `FiltersFindWhatIsMeant` with
  `=` instead of `Gives`.
* A word that ends with a star is matched without it (`sqlitesearch.cpp:80-85`), highlighted and
  counted with it (`mainwindow.cpp:935-949`): `c:(foo*)` finds a file by "Fix handling of content
  search queries with prefix terms" (`CHANGELOG.md:61`), and its preview marks no word.
  `FoundMeansMarked` without its condition on stars shows it.
* "How many times a word occurs in the snippetText" (`previewgeneratorplaintext.cpp:84`) is what
  the heading of a preview tells, but the code counts lines: a word twice in a line
  counts once, a word given by two filters twice for each line, and a part of a word
  counts (`previewgeneratorplaintext.cpp:108-115`) although "Only highlight whole words"
  (`CHANGELOG.md:55`).
* A preview of `foo foobar` counts no `foobar`: the mark of the shorter word tears the
  longer (`previewgeneratorplaintext.cpp:104-127`); words like `span`, `yellow` or `amp` are
  found in the marks and entities. `EveryMatchCounted` without `Whole` shows it.
* "Like grep -A" (`previewgeneratorplaintext.cpp:96`) holds of the first match of a
  snippet: a match on one of the lines of its context, unless on the last, gets only what
  is left of it. `ContextAround` claims one line after such a match.
* A search that fails leaves its words with the results of the one before, and the words are
  read while the next search may assign them (`mainwindow.cpp:754`): a data race.
* Reindexing a file replaces its row (`sqlitedbservice.cpp:365`), and `filetag` refers to
  the row: the file loses its tags, unless it had the largest id, and a new file that gets
  a reused id inherits tags. `FileChanges` of `TagBook` allows it; with `book' = book` there
  for a path that stays listed `BookKept` fails.
* Two processes that change the tags of one file lose an update (`tagmanager.cpp:8-18`).
  `SetTags` of `TagBook` writes what was made of the set read at `Begin`; with a guard
  `book[p] = command[c].read` `BookKept` fails.
* `looqs` works on an old schema after its upgrade failed (`cli/main.cpp:96-101`), as it
  may while another process upgrades, or with any SQL error (`dbmigrator.cpp:81-87`); and the GUI
  may be aborted at the end of a successful upgrade (`gui/main.cpp:212`, a QThread destroyed
  while it runs).
* When `PRAGMA user_version` or COMMIT fails, nobody notices (`dbmigrator.cpp:90-91`), and the next
  migration may set its number on a database that lacks this one's schema, for good.
  `RevisionTellsSchema` without its condition on `mishap` shows it.
* A directory has a row of its own, of type `d`, and one that took the place of a file has that
  file's, maybe of type `f`. `saveFile` looks for the type of the *directory* of a file that it
  fills (`filesaver.cpp:148-149`), and then saves the file without its text;
  later runs with `--fill-content` skip its row as they skip any of type `c` (`filesaver.cpp:30-33`).
  A child that cannot be started or takes too long has exit code 0 and no output
  (`filesaver.cpp:159-178`): the file is indexed with an empty text. In all these cases the row looks
  up to date. `UpToDateMeansIndexed` without `bare` shows it; and without its condition that the
  version is the first with its time, that a file rewritten within a second keeps its old text
  (`sqlitedbservice.cpp:351`).
* The GUI's Cancel button does not stop a sync (`mainwindow.cpp:198`).
* On one core `idealThreadCount() / 2` is 0 (`paralleldirscanner.cpp:10`): `scan()` starts no
  worker and subdirectories are never indexed. `FinishedMeansAllIndexed` with `ScanThreads = 0`
  fails.

## 7 What is not modelled

* Document processors and the rendering of PDF and ODT previews: third-party libraries
  turn bytes into text or pictures; a function of its input without state. So is the sandbox
  the child process puts itself in.
* Of text previews: phrases (a word to mark is one word), upper and lower case, diacritics,
  escaping, the width of a line, and the HTML. `generatePreviewText`, which cuts pieces out of
  the text of an ODT file.
* Widgets, dialogs, logging, file reading, wildcard matching.
* Of the GUI: the history of searches and saved searches, context menus but for tags, and that
  `finishIndexing` enables the search line.
* Of start-up: settings and VACUUM.
* A modification time set back to an earlier one: times of versions do not decrease.
* What FTS takes for a word. The words of a page are those that a MATCH finds it by, prefixes and, in
  the trigram table, parts of words included.
* That `filetag` may have a row twice (`5.sql:2` has no UNIQUE): it is a set, as equal
  rows are joined, searched and deleted alike. Where tags or paths are listed, one is listed twice.
* Of queries: the order of the results and `limit:`, which in a search for lone words holds
  for paths and for content each.
* Two GUIs at a time: the second takes the socket's path from the first
  (`ipcserver.cpp:25`), whose previews then come from the second's server and end with it. To
  the first that is a server that dies, which is modelled.
* Of the database: the outline, and that text is kept in two FTS tables (they are written
  and searched together).
* Command-line option parsing.

## 8 Plan

Done, in this order: the indexing pipeline with its refinement and proofs; index and files
with the proof of the main invariant; previews; queries; start-up and tags with proofs; text
previews, composed with search, and their proofs; tagging as a refinement of `TagBook`,
proved; sorts and the child process; previews as a refinement of `Screen`, proved;
paging and previews proved; the accounts of the first indexing run and its refinement of `IndexRun`, proved
(with errors, too); that a first run cannot get stuck or go on for ever, proved; the counts of text previews, proved;
queries and what a preview shows of them, proved.

Next:

1. An abstract specification for the syncer (an index that comes to agree with the disk), with
   its refinement mapping.
2. The order of results and `limit:`; `outline` in `FileStore`.
3. A run with `ScanThreads = 0` (one core) once its outcome is settled against Qt.
