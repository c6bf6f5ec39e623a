# cloud-framework: a TLA+ model of the tiering daemons

cloud-framework keeps the files of one directory in two tiers. A file is *hot*
(its content is in the directory) or *cold* (its content is an object in an S3
bucket, and an empty placeholder stands in the directory). A Redis catalogue
holds one hash per file. Two processes act on the three stores without any lock:

- `supervise` (`Supervisor.cpp`) is a daemon with two threads. The *migrator*
  (`manageFiles`) demotes what the policies give up and promotes what they want
  back. The *policy thread* (`updatePolicies`) parses `res/policies.xml` again
  every eight seconds.
- the *event handler* (`FileEventHandler.cpp`), forked by `initialize`
  (`Initializer.cpp`), reads inotify events. It keeps the catalogue in step with
  the directory and fetches a cold file back when somebody opens it.

What orders the two processes is the sleeps in `manageFiles`. Everything that
the migrator does to the directory comes back to the handler as an event, and
the handler cannot tell it from what a user does. That is where the hard
behaviour of this program is.

## Inventory

| Part | State | Operations | Talks to |
|---|---|---|---|
| Migrator, `Supervisor.cpp:139` | the two lists, the file at hand | scan, demote, promote | S3, directory, catalogue; policies by shared pointer |
| Policy thread, `Supervisor.cpp:114` | `ready`, `PolicyManager::policyList` | clear, parse | the migrator, by shared memory without a lock |
| Selection, `Supervisor.cpp:287-516` | none | union and intersection of range queries | `Redis_Scanner` |
| Event handler, `FileEventHandler.cpp:21` | `oldFileName`, the event at hand | one branch per event type, recall | S3, directory, catalogue, inotify |
| Catalogue, `Redis_Client.cpp` | a hash per file | HMSET, DEL, RENAME, HGETALL, setters and getters | Redis |
| Indexes, `Redis_Scanner.cpp` | four sorted sets | add, update, delete, range queries | Redis |
| S3 connector, `AWSConnector.cpp` | none | get, put, delete, promote, demote | S3, directory |
| Policies, `lib/*Policy.hpp` | thresholds | getters, `isFileKept` (which nothing calls) | - |
| Parser, `PolicyManager.cpp` | `policyList`, `parseError` | parse a file, clear | libxml2 |
| Generator, `xml_generator.cpp` | the flags of its two loops | a dialogue, one question after another | writes what the parser reads |
| Initializer, `Initializer.cpp` | none | catalogue every file, start the handler, which adds the watches | all of the above |

What makes each part correct, and what makes that hard:

- *Migrator.* A file's content must be somewhere at every moment, and the
  catalogue must lead to it: the object must exist before the file goes, and the
  hash must be cold and marked before anybody relies on it. Hard because a
  demotion is ten calls on three stores, any call may fail or be the last one
  before a stop, and users and the handler act between any two of them.
- *Event handler.* At rest the catalogue agrees with the directory. Hard because
  events are late, because the demotion's own OPEN, DELETE, CREATE and CLOSE
  events change the hash the demotion is writing, and because a setter on a
  missing hash creates a partial one that kills the next reader.
- *Selection.* The queries must pick what the policies mean, on their boundaries
  too, and the two passes must not work against each other.
- *Event handler, again.* It watches a second directory, the trash, and files the
  events of both under the bare name. Hard because a move is two events, because
  a recall puts events of its own into the queue, and because a file may change
  its name and its directory while a recall for it is waiting there.
- *Policy thread.* The migrator must not use a policy that has been deleted, or a
  list that is half parsed. Hard because it copies pointers, not policies, and a
  flag is all that the two threads agree on.
- *Parser and generator.* A policy in force must be the one that was asked for.
  Hard because locals are compared before they are assigned and sums overflow.
- *Catalogue and indexes.* The sorted sets must have exactly the files of the
  hashes, with the scores of the hashes. Hard because every method is several
  commands, and two processes send them.

`PROJECT.json` has the same parts with their status, and every hazard with its
line.

## Modules

| Module | What it models |
|---|---|
| `Catalogue` | a hash (`Entries`), and each method of `Redis_Client` as a function from hash to hash |
| `World` | what the processes share: directory, bucket, catalogue, inotify queue; the events of each file operation |
| `Migrator` | `manageFiles`, one action per call that another process can see |
| `EventHandler` | the loop of `initializeINotify`, one action per call |
| `Migration` | the two together, with users, time, kills and restarts; the properties |
| `Directory` | abstract: a directory of files that only its users change |
| `Housekeeping` | `initialize`, the handler with both watches, and users who move, trash, restore and delete files |
| `Selection` | `getDemotionList`, `getPromotionList`, `findUnion`, `findIntersection`, the range queries |
| `Tiering` | the cycle of the two passes at the level of what the policies read |
| `PolicyParser` | what `parsePolicy` makes of one element |
| `PolicyReload` | `updatePolicies` and `manageFiles` as two threads on one list of pointers |
| `GeneratedElements`, `Generator` | the elements `xml_generator` writes, and its dialogue |
| `Store` | `Redis_Client` and `Redis_Scanner`, one action per Redis command, with two processes |
| `AtomicStore` | abstract: a catalogue whose methods are single steps |
| `MCMigration`, `MCHousekeeping`, `MCTiering`, `MCPolicies`, `MCGenerator`, `MCStore` | model values, small policies, symmetry |
| `SafetyInvariant`, `StoreInvariant`, `HousekeepingInvariant` | the inductive invariants of `Migration`, `Store` and `Housekeeping` |
| `HandlerProofs` | what the theorems about `Migration` and `Housekeeping` share: the handler's types |
| `MigrationProofs`, `SafetyProofs` | theorems about `Migration` |
| `HousekeepingProofs` | theorems about `Housekeeping` |
| `StoreProofs` | theorems about `Store` |
| `TieringProofs` | theorems about `Selection` and `Tiering` |
| `PolicyProofs` | theorems about `PolicyParser` and `PolicyReload` |
| `GeneratorProofs` | a theorem about `Generator` |

`Migration` extends `Migrator` and `EventHandler`, which extend `World`, which
extends `Catalogue`; `Housekeeping` extends `EventHandler` alone and has the
demotions of supervise as one step each. `Tiering` extends `Selection`. The two
families meet at the list of candidates: `Migrator`'s scans yield *any* subset of
the files the queries could return, so that what is shown of the migration is
shown for all policies, and `Tiering` treats a migration as one step.
`PolicyReload` and `Generator` extend `PolicyParser`, from either side of
policies.xml; `PolicyReload` has the migrator as somebody who copies the lists and
walks over them. `Store` looks into the methods that `Catalogue` takes as a whole,
and says when that is right: as long as no two calls for one file overlap
(`ImplementsAtomicStore`).

### State and code

- `disk[f]`, `bucket[o]`: the content under a name, or `None`. Objects are named
  after files (`Supervisor.cpp:190`), so both are indexed by `Files`. `Empty` is
  the placeholder.
- `db[f]`: the hash. Its `form` says how it came into being, because
  `Redis_HGETALL` reads fields by position: `"made"` by HMSET, `"ghost"` by a
  lone HSET on a missing key, `"none"` when there is none. A setter on a missing
  key makes a ghost, reads it back and dies; only `setIsOpen` does not read.
- `lastModified` is what the bounce-back test can tell: `"recent"` (a minute at
  most) or `"old"`. File_Size and Times_Accessed matter to the policies only,
  and are in `Tiering`.
- `queue`: events not read yet. `Notify` appends, unless nobody is watching.
- `mpc`, `hpc`: the next call of the migrator and of the handler. `"dead"` is a
  process that is gone: killed, or ended by an uncaught exception of `stoi`.
- `todo[f]`: the FileData of a listed file *as the scan read it*; `cur`: the file
  at hand. `hremote`: `fd.remoteURI` as the handler read it. These are the
  program's own stale copies. `oldName` is `oldFileName`.
- `truth[f]`: what a user last wrote to `f`. No code has it; the properties are
  about it.

`demoteObject` and `promoteObject` are several actions each. A failed S3 call is
an action of its own. A `putObject` of a file that is not there fails.
`Listed` may change an age when `DaylightZone` holds, since `stringToTime_t`
leaves `tm_isdst` unassigned. `isOpen` of a new FileData is arbitrary, since
`newFileDataObject` leaves it unassigned.

In `Housekeeping`, `trash` is the second directory, `ipc` and `left` are where
`initialize` is and what it has still to catalogue, and `binned` is to `trash` what
`truth` is to `disk`. `TrashWatched` says whether the second watch is there: until
then, what happens to the trash is in no event.

In `Tiering`, `meta[f]` has the members that the policies and `manageFiles` look at:
the score of the file in the sorted set (`lastModified`), the time in its hash
(`written`), its size and accesses, and the flags Is_Local and Is_Open. The hash has
the time as text, and whoever reads it back does so with an unassigned `tm_isdst`:
where `daylight` holds, each reading may be an hour off (`ReadBack`), the one that
gives the list its age as well as the one that becomes the score. A file may be born
open, as above, and `manageFiles` passes over a file that is marked so (`Chosen`).

In `PolicyReload`, a policy is a value in a cell of `heap`; `policyList`, `newList`
and `mine` (the migrator's copy) are lists of cells, so that a pointer may outlive
its policy. Reading a freed cell, or copying a list that is being changed, is
undefined behaviour: the process dies, or goes on with whatever it found. The
policies that `parsePolicyList` drops when it fails are leaked in the code; the
model frees their cells, so that memory may be finite. In `PolicyParser`, an
unassigned local is any value of `Garbage`, so that an element has a set of
`Outcomes`; a conversion to int drops the upper bits (`ToInt`).

In `Store`, `prog[c]` is what is left of the method that process `c` is in, as a
sequence of Redis commands; HGETALL and HGET are commands that go on with a longer
program, according to what they read. `known[k]` is what the abstract catalogue
has: the hash before the call that is under way, or `Unknown` after calls that
overlapped or were cut short. The value of a field that no sorted set goes by, and
the order in which queries return their keys, are left out.

### What the environment may do

Parameters say what is assumed of the world, so that each run names it:

- `Prompt`: the sleeps in `manageFiles` are long enough for the handler to have
  emptied its queue (`Slept` guards the calls that follow a sleep). This is what
  the code counts on; `LateHandler` drops it.
- `Quiet`: users leave a file alone while it is being moved, or while it is being
  fetched back for them. Nothing in the code enforces that; without it the
  window between the test of Is_Open and the removal loses writes.
- `LongOpens`: a user may keep a file open for more than a minute.
- `S3Faults`, `Kills`, `Restart`, `UserOps`: which calls fail, which processes
  may be killed, whether supervise is started again, what users do.
- `MaxQueue`: bound, users act only while fewer events are queued.
- `FreshNames` (`Migration`): nobody creates a file, or moves one, under the name of
  an object that another file has. Nothing in the code enforces that either; without
  it two files share an object. Only `MigrationRename` needs it: while nothing is
  moved, every object has the name of its own file.
- `Patient` (`Housekeeping`): users wait until both directories are watched, and
  until a file that is being fetched back is there. Its `FreshNames` asks for more:
  nobody uses a name that is in use in either directory, for a move or for a new file.
- `PolicyFiles`, `Broken`: what may be in policies.xml, at any time. `Garbage`: what
  the stack may hold. `IntMax`, `Seconds`: the width of int, the length of units.
- `Cells`: memory for policies. A file that does not fit waits for memory for ever,
  so each run has as many cells as its largest file needs.

## Runs

Two names, two contents and `Empty` are enough for every interaction that
involves a file and another one, or an old content and a new one: the processes
handle one file at a time, and share nothing between files but object names
(reached by renames) and `oldFileName`. `MigrationRename` has three names, so that
there is one to move to while two files are there, each with an object, and a moved
file whose old name another one could take. Where only one file can matter, the run
has one and leaves users and faults more room. Queue bounds of 2 or 3 let a
user's whole open, write and close pile up behind a step of the handler; the
daemons' own events are not bounded.

| Run | Question | Answer |
|---|---|---|
| `MigrationAssumed` | two files, quiet users, prompt handler, S3 deletions may fail | type invariant; no file is stranded (`Reachable`); nobody dies (`NoCrash`); at rest the catalogue is right (`CatalogueAgrees`); no young file (`NoBounceBack`) and no open file (`OpenRespected`) is demoted; a demotion that ends is on record (`DemotionRecorded`); to its users it is a plain directory (`ImplementsDirectory`) |
| `MigrationRename` | files are created, read, which fetches them back, and moved among three names, cold ones included; names of objects are not used again (`FreshNames`) | the hash follows its file (`CatalogueAgrees`), its content stays within reach (`Reachable`), a move is one step for the users (`ImplementsDirectory`), and an object goes only when its content is back (`DeleteKeepsContent`) |
| `MigrationWild` | everything at once: faults, kills, restarts, users who do not wait | no object goes that holds the only copy of what a user wrote (`DeletedIsBack`) |
| `MigrationStopped` | supervise is stopped for good at any point | no content is lost (`ContentSomewhere`), and a cold file is always marked, so it can be recalled (`ColdIsMarked`); the invariant behind the proofs of these and of the properties of `MigrationAssumed` holds (`SafetyInv`) |
| `MigrationRecall` | a user opens a cold file and waits | the content comes (`RecallCompletes`) |
| `Housekeeping` | from the first listing of `initialize` on, users move two files, hot and cold, between the directory, the trash and new names, delete them from either, open and write them | at rest the hashes are those of both directories (`BothCatalogued`); a cold file keeps its way back through every move (`TidyingStrandsNothing`); a recall replaces a placeholder and nothing else (`RecallFillsPlaceholders`); the handler comes to rest, alive (`CatchesUp`); the invariant behind the proofs holds of the forecast computed from the queue (`ForecastIsTrue`) |
| `TieringPolicies` | lists of size, time and hits policies, replaced at runtime, with and without daylight saving | a demotion pass takes exactly what no list keeps, but for files marked as open and files too young (`DemotesTheGivenUp`); a promotion pass undoes no demotion, but for what daylight saving does to an age (`NoSelfPromotion`) |
| `PolicyReload` | policies.xml is edited at any time: good, half good, broken, with ages that overflow, by hand | `ready` means all of a file (`ReadyMeansWhole`), as its author meant it (`ParsedIsMeant`); a walk that no reload disturbs follows live pointers (`WalksLivePolicies`) and whole lists (`PassesUseWholeLists`); an edit takes effect (`EditTakesEffect`) |
| `Generator` | dialogues of two lists of two policies, with every kind of answer | the file is what was asked for, and the parser reads it so or rejects it (`FileIsAsAsked`) |
| `Store` | three calls and queries of two processes, command by command, overlapping or cut short | calls that meet no other are single steps (`ImplementsAtomicStore`) and leave the sorted sets as the hash is (`IndexAgrees`); setters, creations and deletions that do meet lose no file from a set (`NothingGetsLost`); a query is exact about what is not written to meanwhile (`QueriesAreRight`); the invariants behind the proofs of these hold (`StoreInv`, `Promises`) |

Deadlock is checked but in five runs, where the system may really stop:
`MigrationStopped` (with supervise stopped for good, a file half demoted, and users
who wait for it), `LateHandler` (no users), `TieringPolicies` (time is bounded),
`Store` (calls are bounded) and `Generator` (the dialogue ends, or jams).

Two abstract specifications say what a part promises, and a run shows the detailed
one to implement it under a refinement mapping. `Directory` is what users see of
the whole: `Migration!Content` maps a placeholder to the object that the hash names,
following a hash that a late event has still to rename, and a file that is between
its removal and its placeholder to the object it was just uploaded to. So a
demotion, a promotion and a recall are stutters, step by step. `AtomicStore` is what
callers of `Redis_Client` rely on, and maps `meta` to `known`.

Runs that end in a counterexample show where the code departs from what its own
comments and notes say; each is a finding in `PROJECT.json`:

| Run | Property | What the code does |
|---|---|---|
| `LateHandler` | `DemotionRecorded` | a handler that is late by more than the one-second sleep erases the record of the demotion |
| `ShippedPolicies` | `ValidIsInForce` | the upper bound 10000000000 of the shipped policies.xml does not fit the int of `stoi`: the element is rejected, with it the file, and no pass ever demotes anything |

### Departures without a run of their own

The models have these behaviours too, behind a parameter or an exception in a
property; changing the value named here in a cfg makes TLC find the trace.

- An upload fails, its result is not looked at, and the placeholder truncates the
  only copy: `"put"` in `S3Faults`, `ContentSomewhere` (`Supervisor.cpp:198`).
- Stopped between placeholder and mark and started again, supervise uploads the
  placeholder over the content: `Restart`, `ContentSomewhere`.
- Is_Open is a flag: the daemon's own CLOSE clears it under a user who still has
  the file open: `LongOpens`, `OpenRespected`.
- A close after a delete makes a hash with one field, which kills its next reader:
  users who delete without closing make one in `MigrationWild`.
- A file given the name of one in the trash shares its hash, and a recall of the
  trashed one's content overwrites it: `FreshNames = FALSE`,
  `RecallFillsPlaceholders`.
- A file moved before the second watch is there has no hash, or one under its old
  name, and the setter that follows the failed RENAME kills the handler:
  `Patient = FALSE`, `CatchesUp`.
- A file that takes the old name of a renamed cold file shares its object, and its
  demotion overwrites the content of the other: cold `a` is moved to `b`, a new `a` is
  created and demoted. `FreshNames = FALSE` in `MigrationRename`, `Reachable`; two names
  are enough. `Housekeeping` has such files, but `Demote` leaves them alone.
- A file that is born open, as the stack had it, is never demoted until something
  closes it; `DemotesTheGivenUp` says that a file so marked is left, whoever marked it.
- Where there is daylight saving, the time that a demotion writes back may be read
  an hour late, and so may the one before it: a file that is just past its age is demoted,
  and promoted by the next pass. `NoSelfPromotion` excepts it (`Slack`).
- A handler that is late may be fetching a file back while a demotion of the same
  file uploads and removes it: the recall deletes the object last, and the content is
  gone from both places: `Prompt = FALSE` in `MigrationWild`, `DeletedIsBack`.
- The `ready` flag is of now and the copy of before: a reload in the midst of a walk
  leaves the migrator with freed pointers (`disturbed`). Nothing else does.
- After a file that fails to parse, the promotion pass uses the lists before the
  failure, since it does not look at `ready` (`PassesUseWholeLists` says so).
- A stack value makes the parser reject a valid element, `ParsedIsMeant` being about
  what is accepted: `ValidIsInForce` fails for `SmallGarbage`, too. Ages of 69 years
  and more overflow (`AgeFits`).
- The generator accepts Y, and takes it for no (`capital`); a word where it expects a
  number makes the prompt repeat itself for ever (`Jam`).
- A process that is killed between ZREM and ZADD leaves the file in no query's
  answer, and a rename that overlaps another call may do so (`strayed`).

And of the same kind: `GetObject`'s result is ignored as `PutObject`'s is (`FileEventHandler.cpp:135`,
`Supervisor.cpp:267`): the empty placeholder is then on record as the file. The
age in the bounce-back test is that of the scan (`Supervisor.cpp:184`), so a file
used while it waits in the list is demoted all the same: `NoBounceBack` needs
`Quiet`. Both time queries include the threshold (`Redis_Scanner.cpp:170,190`),
which `TimePolicy::isFileKept` excludes. The daemon's own opens are counted as
accesses (`FileEventHandler.cpp:144`), so that a hits policy can promote what was
just demoted: `NoSelfPromotion` excludes policies that count accesses.

### Fairness

- `MigrationRecall`: weak fairness of the handler's process, which blocks in
  `read()` and nowhere else, so that it takes its next call as long as there is one.
- `Housekeeping`: the same, and weak fairness of `initialize`, which waits for
  nobody.
- `PolicyReload`: weak fairness of the policy thread: its `sleep` returns and nothing
  else blocks it. `EditTakesEffect` has an edit that is not edited again as its
  hypothesis, and the end of the process by undefined behaviour as an alternative.

Nothing is assumed of the migrator, of users, of the clock or of the operator.

### Other bounds

- `PolicyReload`: five files and a broken one, which between them have two lists, a
  good list before a bad one, an empty list, two policies in a list, an age that
  overflows, the order of bounds that the stack may spoil, an empty tag, and no list
  at all. An int goes up to 99 and a year has 40 seconds: only which numbers fit
  matters. The stack holds -1, 0 or 99, so that it is below, between and above the
  numbers of the file. Two cells are what the largest file needs, so that cells are
  used again after they are freed, under old pointers.
- `ShippedPolicies`: the shipped file in the same scale, with a stack that helps.
- `Store`: two files, so that a rename has both its ends; two processes, as the
  program has; three calls, so that two may overlap and a third finds what they
  leave, or a query reads between them. A count of accesses stops at 2.
- `Housekeeping`: two names, two contents, three events waiting, enough for a move
  and another event behind a step of the handler.
- `Generator`: two lists of two, so that both flags are set again once.

### Bounds in Tiering

A unit of time is a minute; the bounce-back limit is one, and so is a pass with its
pause. The hour that daylight saving is about is one unit, too: short against the
ages of the policies (two to four units), as the hour is against ages in days, and
long enough to carry a file over the bounce-back limit and over an age. Eight units
let a file age past a policy, be demoted, be left cold, be taken back after a policy
change or after a reading that is off, and be demoted again. Two sizes, one of them
on a bound, and four accesses put a file on either side of every policy and on its edge. One file:
a file is selected by its own metadata alone as long as file names are different, which
`AllListsDemote` and the theorems show for any number of files; the run is about the
long histories of one. The slack is tight: with two hours instead of three, TLC finds a
file promoted back.

## Theorems

TLC shows the above for small instances. TLAPS proves, for every value of the
constants:

- `MigrationProofs!TypeCorrect`: `Spec => []TypeOK`. `TypeOK` alone is not
  inductive: calls on the file at hand index the stores with `cur`, `hfile` and
  `oldName`, which are `None` at other times. The invariant `IInv` adds `AtWork`:
  a process at one of these calls has a file at hand. There is one lemma per
  group of actions and one step per action in it (`DemotionKeeps`,
  `PromotionKeeps`, `UsersKeep`, `TimeKeeps`, `OperatorKeeps`; and in
  `HandlerProofs`, which `Housekeeping` uses as well, `EventKeeps`, `RecallKeeps`,
  `CallKeeps`).
- `MigrationProofs!ColdAlwaysMarked`: `Spec => []ColdIsMarked`, under `Settled`: the
  sleeps are long enough (`Prompt`) and users open, read and write files but do
  not create, remove or rename them. S3 may fail and both processes may be killed
  at any call. The inductive invariant `MarkInv` says why the two flags, set and
  read one by one by two processes, never meet wrongly: from the mark to the flag
  that makes the file cold, the handler has nothing in hand or in its queue that
  could erase that hash, replace it or clear its mark (`BetweenMarks`,
  `Undisturbed`), because the sleep before the mark ends with an empty queue and
  the placeholder's own events find the file local; whoever is about to clear a
  mark has made the file hot (`ClearedWhenHot`), and a demotion writes back a
  hash that was local (`LocalListed`). `LateHandler` shows what happens without
  the first half of `Settled`.
- `MigrationProofs!OnlyWhatIsBackGoes`: `Spec => DeletedIsBack`, under `Unmoved`: the
  sleeps are long enough and nothing is renamed. Nothing else is assumed, in
  particular not that users are quiet: they may write to a file while it is moved or
  fetched, remove it while it is open and go on writing to what they removed; S3 may
  fail at any call, and both processes may be killed and supervise started again. In
  that world content is lost (the departures above), but never by a deletion in the
  bucket. The invariant `DeleteInv` has three parts, each resting on those before
  it. `OwnInv`: without moves a hash, a listed FileData and the object in the handler's hand name
  the file they belong to and no other object (`Own`). `DemotedIsLocal`: the hash of a
  listed file stays local until its demotion marks it cold, so that the handler, which
  fetches only cold files, cannot get as far as fetching one that is being uploaded
  and removed. `BackInv`: who is about to write has the body that is in the object, if
  the object is still there; who is about to delete it finds it gone, or finds the file
  with its content or with something newer (`Back`). Both processes may be at that
  point for the same file at once: either write brings the body of the object, and
  either deletion may come first.
- `SafetyProofs!Safety`: `Calm => (Spec => [](IInv /\ SafetyInv))`, for any number of
  files and contents. `Calm` is the world that the code counts on, the one of
  `MigrationAssumed`, `MigrationRecall` and `MigrationStopped` together: the sleeps are long enough, users
  leave a file alone while it is moved or fetched, do not keep it open for more than
  a minute and do not move files; S3 may fail to delete; supervise may be killed at
  any call, for good. Each of these is needed: the departures above, and
  `LateHandler`, show what happens without it. Files that keep their names share nothing, so the
  invariant is stated file by file (`FileInv`) and a step on one file is shown to
  leave the others alone. The parts:
  - `HashIffFile`: what the queue will make of the hash. `ServedWith` and
    `ServedWithout` say that no event is waiting that would find no hash, `WillStand`
    that there will be a hash at the end if, and only if, there is a file.
  - `DiskHolds`, `Somewhere`, `ColdLeads`, `LocalIsTrue`: a name holds what its user
    wrote, a placeholder, or nothing for the three calls between removal and
    placeholder; and where the placeholder is, the object is and the hash leads to it.
  - `Demotion1`, `Demotion2`, `Promotion1`, `Recall`: what a process has found out and
    still relies on at each call, of its copies (`todo`, `hremote`, `hgot`) too.
    A file on the list is as the scan found it but for a close, since an open would
    have made it young, or is kept off by `Quiet`.
  - `MarkIsTrue`, `ColdIsFresh`, `OpenIsRecent`: the flags and ages that the other
    process tests.
- What follows from it, in the same module: `NothingLost` (`ContentSomewhere`),
  `NobodyDies` (`NoCrash`), `YoungStay` (`NoBounceBack`), `OpenStay`
  (`OpenRespected`), `DemotionsRecorded` (`DemotionRecorded`), `DeletesLoseNothing`
  (`DeleteKeepsContent`); and, when supervise is not killed (`CalmForEver`),
  `NothingStranded` (`Reachable`), `CatalogueTrue` (`CatalogueAgrees`) and
- `SafetyProofs!IsADirectory`: `Spec => ImplementsDirectory`, the refinement of
  `Directory`. `Content` of a file is what its user wrote to it in every reachable
  state; so a step of the daemons is a stutter, and one of a user is that user's
  step in `Directory`.
- `HousekeepingProofs!HousekeepingTypeCorrect`: `Spec => []TypeOK` for
  `Housekeeping`, whatever users and S3 do.
- `HousekeepingProofs!TidyingIsCatalogued` (`BothCatalogued`), `NothingIsStranded`
  (`TidyingStrandsNothing`) and `RecallsAreHarmless` (`RecallFillsPlaceholders`), for
  any number of files and contents and a queue of any length, under `Tidy`: users are
  patient and names are fresh, and S3 does not fail to download. Each is needed: the
  departures above show what happens to impatient users and to names in use, and a
  download that fails leaves a placeholder on record as the file. Unlike in
  `Safety`, files do share something: objects keep their names through moves, and
  the hash of a file is, for a while, under another name. So the invariant
  (`HousekeepingInv`) is not about the hash of a file but about what the events that
  wait will make of all of them. A *forecast* is a sequence of views of the
  catalogue, from the one that the handler will leave when it is through with the
  event at hand (`View`, `Now`) to one that is true of the two directories (`Fits`);
  from one to the next leads an event that finds what it needs (`Follows`), so the
  handler survives them all. `Traced` says that an object in a view has always been in
  some hash, and in that of the same file unless a move brings it: this is what keeps
  a file from being stranded in between. `HotAfter` and `HotAlways` say that a file
  that is opened is fetched once and stays where it is; `Wants` and `Fetchable`, that
  whatever a waiting open will fetch is there. Users add a view at the end
  (`UserForetells`), the handler drops the first (`ReadForetells`) or makes it true
  (`CallForetells`), and when nothing waits the only view is the present one
  (`HeardSettled`). `Coherent` has what else the calls rely on; `Starting`, what
  `initialize` has catalogued so far. That there is a forecast is all that the proof
  needs; TLC computes it, event by event, and checks the invariant of it
  (`ForecastIsTrue`).
- `StoreProofs!CallsMend`: `Spec => []StoreInv`, for any files and values, any number of
  processes, any interleaving of their commands, and processes that are killed
  between two of them. It says of the commands that a process has *still to send*
  that they mend what those before them have broken. `Shape` is what the rest
  of any method looks like: a ZREM is followed by a ZADD or by the DEL, an HSET by the
  update of its sorted set, and so on; it is kept by each command, and by HGETALL, which
  replaces the rest. `Overlaps` and `Undisturbed` are about calls that meet no other: what they
  have read is still so. `Covered` (no file drops out of a set for good) survives
  overlapping calls, `Fresh` (the scores are those of the hash) does not, which is
  why the two are apart.
- From it, `StoreTypeCorrect` (`TypeOK`), `NothingDropsOut` (`NothingGetsLost`),
  `SetsAgree` (`IndexAgrees`), and with one more invariant, `Asked`, on what a query
  has read and what it has still to read, `AnswersAreRight` (`QueriesAreRight`).
- `StoreProofs!CallsAreAtomic`: `Spec => ImplementsAtomicStore`, the refinement of
  `AtomicStore`. Until a call is through, `known` has what was and the rest of its
  program what will be. `Promises` (theorem `PromisesKept`) puts the two together: the call has
  written nothing yet (`Unwritten`), or the HSETs that are left make of the hash what
  one step of `AtomicStore` may make of what was known (`Underway`), or it has
  renamed the file (`Moved`). So each command but the last of a call is a stutter,
  and the last one is the step of `AtomicStore`, except HMSET, which is that step by itself;
  a call that meets another, or is cut short, is a `Disturb`.
- `TieringProofs!TieringTypeCorrect`: the same for `Tiering`.
- `TieringProofs!DemotionsAgree`: `Spec => DemotesTheGivenUp`, for any number of
  lists of any policies, files that are marked as open or were born so, and any
  reading of the times. It rests on what each operator returns:
  `FallsOutIsNotKept` (a query is the complement of `isFileKept`), `UnionIsUnion`,
  `OneListDemotes`, `AllListsDemote`.
- `TieringProofs!NoDemotionUndone`: `Spec => NoSelfPromotion`. The inductive
  invariant `ColdIsUnwanted` says that a cold file, demoted under the policies in
  force, is out of some policy of every list: it does not meet it, or it is so near to
  an age that daylight saving may have carried it over (`IsOut`, `Slack`). Time only
  takes a file further from a time policy (`StaysOut`), the pause after a demotion pass
  takes it off the threshold that both queries include, and the score that the demotion
  leaves is three readings away from the time before it (`ReadThreeTimes`,
  `GivenUpIsOut`), since a score is always one reading of the time in the hash
  (`ScoresAreRead`). It is what would break if `setLastTimeModified` did not restore the
  age, or if the pause were zero. Where there is no daylight saving, `Slack` is zero and
  the theorem says that no demotion is undone.

- `PolicyProofs!PolicyTypeCorrect` and `PolicyProofs!ReadyIsWhole`: `Spec => []TypeOK`
  and `Spec => []ReadyMeansWhole` for `PolicyReload`, for any policy files, edited at
  any time, any memory and any stack. The invariant `IInv` says what the lists hold at
  each point of the policy thread (`Threads`): while it parses the list `at`, all
  lists before that are rendered (`Rendered`) and the one at hand is begun (`Begun`);
  when it opens a file there is nothing; and `ready` is only set while it sleeps over
  a file that is rendered to its end. `RendersKept` is why new policies do not
  disturb old ones: they go to free cells.
- `PolicyProofs!PoliciesAsMeant`: `Spec => []ParsedIsMeant`, from `ReadyIsWhole` and
  `MadeIsMeant`: the loop has compared the bounds at the last child as
  well, after both were assigned, so what the stack held no longer matters.
- `PolicyProofs!WalksAreLive`: `Spec => []WalksLivePolicies`. The invariant (`LInv`)
  is that all pointers of `policyList` are live unless a `clear` is under way
  (`ListsLive`), and that an undisturbed copy has only those.
- `PolicyProofs!PassesAreWhole`: `Spec => []PassesUseWholeLists`. Between reloads the
  lists in memory are those of the file (`OfTheFile`), and a pass starts with nothing
  used (`StartsAnew`). In a pass that no reload disturbs, the lists it has used, the
  one at hand and those to come (`Coming`, `Joins`) are lists of the file (`Sound`), and all of
  them (`Exhaustive`).

- `GeneratorProofs!GeneratedIsAsAsked`: `Spec => []FileIsAsAsked`, for any number of
  lists and policies and any numbers, if the stack may hold both 0 and the greatest
  int (`AnyStack`: the property says which policies the parser *may* make of an
  element, and there must be a stack that lets it). The dialogue keeps `DialogueInv`: the flags of
  the two loops are booleans, and the file has at every prompt what was asked for up
  to there, list by list (`SoFar`, `Writes`), with a list that is still empty only
  where the inner loop is sure to ask for a policy (`Fresh`). That each element is
  read as it was asked for (`AsAsked`) is a matter of the parser alone, one lemma per
  type of policy (`SizeAsAsked`, `HitsAsAsked`, and so on). Of the sums over the six
  units of an age, which the library computes by choosing one after the other,
  `SixTerms` shows that the choices do not matter.

The theorems of `TieringProofs` other than the first assume `DistinctFileNames`:
one directory has no two files of a name, so the `unique()` by name in `findUnion`
drops nothing. Apart from that, the assumptions are the named ones of the modules.

Before `SafetyInv`, `StoreInv`, `Promises` and `HousekeepingInv` were proved, TLC
checked them as invariants of the runs, and `SafetyInv` for being inductive, on instances with one
file. The proofs have one lemma per action and one step per part of the invariant.

Model-checked only:

- `RecallCompletes`, `CatchesUp` and `EditTakesEffect`, which are liveness properties
  under fairness and out of the prover's reach.
- `Reachable`, `CatalogueAgrees`, `ImplementsDirectory` and `DeleteKeepsContent` with
  moves (`MigrationRename`), for users who use no name of an object again. S3 does not
  fail there, and a user who reads a file does not keep it open: leftover objects and
  open files are in the other runs, moves in this one.
- `ForecastIsTrue`: that the forecast which TLC computes from the queue is one in the
  sense of the theorems about `Housekeeping`. It is computed by recursion over the
  queue, so it takes induction over data; the theorems rest on there being one.

## Not modelled

- A second run of `initialize`, which would record placeholders as files (the
  program's README says to run it once), and files in the trash before the first.
- Moves to and from directories that nobody watches, moves onto a name in use,
  opens of files in the trash, and an overflow of the inotify queue.
- Demotions while there is something in the trash: a trashed file keeps its hash, so
  that supervise may select it, and fail to upload it.
- The member "" that a rename without a source adds to the sorted sets.
- `ifstream` and `ofstream` errors, a full disk, a lost connection to Redis.
- Buckets, listing and the other calls of the connector that only its tester makes;
  the double fork of `daemonize`.
- libxml2 and redox, which is in the repository as third-party headers: the one is
  taken to deliver the tree, the other to send synchronous commands in order and to
  return their replies.
- The test programs and scripts, which drive the parts above and keep no state.

## Plan

1. Theorems about `Migration` with moves, under `FreshNames`: `Reachable` and
   `ImplementsDirectory` for any number of names, with the forecasts of
   `HousekeepingInvariant` next to what `SafetyInv` says of the calls of supervise.
2. `Housekeeping` with moves across unwatched directories and with supervise running
   while the trash is full; `Migration` with a second run of `initialize`.
