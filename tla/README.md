# Arrakis in TLA+

Models, model-checking runs and machine-checked proofs for the three programs of
this repository: the server *Atreides*, its clients *Fremen* and *Harkonen*, which
kills clients. File paths below are relative to the repository.

## The system

| part | state | operations | interacts with |
|---|---|---|---|
| Registry of users (`Atreides/src/storage.c`, `hashmap.c`, `login.c`) | `map`, `last_id_assigned`, the register file `build/usr_reg.txt` | load, get identifier, add, register, look up a zipcode, free | called by every thread; survives a restart only through the file |
| Dedicated threads and handlers (`thread.c`, `network.c`) | one `pkt` and one user `u` per thread, the images in `imgs/` | read a packet, take the semaphore, handle it ('C' login, 'S' search, 'F' upload, 'P' photo, 'Q' quit), give the semaphore back | client's socket, registry, semaphore, file system |
| Semaphore (`semaphore_v2.c`) | a System V semaphore, 1 at start, with `SEM_UNDO` | wait, signal, remove | all threads of the server; other processes when the keys are equal |
| Server process (`Atreides.c`) | `ids`, `connected_fds`, `total_threads` | accept loop, `exitAtreides` on SIGINT | creates the threads, broadcasts 'Q' |
| Fremen's protocol (`Fremen/src/network.c`) | `connected`, `usr_id`, `user` | login, search, send, photo, disconnect | server, its own `imgs/` |
| Fremen's loop and cleanup thread (`Fremen.c`, `thread.c`, `utils.c`) | a counting semaphore starting at 2 | prompt and execute, delete images every `countdown` seconds | each other through `imgs/` |
| Command line and history (`commands.c`, `bidirectionallist.c`) | `command_buffer` with its cursor, `last` | normalise, dispatch, store, `last`, `showbuffer` | Fremen's protocol |
| Harkonen (`Harkonen/harkonen.c`) | none between rounds | choose a Fremen from `ps`, `kill -9` it | any Fremen at any step |

What is hard here: the handlers of all clients share the registry, the images and
one lock, which is left taken on several paths; the end of a connection is not
recognised and replays the last packet; a write to a dead client ends the whole
server; memory and disk disagree after a crash in the middle of a login; both sides of
a connection must agree on which packet comes next, although a client can refuse one, be killed,
or be told to disconnect, at any point; the two sides of an image or of a list count by
themselves where it ends, from numbers whose digits are copied into buffers that nobody clears;
and the main thread shares with the threads it makes an argument
that nothing protects. `PROJECT.json` lists each hazard at its line with the properties that
cover it.

What makes each part correct:

* registry: a user has one identifier for ever and no other user has it, in memory, on
  disk and in what clients are told;
* threads: a handler runs alone; an image is filed under the identifier of the client
  who sent it; every client is answered;
* protocol: a client and its thread agree about the command they are in;
* transfer: what was acknowledged stays, what is stored or kept is whole;
* search: every user is printed once, and the command comes back;
* server process: a restart brings back exactly what was registered, every client gets a
  thread, and a shutdown tells all and ends;
* Fremen's loop: the prompt comes back, and a file is not deleted while it is used;
* history: `last <i>` runs the i-th command, whatever came before;
* Harkonen: it kills a Fremen, and nothing else.

## Modules

* `Storage` models the registry. A user is the pair (login, zipcode): the zipcode
  chooses a list, the login a node, so together they are what `STORAGE_getID`
  compares. The chained lists become a function from users to identifiers (the newest
  node of a user is met first). `usr_reg` is the file as a sequence of lines.
* `Atreides` EXTENDS `Storage` and adds the threads, their handlers, the lock, the
  connections, the clients, and the life of the server process. Its variables:

  | variable | in the code |
  |---|---|
  | `pc[s]` | where the thread of connection `s` is in `THREAD_userThread` and in the handler it calls |
  | `pkt`, `u` | the thread's locals of these names (`u` is its `id`, 0 before a login) |
  | `login`, `ret`, `out`, `left` | locals of a handler: the parsed user, the result, the packet to write, the data packets to go |
  | `sem_message`, `imgs`, `up` | the semaphore's value, the identifiers with an image, whether the process runs |
  | `toServer`, `toClient` | what is in each direction of a connection |
  | `cli`, `user`, `usr_id`, `todo` | the client: the step of its command, who it typed, its identifier, packets to go |
  | `answered`, `early`, `late` | history: the sessions whose login got a reply, that were sent more pages of an answer than they read, or fewer |

  One action per step another actor can come between: a `read`, a `write` (`Reply`,
  `SendPage`, `SendChunk`, `WriteChunk`), `SEM_wait`, the change of memory (`LOGIN_loginOK`), the
  write to the file (`RegisterUser`), the return to the loop (`Finish`).
* `UserDirectory` is the abstract specification of identifiers: assign one that nobody
  has, tell it to its user, and nothing else.
* `MCAtreides`, `MCSearch` and `MCTransfer` instantiate `Atreides`, `Search` and `Transfer` for
  TLC.

* `HashMap` is the registry as the code builds it. `table` maps a bucket to its chain, a chain
  is a sequence of nodes, a node has a key and the list of its users (`hashmap.c`,
  `bidirectionallist.c`); buckets are chosen with the signed remainder of C. The server loads
  the file line by line (`LoadLine`, `LoadEnd`), adds a user and registers it in two steps,
  and dies at any point; when the machine stops in the middle of a line (`PowerFailure`) the
  file ends in a part of one (`torn`), over which the loader runs past its buffer
  (`LoadTorn`). It instantiates `Storage` with the map that its lookups answer, and so closes a
  chain: `HashMap` implements `Storage`, which `Atreides` extends, which implements
  `UserDirectory`.
* `Search` is one search after another of one client and its thread
  (`Atreides/src/network.c:133-278`, `Fremen/src/network.c:99-205`). The list of a zipcode is
  the sizes of its users in bytes (`usr_sizes`); `ServerSearch` sends the first page,
  `ServerPage` each other one; `FirstPage` and `MorePage` are the client, with the counters of
  the code (`total_usrs`, `before_usrs_read`, `usrs_read`). `Counted` is the first page of an
  answer, whose number is read with the digits that lie behind it (`Parsed`); `Leftover` is any
  other page in its place, whose first login is taken for the number, so that a login which
  begins with a digit makes the client print a shifted list (`shifted`). `Misnamed` are the users
  printed with the rest of a longer identifier behind theirs. `instep` says of a search that
  it began with an empty connection and read the number as it was sent.
* `Transfer` is an image on its way to the server and back (`Atreides/src/network.c:280-490`,
  `Fremen/src/network.c:208-425`). A data packet is two halves, of which `read` may return one
  (`Reads`); each side has its own count (`bytesCount`, `count_`), buffer (`pkt`, `buf`) and md5
  check (`Verdict`, `CheckCopy`); a file is the image it was made of, its length, and whether its
  bytes are the right ones. The sizes in headers are read by `Parsed`, over what lies behind
  their digits in `mida`. `told` is the verdict that the client acts on and `heard` whether it
  came in a packet: at the end of the connection `ReadVerdict` takes any. `ReplayUpload` is the
  header that a thread processes again, `CleanUp` the cleanup thread of the client, `Kill`,
  `Crash`, `Restart` and `Connect` the processes.
* `AcceptLoop` is the main thread of the server (`Atreides.c`). `main` is where it is in the
  loop or in `exitAtreides`, which SIGINT (`Interrupt`) starts between any two steps; `arg` is
  the argument all threads share; `ids`, `connected_fds` and `total_threads` are the code's. A
  thread is what it does with the semaphore, its copy of the argument, and the map that the
  shutdown frees. `Usable` is the room that glibc leaves behind an array.
* `CommandBuffer` holds the operators of the history: the list with its cursor between two
  phantom nodes, and what `commands.c` does with it.
* `Fremen` EXTENDS `CommandBuffer`: the Fremens of one directory, each with its main thread
  (`pc`), cleanup thread (`cleaner`), history (`hist`), what `SEM_UNDO` will give back for it
  (`adj`), and the last listing a person saw (`screen`). They share one semaphore (`made`,
  `val`), which each start sets to 2 and each orderly exit removes; `knows` is who has the
  identifier of the set that exists. A command that is no program forks (`Unknown`): the child
  whose `execvp` failed is a second Fremen, and its parent waits (`ChildEnds`). `root` and
  `broken` are history: the Fremen that a process descends from, and the families of which one
  was killed that waited for its child while its parent waited for it.
* `Harkonen` EXTENDS `Fremen` with the killer: `getPidToAtack` lists and picks, `killPID`
  kills, with anything in between. The lines of `ps` come in the order of the numbers
  (`ByNumber`).

The theorems are in modules of their own: `AtreidesProofs`, which `DirectoryProofs` and, after
it, `SessionProofs` extend, and `HashMapProofs`, `SearchProofs`, `TransferProofs`,
`AcceptLoopProofs` and `HarkonenProofs`, each about the module it is named after.

Operators named `Mut...` are deliberate defects. Nothing of the specification uses them;
each shows that a property fails when the definition after it is replaced by it.

### Abstractions

Of `Atreides`, `Storage`, `HashMap`:

* Packets are read whole; `Transfer` has the packets that are not.
* The peer of a process that ended still reads what was written before the end, as on
  Linux; after that `read` returns 0 or, on a connection that was reset, an error, and
  the actions take both outcomes where the code tells them apart (`LoginFails`,
  `SearchReply`).
* An image is known by the identifier it is filed under; all are `.jpg`, and `imgs/` is empty
  at first. (The server copies the extension into an array that it does not terminate: a
  file name with something behind the extension is not modelled.)
* A photo is `Chunks` data packets; its checksum agrees exactly when every one of
  them was read from the connection. The server's files change only in
  handlers, a client's files not at all during a command (they do in `Transfer`).
* `Connect` is `connect`, `accept` and the creation of the thread in one step (`AcceptLoop` has
  them apart). A session connects once.
* A new thread's stack is zero, so its first login parses exactly. A second parse by the
  same thread mixes in what the first left in `tok`: any user of `Residues`.
* When the client is gone, the uninitialised `new_pkt` of the photo's acknowledgement
  has any type, and a write may raise SIGPIPE, which ends the process, or be lost.
* What a search is answered is a pair: the packets the server sends and those the client reads,
  from `Answers`. Which pairs occur is computed in `Search`: as many as are sent, fewer (the
  early return of `Fremen/src/network.c:165`) or one more (the wait at `:168`, after a third page,
  a full one, or a number of users that was misread). Any pages that are left are in `toClient` when
  the next command is typed; people type while at most `Backlog`
  packets are unread, the bound of the runs.
* `Leading` is the number that a login begins with: what a client reads out of its own packet
  when its connection ends before the reply.
* All images of `Atreides` have one size and the size is read right: digits behind one
  (`mida`) are in `Transfer`.
* The reply of type 'E' to a login is left out: `newID` is never negative.
* A client that parses a packet of the wrong type is `lost`: its later behaviour is
  not described (in `Search` and `Transfer` too).
* The register file exists when the server starts. In `Atreides` lines are written whole.

Of `Search`:

* The list does not change during the searches. That a page which overflows also overruns the
  array on the server's stack is not followed; that `write` cuts it is.
* What lies behind the digits of a number is a member of `Tails` (a number is multiplied by
  `scale` and `rest` is added), behind those of an identifier at first one of `Stack` digits; a
  login begins with a number of `Leads`, 0 for none.
* A client that waits for a page which is cut off, or for users that are not in the packet, is
  `lost` in what follows the packet in memory. The client scans for `-` before the count, which no
  packet of the server has there.

Of `Transfer`:

* Commands and answers arrive whole; one connection at a time.
* The md5 of a file agrees with another exactly when their bytes do, except that strings which
  are not terminated may differ behind them (`"garbage"` in `faults`).
* The digits behind a size are a member of `Tails`, as in `Search`; that some were read is noted
  in `faults` (`"mida"`).

Of `AcceptLoop`:

* The argument's thread number is left out: it is only printed. A broadcast never blocks.
  Linux delivers SIGINT to the main thread.
* Beyond the room of an array `realloc` of glibc aborts ("realloc(): invalid next size"), or,
  for another allocator, the loop goes on.
* A start that fails (port taken, register file missing) is not modelled.

Of `Fremen` and `Harkonen`:

* A command, and the permit that is given back after it, are one step: what happens during a
  command is in the other modules.
* The numbers of processes grow and are not used again.
* The connection that a forked child shares with its parent is not modelled, nor that the
  server joins the semaphore when `ftok` fails for all of them (key -1).
* A lone Fremen is missed in a scan whose list lacks the line of `grep`; the array that is one
  entry short for its last process (`harkonen.c:101`) is taken to hold it.

## Properties

`TypeOK` (`HarkonenTypeOK` of a host) is the type invariant of each module, with the counters
within their bounds. The others:

`Atreides`

* `MutualExclusion`: at most one thread is between `SEM_wait` and `SEM_signal`, where a
  thread that left its loop with the semaphore counts; the semaphore is 0 exactly then.
* `InStep`: between two commands the connection is empty and the thread listens, or never
  will again; a client takes one packet for another only after it refused a photo
  that is still being sent, or when its thread has ended. The sessions whose client returned
  early from the pages of an answer (`early`) are left out: their connection is not empty.
* `Attributed`: an image is created only under the identifier its sender was told.
* `RegistryConsistent`: one line per user and one user per identifier, on disk.
* `IdentifiersStable`: over connections and restarts, two sessions whose login was answered
  have the same identifier exactly when they logged in as the same user. (At the end of the
  connection a client may read an identifier out of its own login. Such a client is told nothing,
  has no thread, and is in neither this property nor the next.)
* `ImplementsDirectory`: `Spec` implements `UserDirectory!Spec` with the identifiers read
  off the register file. So no answer tells an identifier that is not on disk.
* `ObeysStorage`: `Spec` implements `StorageSpec`: the threads add a user only once it is known
  to be new, and register it with the identifier it was just given.
* `Answered`: a client that waits stops waiting, unless a thread left with the semaphore,
  the server went down, the answer to a search has a page less than the client waits for
  (`late`), or a thread waits with the semaphore for the verdict of a client that took left-over
  pages for a photo's header (`Garbled`).

`HashMap`

* `LookupExact`: a lookup returns each user of the zipcode once, and no other, however keys
  collide.
* `NeverServesTorn`: no server ever answers from, or appends to, a file that was cut short.
* `ImplementsStorage`: the table with its chains and lists implements `Storage!StorageSpec`.

`Search`

* `PagesFollow`: the pages of an answer carry the list in order; only the last may hold more
  than a packet can.
* `PrintedInOrder`: the users a client prints are a prefix of the list, whatever it is sent, each
  under its own identifier but where a longer one was parsed before it, which leaves its last
  digits behind; only a search that found an answer of an earlier one in the connection prints
  logins for identifiers.
* `SearchComplete`: a search that was in step and came back printed all and left nothing behind, if
  there were at most two pages and the first did not hold exactly half of the users.
* `SearchReturns`: a search that is in step comes back, if there were at most two pages and the
  last has room to spare. The conditions of these two are where the code fails: with three pages,
  with a last one that is full, or after reading a digit behind the number of users, the client
  waits for a page that does not come.

`Transfer`

* `AcknowledgedStays`: what a packet told a client is stored stays stored. (At the end of the
  connection no packet tells it anything, and it may report a success of its own making.)
* `RefusedForAReason`: an upload is refused only if an image is there that cannot be written
  again, a packet came in parts, the file was deleted, garbage follows a sum, or digits a size.
* `TornOnlyByCrash`: outside of an upload the image is whole or absent, unless the server died.
* `DownloadTrue`: a photo that is kept is the one that was sent, unless the server died.
* `UploadEnds`: an upload ends, unless its thread has left or something happens to the file,
  the packets or the processes. Digits behind a size are not such an excuse: they leave one state
  in which both sides wait for ever, that of a thread which expects more packets than the image
  has (`Overreads`).

`AcceptLoop`

* `ServesOwnOrLater`: a thread never serves a client that came before its own. (`DedicatedServer`,
  that no two threads serve one client, is violated.)
* `NewestServed`: the newest client gets a thread, unless the next one comes too soon.
* `ToldAtExit`: a complete broadcast misses at most the client that was being set up.
* `FirstThreeSafe`: the writes beyond the arrays can end the process from the fourth client on.
* `ExclusiveUntilRemoved`: one handler at a time until the shutdown removes the semaphore.
* `ExitEnds`: a shutdown ends the process, unless SIGINT came while the heap was locked.

`Fremen` and `Harkonen`

* `LastRunsShown`: what `last <i>` runs is what the last listing shows under i, with the
  commands since then before it.
* `OneReader`: of a Fremen and all that it or its children forked one at most reads the terminal,
  unless one was killed that waited for its child while its own parent waited for it: then that
  parent and that child both go on.
* `PromptReturns`: the prompt comes back, until the starts and empty lines have used up the
  two permits, or a cleanup thread made a semaphore of value 0.
* `AimsAtFremen`: Harkonen aims at a Fremen it listed and never at its own `grep`.

## Runs

| run | instance | shows |
|---|---|---|
| `core` | 2 sessions, 2 users, 2 data packets, answers of 1 and 2 pages that are read, or one more waited for, every command; kills, interrupts, shutdown, SIGPIPE, restart | `TypeOK`, `MutualExclusion`, `InStep`, `Attributed` |
| `registry` | 3 sessions, 2 users and 1 residue; kills, crashes, SIGPIPE, restart | `RegistryConsistent`, `IdentifiersStable`, `ImplementsDirectory`, `ObeysStorage` |
| `live` | 2 sessions, 1 user, 1 data packet, answers of 1 page, and of 2 of which 1 is left or a third is waited for, every command, kills; fairness | `Answered` |
| `hashmap` | 2 logins, postcodes 1 and 2 with or without a minus, 2 buckets, 3 users; crashes, power failures, a file that may not open | `TypeOK`, `LookupExact`, `NeverServesTorn`, `ImplementsStorage` |
| `search` | every list of up to 6 users of 60, 79 or 80 bytes and with identifiers of 1 or 2 digits, pages of 240, 3 searches, logins that begin with 0, 1 or 3, a digit 4 or none behind the number of users; fairness | `TypeOK`, `PagesFollow`, `PrintedInOrder`, `SearchComplete`, `SearchReturns` |
| `transfer` | images of 0, 24 and 241 bytes, a digit 0 or none behind a size, 2 commands, connections of 2 halves; short reads, deletions, kills, crashes, restarts, replays; fairness | `TypeOK`, `AcknowledgedStays`, `RefusedForAReason`, `TornOnlyByCrash`, `DownloadTrue`, `UploadEnds` |
| `accept` | 3 clients, 3 descriptors, 4 threads, SIGINT at any step; fairness | `TypeOK`, `ServesOwnOrLater`, `ToldAtExit`, `FirstThreeSafe`, `ExclusiveUntilRemoved`, `NewestServed`, `ExitEnds` |
| `host` | 3 processes that are started, forked, killed or left, 5 lines (a start counts as two), 4 commands and `last` 0 to 3; fairness | `HarkonenTypeOK`, `LastRunsShown`, `OneReader`, `AimsAtFremen`, `PromptReturns` |
| `dedicated` | 2 clients | violated: two threads read from the second client, none from the first |
| `login_answered` | 2 sessions, logins and interrupts; fairness | violated: one logout, and the next client's login is never answered |
| `register_fails` | 2 sessions, a register file that may not open, crashes | violated: two users are told one identifier |
| `replay` | 1 session that may be killed | violated: a user nobody typed is registered |

Why these bounds are enough to meet the interesting cases: two sessions are what an
interleaving, a leaked lock, or a disagreement between two users needs; three let
one user come back after a crash while another is in the middle of a login. Two users
are what a mixed-up identifier needs. Two data packets make an image with a first
and a last one, so that a refusal or a death falls between them. A session connects
once, so a run sees at most three connections; replayed packets are unbounded.
Sessions, and the users that are typed, are interchangeable, so the safety runs use
symmetry; the runs with fairness do not.

In `hashmap` two postcodes and their negatives are four keys in two buckets: a chain of two
nodes, a collision of signs, and a node with two users all occur with three users. In `search`
60, 79 and 80 bytes make pages that hold two, three or four users and that end with room, exactly
full, one byte short and over; six of them make an answer of one, two and three pages; the
second search meets what the first left in the connection, and the third what the second did. A
page holds two users or more, so a login that begins with 1 is a number of users it has, and 3
one that it may not have; with a 4 behind it any number is too large. In `transfer` the sizes are
none, a part of a packet, and a packet and a byte, so the two counts agree on no packet, one and
two; with a 0 behind them 24 is still one packet, and the upload ends and is refused, and 241 is
more than two, and the thread waits for more. Two halves are a connection that the writer has to
wait for in the middle of a packet that is not read; two commands are an upload, and one over it
or a download of it. In `live` `Backlog` is 0: people type the next command while the left-over
page is still to be written, and it is read as the reply, as it is when they type later; a second
search shifts the replies again. In `accept` a fourth thread is the first that may overrun a
block of the heap, and the one whose `accept` fails for want of a descriptor. In `host` three
processes are a Fremen, another or its child, and a child of that; five lines let two commands be
stored and listed, and `last` reach over the end of the list.

Deadlock is not checked where the system really stops: when every client is gone and the
lock is taken, when the bound on commands is reached, when the process is over. In
`hashmap` it is.

### Fairness

`WF` of each thread's steps and of each client's steps: both are scheduled by the
kernel and block only in `read` or `SEM_wait`. `SF` of `SEM_wait`: a
thread that keeps trying competes with threads that take and give back the semaphore in a
loop, and the semaphore serves a queue (`semaphore_v2.h`: "If counter had the value
zero and there are processes in the queue, the top one has the access to the common
resource granted"). The same reason gives `SF` of `Prompt`, the `SEM_wait` of a Fremen's loop.
Elsewhere `WF` is enough, of the steps that the scheduler alone decides on: the server and the
client of a search and of a transfer, the main thread of the server, a new thread up to its copy
of the argument, a cleanup thread, a parent whose child has ended. Nothing is assumed of
people, of faults, of restarts, or of how often a cleanup thread wakes up.

## Findings

1. `login_answered`: `thread.c:23` leaves the loop between `SEM_wait` and `SEM_signal`.
2. `register_fails`: `login.c:27` only prints that registering failed.
3. `replay`: `thread.c:16` takes the end of a connection for a packet, and `login.c:7`
   parses into an uninitialised buffer.
4. `dedicated`: `Atreides.c:60` gives every thread a pointer to one `arg`, which the loop
   overwrites for the next client before the thread has copied it.

Three more are in the models without a run of their own. `Fremen/src/network.c:51` takes the end
of the connection for a reply to a login, and `:64` reads the identifier out of the client's own
packet (`LoginReply`). `:291` takes it for a verdict on an upload, which is then the type of an
uninitialised packet (`ReadVerdict`). `:134` parses an identifier over the digits of the one
before (`Misnamed`).

## Proofs

All theorems hold for every value of the constants that meets the assumptions named in the
modules (`UsersAssumption`, `ChunksAssumption`, `BucketsAssumption`, `BoundsAssumption`, ...).
They are types, and what the code's own sizes give: `SizesAssumption` of `Search` says that the
count and one user fit in a packet, that of `Transfer` that a packet has two halves and a
connection room for them; `AnswersAssumption` that a client waits for at most one page too many.
Nothing is assumed of schedules or faults but, where it says so, `~RegisterMayFail`. Every safety
property of a passing run is a theorem.

`AtreidesProofs`: `TypeCorrect` (`TypeOK`), `LockSafe` (`MutualExclusion`), `RegistrySafe`
(`RegistryConsistent`, if `~RegisterMayFail`), all from `Invariant`: `Spec => []IInv`. `IInv`
strengthens them where they are not inductive. `LocalsReady`: a local that
is counted down is at least 1 where it is, and a thread about to register
has parsed a user and holds the newest identifier. `Phases`: no thread runs without the
process. `MemoryCoversFile`: the map of a running server has every user of the
file, and the user being registered, who is not in the file. `CounterMatchesFile`:
while registering works, line i has identifier i and the counter is the number of lines,
plus one while a thread is between the counter and the file; the lock is what makes
that "plus one" right. The argument: `LockStep`, `TypeStep`, `ReadyStep` go action by action;
`RegistrySteps` says that a step does one of five things to memory and disk, and
`MemoryStep` and `CounterStep` go through the five; `NextIInv` combines them.

`DirectoryProofs`, if `~RegisterMayFail`: `IdentifiersSafe` (`IdentifiersStable`) and
`DirectoryImplemented` (the refinement `ImplementsDirectory`), from `IInv` and `DirIInv`. The
latter follows an identifier from the disk to the client: what the map holds is on disk but for
the user being registered (`MapOnDisk`), a login that is under way is parsed once, as its own
client's (`LoginUnderWay`), and a number in a reply to it, or kept by a client that was answered,
has a line with the client's user (`SentHonest`, `SessionInv`). A client that reads an identifier
out of its own login is at the end of its connection and never answered. For a refinement step, a
line that is written is `Assign`, a reply that is read is `Tell`, a number read from the client's
own packet a stutter, `Connect` is `Begin`, all else a stutter; that the map read off a file
keeps its entries when a line of a new user is appended is a lemma. Without the assumption both
are false: see finding 2.

`StorageObeyed` (`ObeysStorage`), in `AtreidesProofs` again, needs only that the user who is being
registered has the newest identifier (`NewestRegisters`). With `StorageImplemented` of
`HashMapProofs` it closes the chain from the table and its chains up to `UserDirectory`.

`SessionProofs`: `ImagesAttributed` (`Attributed`), whether registering works or not, and
`StaysInStep` (`InStep`).
`OwnerInv` is for the first: while an image is on its way or in the hands of a thread, or its
client is connected, the thread's `u` is what the client was told, or the thread is about to note
it (`Settled`); the answer to a login is followed from packet to identifier
(`AnswerUnderWay`). It needs that identifiers are positive (`Positive`), since the client keeps
no other.
`TurnsIInv` is for the second. `InStep` looks at two steps of the client only; inductive is what
both directions of the connection hold at every step of a command (`Together`): the first packet
of the command and what the client has written behind it (`Asking`, `Handling`, `Receiving`), the
answer that is decided or sent (`Deciding`, `Told`), the pages of a search, of which those in
the connection and those with the thread are as many as the client still reads, or one less where
it waits for one too many (`Paging`, `Due`), or a photo, of which the packets in the
connection and those with the thread are those that the client still expects (`Announced`,
`Downloading`). Two turns have no way back: after a refused upload the thread only leaves
(`Dismissed`), and behind a refused photo the client may be anywhere, but the thread will read
the refusal before anything else and leave (`Refused`). Of a client that returned early from an
answer (`early`) nothing is said. One lemma per action of the thread and of
the client takes each turn to the next.

`HashMapProofs`: `HashMapTypes`, `LookupsExact` (`LookupExact`), `NoServerOnTornFile`
(`NeverServesTorn`) and `StorageImplemented` (`ImplementsStorage`), for any users, keys and number
of buckets. `InsertLookup` says what a lookup finds after an insertion, in any table and for any
two keys, of one chain or not; the walk along a chain stops at the least index that fits, which
exists by well-founded induction. `HashMapIInv` adds that lists are exact while the file is read,
too (`ListsExact`), that memory has the lines read so far, and nothing else while loading
(`MemoryHasFile`), and that the file has one line for a user (`FileUnique`). For the refinement,
the list of a zipcode has one node with a login, so the map that lookups answer changes as
`Storage`'s does; at the end of the loading it is the map that `Storage` loads at once.

`SearchProofs`: `SearchTypes`, `PagesAreInOrder` (`PagesFollow`), `ListPrintedInOrder`
(`PrintedInOrder`) and `SearchesComplete` (`SearchComplete`), for lists and packets of any size.
`Stream`: the pages in the connection are a part of a sequence of answers, and the server goes on
where they end. `Reading`: a client that waits for more has printed the first pages of an answer,
and, in step, its counters are what those pages make them (`Printed`), one user short for each
page after the first; with a number that was misread only what is printed is known. A user under
another identifier has a longer one before it in the list, or on the stack (`MisnamedHaveLonger`).
`NothingLeft`: where no page is mistaken for the last one (`ExitsAt`), nothing is left over
between two searches; that it is not mistaken in the answers of `SearchComplete` is arithmetic
(`ShortAnswers`). `digits` and the sums of the sizes are recursive functions, which are shown to
exist (`RecursionExists`) and to grow.

`AcceptLoopProofs`: `AcceptLoopTypes`, `OwnOrLater` (`ServesOwnOrLater`), `Exclusive`
(`ExclusiveUntilRemoved`), `ExitTellsAll` (`ToldAtExit`), `FirstThree` (`FirstThreeSafe`), from
`LoopInvariant`: `LoopIInv` adds `LoopCounts`, how the clients accepted, the threads created and
the entries written go together at each point of the loop, before and after `accept` has failed,
and `Guarded`, which threads may be in a handler once the semaphore is removed.

`TransferProofs`: `Acknowledges` (`AcknowledgedStays`), `TornByCrash` (`TornOnlyByCrash`),
`DownloadsTrue` (`DownloadTrue`), for images, packets and connections of any size, from
`TransferInvariant`. `TransferIInv` adds the types that counting needs (`Counting`), that a
sums that a client sends are of whole files (`Sums`), those of the server's headers too unless it
died (`Headers`), that an acknowledgement, even unread, is about an image that is whole and that
nobody is writing (`Stored`), and that a download keeps nothing older than its header
(`Download`).
`TransferTypes` (`TypeOK`) follows from `Typed`, and `RefusedReasons` (`RefusedForAReason`) from
`SyncInvariant`. Its `InSync` is about the time in which nothing happened to the files, the
packets, a size or a sum (`Clean`), and no image is stored that cannot be written again; it says
whose turn it is: the connection holds what the client asked for and nothing else (`Asking`, with
the packets of the image in their order, `Sending`), the confirmation, or what the thread has sent
of a photo (`Announcing`, `Receiving`). An image that is received then is whole, and its sums
agree.

`HarkonenProofs`, for any number of processes, lines and commands, from `HostInvariant`:
* `OneAtTheTerminal` (`OneReader`), from `Family`. That a process with a child waits says too
  little of a grandchild. `Chain`: of any two that live in a family that lost none from its middle,
  the elder waits for a child that is the younger or is between the two; so two cannot both be at
  the terminal. `Numbered`: numbers grow from parent to child, and a parent and its child have the
  same root. A process that ends with only one neighbour, at an end of the chain, keeps it.
* `LastIsShown` (`LastRunsShown`), from `Histories`: but for a process that waits for a child,
  which has a command still to store, the cursor of a history is behind its last command, and the
  screen shows a part of it with the right numbers (`Shows`). What walking back by `last` finds
  is in `BackIs`, `BackSteps` and `BackKeeps`.
* `HarkonenTypes` (`HarkonenTypeOK`), from `Permits` and `Ledger`. The difficult part is the
  bound of the semaphore's value: `SEM_UNDO` of a process that ends gives back what its operations
  took, and operations on a set that was removed are not undone. So the ledger keeps two permits
  for each process that may still give back, beyond what `SEM_UNDO` has for it, and `val` with all
  of them never exceeds two more than two for each process. (A bound of one permit for each process
  holds on the small instance of `host`, and fails with a few more lines.)
* `AimIsTrue` (`AimsAtFremen`), from `Aimed`, and from what the one ascending enumeration of a set
  of numbers looks like (`ByNumber`, `Enumerable`). It exists by well-founded induction, like the
  least unused number that the kernel gives a child.

Only model-checked: liveness (`Answered`, `SearchReturns`, `UploadEnds`, `NewestServed`,
`ExitEnds`, `PromptReturns`), which is out of the prover's reach. The properties that are violated
are so on the instances of their runs. Induction is done by hand, since the library's induction
theorems take an operator: the least counterexample of a set of naturals, by `WFMin`.

## What could be added

1. The server as one more user of the Fremens' semaphore, for the key -1.
2. Sessions that connect again in `Atreides`; two connections in `Transfer`.
3. The safety half of the liveness properties as theorems: that a client which waits always has
   an answer on its way, or a thread that can go on, unless the semaphore is taken for good.
4. The splitting of a line into words, if a property is found that depends on it.

## Not modelled

* Reading the configuration and printing: no state that the parts share. Of `UTILS_itoa` only
  the number of digits is (`digits` in `Search`).
* `md5sum` through a child process: its verdict is modelled, the child is not.
* The splitting of a command line into words and the counting of its arguments: what a
  command does with a right or wrong line is (`Execute` in `Fremen`).
* Programs that a Fremen runs with `execvp`: they share nothing with it but the terminal.
* `THREAD_create`, and the list operations that nothing calls (`addBefore`, `remove`,
  `destroy`).
* The server and the Fremens on one semaphore (key -1), and a server that fails to start.
* The build files.
