# tgserver in TLA+

tgserver is a small socket framework in C: a main process accepts connections
and forks one process for every client; each client process runs a reader
thread and a response thread and calls the services that were loaded as
plugins. One of the plugins, `gis-service`, brings its own copy of the spatial
index library 1.7.1, which is most of the repository's code.

This directory holds a specification of both, the TLC runs that check it on
small instances, and TLAPS proofs of the properties that matter most for
instances of any size. Line numbers refer to the sources (`src/` in the map of
`PROJECT.json`); paths of the library are relative to
`plugins/gis-service/spatialindex-src-1.7.1`.

## 1. The system

### Components, state, operations

| component | state | operations | source |
|---|---|---|---|
| event queue | `pHead`, `pTail`, `queueCount`; `event_mutex`, `event_cond` | `pushEventToQueue`, `head`, `freeTGEvent`; `__send_thread_signal`; the loop of `__deamon_response` | tg_event.c, tg_process.c 42-57, 114-135 |
| admission and registration | `g_clients`, `clients_ar_size`, `curClientCounts` | `do_accept`, `addClient`, `appendClient`, `closeClient`, `__handle_child_quit_signal` | tg_process.c 208-272, 339-355; tg_context.c |
| client process | the `TGClient`, its socket and pipe, the services' state | `__do_request`, `__deamon_read`, `read_data_from_cli`, `read_data_from_main_process`, the six event handlers | tg_process.c 60-160, tg_process_reader.c, tg_process_response.c |
| shutdown | the table, `g_context` | `__handle_host_shutdown_signal`, `sendSignalToAllClients`, `closeAllClient`, `release` | tg_process.c 357-380, tg_context.c |
| administration pipe | `/tmp/tgp`, `/tmp/tgo` | `open_admin_pipe`, `do_admin`, `write_data` | tg_process.c 384-441, tg_process_admin.c, bin/*.sh |
| descriptors, main loop | `listenfd`, sockets, pipes | `do_accept`, `startListen`, the closing on both sides of a fork | tg_process.c 208-336, 449-506 |
| service registry | `g_services`, `g_services_counts`, parameters | `loadService`, `addService`, `findServiceN/I`, `setServiceCreateParameters`, `unLoadService` | tg_service.c |
| life cycle of services | `pGlobalData` | `createAllServices`, `initAllServices`, `releaseAllServices`, `destroyAllServices` | tg_service.c 380-450, tg_server.c 331-335 |
| start-up, configuration | `g_context` | `init_context`, `init_plugin`, `__read_conf_file` | tg_server.c, main.c |
| string helpers | none | `findSeparator`, `lastFindSeparator`, `getLibName` | tg_util.c |
| library: storage | table of pages, stack of empty pages, two files, a buffer | `storeByteArray`, `loadByteArray`, `deleteByteArray`, `flush`, `clear` | src/storagemanager |
| library: R-tree | nodes, root, heights, statistics | `insertData`, `deleteData`, the queries, bulk loading, in three variants | src/rtree, src/spatialindex |
| library: multi-version R-tree | nodes with times, table of roots | `insertData`, `deleteData`, queries over a time | src/mvrtree |
| library: settings, C interface | properties, headers, stack of errors | the constructors of the three trees, `sidx_api.cc` | src/capi, the three trees |
| log, demos, tests, TPR-tree's nodes, rest of the library | - | - | tg_log.c, plugins/, test/, src/tprtree, src/tools |

### How they interact

* The main process forks a client process for every connection. The child has
  a copy of everything, `curClientCounts` included, and compares that copy with
  the limit. Two pipes are made for each child; the main process writes
  `tg://1003/` (shutdown) and `tg://1005` (close) into one, and nothing reads
  the other.
* In a client process the reader thread turns bytes from the client and
  messages from the main process into events; the queue takes them to the
  response thread, which calls services and writes to the client. Only the
  response thread ends the process.
* SIGCHLD runs `closeClient` and SIGTERM runs the whole shutdown in a signal
  handler, between any two instructions of the main loop.
* A thread of the main process creates the services while the main loop already
  forks children, which keep what they copied.
* Scripts write commands into a FIFO that outlives the server.
* A service that uses the library goes through the C interface to a tree, which
  loads and stores its nodes in a buffer over two files.

### What is hard

Memory shared by two threads (queue, `TGClient`) and by a loop with its signal
handlers (table, count); signals that coalesce; a limit checked on a snapshot;
clients that stall in the middle of a message, stop reading, close or reset at
any time; SIGPIPE, which nothing catches; a shutdown that interrupts anything;
commands that run together in a pipe; arrays that end where a walk meets NULL;
descriptors that every fork copies. In the library: pages overwritten in place
under a table that only a destructor saves; writes that fail between two
steps; reorganisations of a tree that insert and delete while they go up it;
versions that must never change the past; opening and settings that must fit.
`PROJECT.json` lists each hazard with its line and with the properties that
would catch it.

### What correctness means

* Queue: first in first out, nothing lost, leaked or freed early, no lost
  wakeup, every event handled.
* Table: the limit holds, every child is known, every exit is collected.
* Client process: services see init, requests, release in this order; requests
  are handled once each in the order read; a client that leaves takes its
  process with it; a message of the main process is obeyed.
* Shutdown: every registered child is told, and the shutdown ends.
* Administration: a command read alone is obeyed, only the client asked for is
  closed, a shutdown needs a command for it, a listing is complete.
* Services: called in the order of loading, with every parameter given to
  them; a child forked late has everything that was created.
* Descriptors: a client sees its connection end, a child holds only its own.
* Storage: no page in two places; an array is what was stored last; a failure
  harms only what was being written.
* Trees: bounds, levels and statistics are true after every operation; queries
  give what looking at everything would; a tree is a set of data, a versioned
  tree one for every time.
* C interface: a call that fails says so and harms no stored tree it was not
  asked to overwrite; a tree reopened has the settings it had.

## 2. Modules

| module | what it is |
|---|---|
| `EventFifo` | abstract FIFO queue with a consumer that holds one event |
| `EventQueue` | the linked list, mutex, condition variable and two threads; implements `EventFifo` |
| `ClientTable` | admission, registration and the SIGCHLD handler |
| `ClientProcess` | the threads of a client process, composed with `EventFifo` as its queue |
| `ServerShutdown` | the shutdown on top of `ClientTable` |
| `AdminPipe` | the FIFO, its reader and the scripts that write to it |
| `Descriptors` | who holds which descriptor |
| `ServiceRegistry` | the arrays of services and of create parameters |
| `Startup` | the arguments and the configuration file |
| `ServiceLifecycle` | create, init, release and destroy across processes |
| `StringHelpers` | `findSeparator`, `lastFindSeparator`, `getLibName` |
| `PageStore` | abstract store of arrays under ids, with failures and restarts |
| `DiskStorage` | the disk manager, as functions of its state |
| `PageBuffer` | the buffer over `DiskStorage` through ends, failures and restarts; implements `PageStore` |
| `Regions` | rectangles |
| `TreeQueries` | the search for a leaf, the range query and the self-join, and what they rely on |
| `RTree`, `BulkLoader` | the R-tree and its loader, as functions of its state |
| `SpatialIndex` | abstract index: a set of data |
| `TreeIndex` | the life of an R-tree; implements `SpatialIndex` |
| `LoadedIndex` | the same for a tree that may be bulk loaded when it is made |
| `MVRTree`, `VersionedIndex` | the multi-version R-tree and its life |
| `TreeSettings` | how the trees take, check, store and tell their settings |
| `CInterface` | the C interface on top of it |
| `MCEventQueue`, `MCClientTable`, `MCClientProcess`, `MCServerShutdown`, `MCServerParts`, `MCStorage`, `MCTrees` | the instances that TLC checks |
| `EventQueueProofs`, `ServerShutdownProofs` (with the theorems about `ClientTable`), `ClientProcessProofs`, `ServerPartsProofs`, `PageBufferProofs`, `CInterfaceProofs` | invariants, action properties and refinements, proved |
| `TreeInsertionProofs` | the queries, the splits and the insertion of the R-tree, proved |
| `TreeProofs` | its deletion, its invariant, its refinement of `SpatialIndex` and the query for neighbors, proved |

The modules of the server compose by `EXTENDS` and `INSTANCE` where the parts
share state: `ServerShutdown` extends `ClientTable`, `ClientProcess` instantiates
`EventFifo`, `PageBuffer` extends `DiskStorage`, `CInterface` extends
`TreeSettings`, `TreeIndex` the tree of `RTree` and `TreeQueries`, and
`LoadedIndex` adds `BulkLoader` to it.
`MCServerParts` and `MCTrees` put parts that share no state into one run: a
behaviour is one of one of the parts, chosen at its start, and the others stand
still. `MCServerParts` extends its six parts; `MCTrees` extends `CInterface` and
`LoadedIndex` and instantiates `VersionedIndex`.

### EventQueue

A step is the code between two points where the other thread could see a
difference. The list operations are split into the writes that matter
(`PushLink`, `PushTail`; `HeadRead`, `HeadAdvance`), so that it is the mutex
which makes them safe and not the grain of the model. `pthread_cond_wait` is
three steps: give the mutex back and sleep (`CondWait`), be woken by a signal
(`CondSignal`) or by nothing (`SpuriousWakeup`), take the mutex again
(`CondReturn`). `Node` is the set of addresses malloc can return; an address
comes back after its free. What a handler does takes time and nothing else
here. `getQueueSize` and `cancelAllEvent` have no caller in the program.

`NoLostWakeup` relates the sleep of one thread to where the other is.
`MemoryOK` says that the allocated nodes are those queued and the one in hand.
`FifoSpec` is the refinement of `EventFifo`, liveness included; the refinement
mapping reads the contents of the linked nodes in list order.

### ClientTable

The main loop is one process and the SIGCHLD handler another that stops the
first while it runs. The program is compiled without optimisation, so
`curClientCounts++` is `Load` and `Store`; the handler's `curClientCounts--`
is one step, for the main loop cannot interrupt it. `appendClient` is `Copy`,
`FreeOld`, `Swap`: a client closed between the copy and the swap leaves a
freed pointer, `Dangling`, in the new table, and a search of the freed table
can find the slot, miss it or end the process (`CloseCrash`). A pid that has
been collected can be given out again. `snap` is the copy of the count that a
child was forked with; children look at it whenever they come to it.

`ServingLimit` and `NeverUndercounts` are the two halves of one argument: the
count errs on the side of too many clients, so the stale snapshots of the
children never let in one too many. `CountExact` is what the comment on the
counter says, and does not hold (findings).

### ClientProcess

A byte stream is a sequence of units: a whole request, the start of one and
its rest, a message with a length that is not positive, a runt of less than
four bytes. A read takes any number of the units that have arrived, and may
stop inside one; the bytes behind the first message are dropped, as the code
drops them, and what is left of a unit cut in two (`Middle`) can be read as
anything. The threads, `select`, the inner read loop and every event handler
are there; a service returns data, bad data or NULL, and a request string may
be malformed (`CallService`). A write blocks while the client does not read,
and kills the process by SIGPIPE when the connection was reset. After
`destroyClient` has freed the `TGClient`, the reader reads whatever descriptor
the memory holds (`ReadStale`).

Abstracted: the text of requests; the pipe at its end when the main process is
gone, which makes the reader's loop spin without an effect; signals sent to
the client process itself. `no` in `read_data_from_main_process` is four bytes
without a terminator; compiled with the flags of the Makefile it is followed by
`buf`, which begins with a `t`, and `atoi` stops there.

### ServerShutdown

`EXTENDS ClientTable`: its main loop runs until a shutdown starts (`Serve`),
and its SIGCHLD handler goes on through the shutdown (`Collect`), in whatever
is left of the table. SIGTERM starts the shutdown at any step of the main loop
or on top of the SIGCHLD handler, which then stays blocked (`masked`);
`do_admin` starts it from the main loop, and then SIGTERM may start it once
more on top of itself. `closeAllClient` is two steps for each client, as a
released client is still in its slot when SIGCHLD comes. `release` is a step
for each state of `g_clients` a handler could meet.

### AdminPipe

A script appends a command, `tg://1003/`, `1040` or `1041/pid`, to what is at
`/tmp/tgp`: a FIFO of a running server, a FIFO one left behind, whose echo waits
for the next server to open it, or a plain file the script makes itself. One
read of `do_admin` takes up to 20 bytes, so that commands written close together
run into each other and one can be cut; the number is what `Parse` makes of
those bytes. `findClient` returns a client that the SIGCHLD handler may free
before `write_data` uses it, and its pid may go to another child; a listing
walks the table while the handler takes clients out of it. A pid is `Digits`
digits long, which decides with the length of the commands what fits in a read.

### ServiceRegistry, Startup, ServiceLifecycle, StringHelpers

`ServiceRegistry` has the two arrays as `malloc` and `realloc` give them: slots
that were not written are NULL or not (`Heap`), and a search that meets no NULL
ends in `Overrun`. `RegistryInOrder` compares with the list of what was loaded.

`Startup` reduces an argument to what the code tells apart: `-f`, `-s`, `-D` or
a setting, with its name. Arguments are processed in the order given, a file in
the middle of them, and then once more for parameters; `Expanded`, of which
`LastSettingWins` speaks, is the sequence of all of them.

`ServiceLifecycle` separates the call of a service's `create` from the store of
what it returned (`CallCreate`, `StoreGlobal`), and forks may come between.
`LateForksComplete` is what a plugin can rely on.

`StringHelpers` is checked over all strings of up to `MaxLen` characters. The
byte before a string (`before`) is arbitrary: `lastFindSeparator` reads it.

### Descriptors

A descriptor is a pair of what it is an end of and its connection; a set of them
belongs to every process. A fork copies the set of the main process and the table
`g_clients`, and the child closes what `closeAllClient` finds in that copy. The
SIGCHLD handler closes the pipes of a client in the main process, between any
two steps of `do_accept`. `Leaked` names what stays open for good: the ends of a
connection whose fork failed, and `/tmp/tgo` once for every command.

### DiskStorage, PageBuffer, PageStore

`DiskStorage` has no variables: each operation is a function of the state of a
manager, as its code is one of the members of an object. A write may fail, from
which the stream never recovers (`fail`), and the last page written may still be
in the stream (`behind`). `PageBuffer` adds the buffer and the program around
it: it makes the files, opens them, ends, is killed. `PageStore` says what
callers are promised: an array under each id, and after a kill those that were
not touched since the program last ended. It knows one thing of what is below
it, that a write can fail (`state` is "broken" from then on): arrays whose write
failed are in memory only (`failed`), where a `clear` drops them (`Forget`), and
the end of such a program is a failure like a kill and not a `Sync`.

### RTree, TreeQueries, BulkLoader, TreeIndex, LoadedIndex

The code of the tree runs under one lock, so an operation is a function of the
tree: nodes by page, the root, the statistics of the header. The three variants
share the way down and up and differ in `chooseSubtree`, in the split and in the
forced reinsertion of the R*-tree. Coordinates are small integers, on which the
library's doubles are exact; `Far` says on which side of its epsilon they are.
The loader's external sorter is there with its runs, pages and passes.
`TreeIndex` inserts and deletes and asks every query in every state;
`LoadedIndex` may begin with a bulk load; `SpatialIndex` is the set of data that
both implement.

A loop of the code is a recursive function of the number of its turns: the way
up of an insertion (`insertData_impl`: one call of `insertData` for every node of
the path, `Going` until it is `Finished`), `adjustTree`, `condenseTree`, the grouping
of a linear or quadratic split. Two have no number of turns in the code. An
overflow that is treated by reinsertion inserts entries that may overflow other
nodes: `InsertedAt` keeps those that wait in `todo`, in the order of the recursive
calls, and `Rounds` is how many insertions the table allows, each level at most
once; that nothing waits after them is proved (`InsertedAtKeeps`). The query for
neighbors takes the nearest from its queue until it has enough: as often as there
are pages and data, after which the queue is empty (`NearestExact`).

`TreeQueries` has what goes down from the root by the bounds of the entries:
`findLeaf`, which `deleteData` begins with, `rangeQuery` and `selfJoinQuery`, as
recursive functions of a page (or of two pages and a region). The range query's
stack is left out: an answer is a set. What these rely on is stated there too:
`Linked`, every entry of an index node is for a node of the level below, with the
bounds of that node, and every node but the root has such an entry; `Bounded`,
the bounds of a node contain those of its entries. `IndexValid` of `TreeIndex`
contains both, in the stronger forms `LinkedOnce` (an entry each) and
`BoundedTightly` (bounds no wider than needed, where the tree has tight bounds),
beside the numbers of entries and the statistics.

### MVRTree, VersionedIndex

The same for the tree with versions: entries live from a time until a time, an
insertion ends a full node and copies the living entries of it, alone or with
those of a sibling, into new ones. `VersionsExact` asks about every instant and
about three longer intervals. A datum deleted at the time it was inserted
(`Momentary`) can come back in a query that spans that instant, and is allowed to.

### TreeSettings, CInterface

A set of properties is a function from names to values. `New` and `Old` of
`TreeSettings` are the two ways of a constructor, from properties alone and
from a header with properties: each starts from settings of its own and puts
those properties over them that are there (`Over`), checking them one by one.
`Properties` is what a tree tells. `CInterface`
has one action per function of `sidx_api.cc` that changes state: it fills
properties, creates an index in memory or on disk, with or without
`Overwrite`, works on it and destroys it. The stack of errors and the result
of the call are what `FailuresTold` compares.

### Proof modules

Each `...Proofs` module extends the module it is about (`ServerPartsProofs`: the
six modules of parts that share no state); section 4 tells what each proves.
Modules that are proved about use no `RECURSIVE` operator: `BulkLoader` and
`MVRTree`, which do, are in the hands of TLC.

## 3. Runs

| run | cfg | states | shows |
|---|---|---|---|
| `event_queue` | MCEventQueue.cfg | 16 thousand | `TypeOK`, `ListOK`, `MemoryOK`, `NoLostWakeup`, refinement `FifoSpec` |
| `client_table` | MCClientTable.cfg | 430 thousand | `TypeOK`, `ServingLimit`, `NeverUndercounts`, `LiveRegistered`, `ZombiesReaped` |
| `client_table_count` | MCClientTableCount.cfg | until the violation | `CountExact` fails |
| `client_process` | MCClientProcess.cfg | 3.1 million | `ServiceProtocol`, `RequestsInOrder` |
| `client_process_live` | MCClientProcessLive.cfg | 440 thousand | `ClientGoneEnds`, `MessageEnds` |
| `client_process_admin` | MCClientProcessAdmin.cfg | until the violation | `AdminCloses` fails |
| `client_process_release` | MCClientProcessRelease.cfg | until the violation | `ReleasedAtEnd` fails |
| `server_shutdown` | MCServerShutdown.cfg | 530 thousand | `AllTold`, `ShutdownEnds` |
| `server_shutdown_destroy` | MCServerShutdownDestroy.cfg | until the violation | `DestroyedAtEnd` fails |
| `server_parts` | MCServerParts.cfg | 736 thousand | administration: `OneShutdownPerCommand`, `OnlyAskedClosed`, `ListingComplete`, `AloneObeyed`; services: `RegistryInOrder`, `ParametersFit`, `LastSettingWins`, `OptionsDelivered`, `LateForksComplete`; descriptors: `HangsUp`, `HoldsOwn`, `MainAccounted`; strings: `SearchesRight` |
| `storage` | MCStorage.cfg | 1.03 million | `PagesApart`, `LostByFailureOnly`, refinement `ImplementsStore` |
| `trees` | MCTrees.cfg | 59 thousand | R-tree: `IndexValid`, `QueriesExact`, refinement `ImplementsIndex`; versions: `VersionValid`, `VersionsExact`; C interface: `DataKept`, `FailuresTold`, `SettingsFit` |

Each property of a passing run has a mutant in its module, a plausible slip in
the code (a signal only for the first event, a table filled at its end, a loop
that stops at the first hole, a page freed twice, a parent's bound that is not
adjusted), under which the run fails. A mutant stands in front of the
definition it would replace and says so in its comment.

### Bounds

* Three nodes: an empty queue, one node, a middle node, and one node in the
  response thread's hands while two are queued. A push waits for a free node;
  the code has no such wait, and the bound stands for memory.
* Three processes, a limit of two, chunks of one slot and at most three slots:
  appends with live clients in the table, a child over the limit, and ghosts.
  `TableBound` and `CountBound` stop accepting; everything else goes on.
* Three units: a request in front of one that is split in two is the shortest
  stream where a read drops the start of a message and reads its rest as a
  message. The liveness run has two units, enough for every way to stall. One
  message of the main process: of several read together only the first counts.
  A unit is cut in two at most once, and two events are queued at most.
* The shutdown has two processes, three slots and one second of grace: holes
  and ghosts before and behind a live client. A pid is given out again only
  after the table has forgotten it.
* Administration: three commands, of which one can be cut by the 20 bytes of a
  read and hide the next; two connections, two pids and two starts of the
  server, for a ghost whose pid is given out again and for commands left over.
* Services: five of them in an array that grows by two, three parameters in one
  that grows by two; three arguments, a file of one line and two libraries of
  the same name; two services created while two children are forked before,
  between and after.
* Descriptors: three connections, so that one ends, fails or is collected while
  the next is forked and a third holds copies of both; two commands.
* Strings of up to four characters over the separator and two others.
* Storage: arrays of one and of two pages in a file of three, and a buffer that
  holds one, so that each operation evicts, pages are taken from the stack for
  part of an array and the file grows for the rest.
* Trees: data on a grid of 16 by 13, nodes of four or five entries (ten with
  versions, where fewer leave no room between the thresholds), 18 data, of
  which 0, 1, 7 or 14 are bulk loaded, in the memory of the sorter or in up to
  three passes, and 34 or 64 with versions: trees of three levels, splits of
  roots, forced reinsertions, condensed paths. The order of insertion is fixed;
  the deletions are not. The C interface starts from five callers' properties
  and files and changes one property.

### Fairness

* `EventQueue`: both threads are scheduled (weak fairness of their steps) and
  each gets the mutex if it is free again and again (strong fairness of the two
  steps that wait for it). Nothing is assumed of pushes or spurious wakeups.
* `ClientTable`: the main loop runs and signals are delivered.
* `ClientProcess`: the three threads run and plugin functions return; a write
  goes on if the client reads again and again. Nothing is assumed of the client
  or the main process. `MessageEnds` names the cooperation it needs:
  the client does not leave the reader inside a message for ever and does not
  stop to read for ever.
* `ServerShutdown`: the main process runs, sleeps end, signals are delivered.
  Children may run for ever.
* `AdminPipe`: the main loop looks at the pipe after every accept and when
  select says so (weak fairness of `AdminStep`). Nothing is assumed of scripts.
* The other modules state no fairness: nothing there must happen.

### Findings

* `CountExact`: a child that ends before `addClient` registers it becomes a
  ghost: counted for ever, in a slot for ever. A decrement between the load and
  the store of the increment is lost. The server can take one client less each
  time, until it takes none.
* `AdminCloses`: a client in the middle of a request, or one that does not
  read, cannot be closed by the administrator.
* `ReleasedAtEnd`: only the end of the client's stream leads to
  `releaseAllServices`; the other two ways to end a process, and SIGPIPE, do
  not.
* `DestroyedAtEnd`: a write to the pipe of a child that has ended kills the
  main process in the middle of its shutdown; ghosts make this certain.

### Observations

Behaviour that the modules translate, that no line of the repository speaks
against, and that a maintainer may want to know. Properties that hold were
stated so as to allow it.

Server:

* Two commands read together are one unknown command: a shutdown can be
  swallowed (tg_process.c:408). Only a command read alone is obeyed.
* A search for a service that is not there runs behind a full array
  (tg_service.c:295), and `unLoadService` walks the same way (:204).
* A `-D` in a file read by `-f` in front of `-s` finds no service and is lost.
  An unknown key of the file meets a NULL (tg_server.c:179).
* A child forked before the creator thread is done has services without
  `pGlobalData`; `destroyAllServices` calls services that were never created.
* `getCurrentClientCounts` stops at the first hole (tg_context.c:310).
* `lastFindSeparator` may return -2 where there is nothing to find
  (tg_util.c:58).

Storage:

* The library's README says that storing under an unknown id throws; the buffer
  without write-through accepts it, and an eviction finds out later.
* After a kill, the old table of pages meets pages overwritten since; a table is
  written only by `flush`, which only the destructor calls.
* A failed write leaves the stream refusing everything from then on, and an
  eviction that fails removes the entry below. A `clear` that throws leaves
  freed entries in the buffer.

R-tree:

* `touchesRegion` has its conditions the wrong way around (Region.cc:285-302): on
  small coordinates it says yes to everything, on large ones no where a bound is
  shared, and bounds that should be tightened stay wide. They stay correct.
* A bulk-loaded tree counts a level too many in `m_nodesInLevel`, and the counts
  stay wrong when it is changed. The table of treated overflows is as long as
  the tree was high when an insertion began, and is accessed behind its end when
  the root splits and an entry is inserted again above (RTree.cc:1233); no run
  meets that (`outside`).
* `deleteData` looks for shape and id but removes the first entry with the id
  (Leaf.cc:110). `reinsertData` takes the nearest entries to insert
  again, where the R*-tree's authors take the farthest.
* The external sorter does not sort what does not fit in its memory: the
  comparison that sorts a vector upwards puts the greatest record on the top of
  the priority queue of the merge (BulkLoader.h `PQEntry::SortAscending`,
  BulkLoader.cc:227). 0 to 6 in pages of two come out as 1, 3, 5, 6, 0, 2, 4. No
  record is lost and the tree is sound, but its nodes overlap as they would in
  an unsorted load. With one page a merge of several runs never ends.
* With a minimum load of one for index nodes (capacity 4 and a fill factor under one
  half, which `initNew` accepts) a node may be left with one child. A tree that is
  emptied can then end with an index node without entries as its root, and the next
  insertion looks for the child numbered 2^32 - 1 (Index.cc:143-168). The proof of
  deletion led there; the settings of `trees` have two.
* A load whose index nodes take one entry never ends (BulkLoader.cc:388).
* Queries, under a shared lock, write statistics and pools (RTree.cc:1385).
* The header is written when a tree is new and by its destructor, not between.

Multi-version R-tree:

* A datum deleted at the instant of its insertion may be answered by a query
  that spans it.
* `deleteData` takes the last entry with the id, dead or not, and any time for
  the current one (MVRTree.cc:1144).
* A query about an interval `[t, t]` misses what starts at `t`.

C interface:

* `Error_Reset` removes half of the errors.
* A creation that is refused has already emptied the files if it was to
  overwrite them; one without `Overwrite` on missing files makes empty ones.
* `Index_GetLeaves` fills arrays sized by the entries with as many values as
  there are dimensions.
* A bulk-loaded tree keeps an overlap factor beyond small capacities, with
  which it cannot be opened again; a load with too small a fill never ends.
* Insertions into and queries of trees other than R-trees fail, and
  `Index_IsValid`, `Index_GetProperties` and `Index_ClearBuffer` let exceptions
  through.

## 4. Proofs

`EventQueueProofs` proves, for any sets of nodes and events, that `IInv` is an
invariant: types, `MutexOK` (the mutex is held exactly by a thread between its
lock and its unlock), the chain of nodes, the tail, the memory, `NoLostWakeup`,
and what the response thread's program counter says of `pEv`. `MutexOK` is
needed because the other parts are not kept by two threads inside the list
together; distinctness of the listed nodes, because otherwise a write to one
`pNext` field would change the chain elsewhere. From it follow `TypeCorrect`,
`ListCorrect`, `MemoryCorrect`, `WakeupCorrect`, and `QueueRefines`: every step
is a `Put`, a `Take`, a `Done` or a stutter of `EventFifo`. The only assumption
is `NULLAssumption`, that NULL is neither a node nor an event.

The first half of `ServerShutdownProofs` proves, for any finite set of processes, any limit and any
chunk, that its `IInv` is an invariant. Its heart is `CountOK`: the count is at
least the number of children not collected, one less while a client is being
registered, and between `Load` and `Store` the same of the value about to be
stored; a decrement in the meantime goes with a child that was collected.
`AdmitOK` counts the children that serve together with those whose snapshot
will let them serve, because the limit is decided at the fork and not when
the child looks: `ServingLimit` alone is not inductive. `LocalsOK` says what
`appendClient` has copied, for `LiveRegistered`. From it follow `TypeCorrect`,
`LimitRespected`, `CountCovers` and `ChildrenRegistered`. Assumptions:
`PidAssumption`, `LimitAssumption`, `BoundAssumption`.

`ClientProcessProofs` proves `TypeCorrect` and `ServicesRespected` for any
number of units, messages and queued events. `InitFirst` follows the one INIT
event: being made, being pushed, alone at the head of the queue, being handled,
handled. Until it has been handled the response thread has nothing else to do,
and afterwards there is no other, but for one the reader may make of freed
memory when the response thread takes no event any more; `EndOK` says that.
`ReaderOK` is about what the reader holds and about the pipe, which has a
message as long as select said so.

For `RequestsKeepOrder` (`RequestsInOrder`) the invariant is about every event on
its way: what is in the response thread's hands, in the queue and in the reader's
(`Pending`). `InOrder` says that the requests among them are, one by one and in
order, those accepted but not handled: a request has the place in that order
which the number of requests among the first events gives it, and that number
changes by at most one when an event joins at the end or leaves at the front.
Assumptions of all three: `BoundAssumption` and `NullAssumption`.

Its second half proves, for any set of processes, any chunk and any grace period, `ShutdownTyped` and `EveryoneTold` (`AllTold`). Until a shutdown starts
it keeps the invariant of `ClientTable` (`IdleInv`), from which every child has a
slot of the table; from then on no child is added, and `ToldInv` says that a
child not told yet has a slot that the loop has still to reach: closing others
only empties slots. Assumptions: `TimerAssumption` and those of `ClientTable`.

`ServerPartsProofs` proves the parts that `server_parts` checks, each on its own.

* Administration, for any size of the read and of the table, and any number of
  commands, connections and starts: `NoShutdownUnasked`, `NoCloseUnasked`,
  `ListingMissesNone`, `PipeTypeCorrect`. The property of shutdowns says nothing
  of commands still on their way; `CountOK` does: shutdowns done and the heads of
  shutdown commands in the FIFO, with writers waiting or in a file, are together
  no more than the commands written, although reads cut and merge them. `CloseOK`
  carries the reason for a close from the lookup to the message, `TableOK` that a
  number of a connection is never given twice, `WalkOK` what the listing has
  passed. Assumption: `PipeAssumption`.
* Registry: `RegistryKeepsOrder`, `ParametersAlwaysFit`, `RegistryTypeCorrect`, for
  any chunks and whatever fresh memory holds. Services stand before every NULL, so
  that the slot a search stops at is the one behind all of them, and the space for
  parameters is always a whole number of chunks, so that the test for a full one
  is right. Assumption: `RegistryAssumption`.
* Start-up: `LastSettingStays`, `OptionsReach`, `StartTypeCorrect`, for any command
  line and file. `StartInv` says of every prefix of options and lines what is in
  force, while a file is read over the options that came before it (`InForce`,
  `InFile`), and that of libraries with one name the first alone has parameters.
  Assumption: `StartAssumption`.
* Life cycle: `LateForksHaveAll`, `LifeTypeCorrect`; assumption `LifeAssumption`.
* Descriptors, for any connections and any number of commands: `ConnectionsEnd`,
  `ChildrenHoldOwn`, `NothingLeftOver`. `MainOK` says, for each connection, what the
  main process holds of it in every state of `do_accept`; `ChildOK` bounds what a
  child holds before it has closed the rest by the copy of the table it was
  forked with. `CurOK` keeps apart the connection being accepted from those in
  the table. Assumption: `AdminAssumption`.
* Strings of any length: `SearchesFind`. Each loop of `tg_util.c` is a recursive
  function; the first (or last) occurrence satisfies its equation, and where
  another function satisfied it too there would be a position closest to the
  end of the loop where they differ. Assumption: `StringAssumption`.

`PageBufferProofs` is about any arrays, any size of the file and of the buffer,
through failures, kills and restarts.

* `PagesStayApart`: no page of a file is in two places. `Sound` states it page by
  page, which is what a step can be checked against; `BufferInv` says it of the
  manager, of the table in the index file, and that an array dirty in the buffer
  has an entry below. Stores are proved phase by phase: taking pages from the old
  array, from the stack and from the end of the file, and pushing what is left.
* `NoPageLost` (`LostByFailureOnly`): what a store took or gave up is in the new
  array, on the stack or in another array, so that no operation without a failed
  write adds to the pages that are in none.
* `StoreImplemented` (`ImplementsStore`): each step is one of `PageStore` or a
  stutter. `StoreInv` is what relates the two: arrays not touched since the program
  last ended are in the pages where the index file says they are, and nothing
  of them waits in the stream (`Kept`), which is why a kill gives them back; an
  entry of the buffer agrees with the disk unless it is dirty or a write failed
  (`EntryOK`), which is why an eviction or a load changes nothing that a tree
  sees; what is dirty was touched.
* `BufferTypeCorrect`: the buffer never has more than its capacity.

Assumptions: `ArrayAssumption`, `NullAssumption`, `BoundAssumption`,
`CapacityAssumption`.

`CInterfaceProofs` proves `InterfaceSound`, `TreeDataKept` (`DataKept`),
`EveryFailureTold` (`FailuresTold`) and `OpenTreesFit` (`SettingsFit`). Its lemmas
about settings say why the checks of `initNew`, `initOld` and the bulk load are
enough although none looks at everything: every set of properties a caller can
reach has all the names the trees share, what is not checked is a default that
fits, and a tree opened again takes from its header what may not change. The
invariant then says that the trees of a storage are numbered without a gap, so
that the next one harms none, and that an open index holds a tree of its storage
or the next one. Most functions only read or answer (`Reading`, `Harmless`); each
of the others has a lemma. Assumption: `CallerAssumption`, that callers set numbers
and begin with files the library has written.

`TreeInsertionProofs` and `TreeProofs` are about an R-tree of any size and shape.

* Queries. In a tree that is `Linked` and `Bounded`, of any variant,
  `RangeQueryExact`: a range query gives exactly the data that looking at all of
  them would. `SelfJoinExact`: so does the self-join, although it narrows its region
  on the way down; that rests on rectangles having Helly's property, three that
  meet two by two all meet. `SearchExact`: `findLeaf` finds a leaf if and only if the
  datum is stored, and the pages it returns are a way from the leaf up to the
  root. The data under a page are the least set closed under going down (`Under`);
  all data are under the root, because a page of the highest level that had others
  would be under no other; a query is equal to its closed form because the lowest
  page where it were not contradicts its equation. `NearestExact`: the query for k
  neighbors gives the data that fewer than k are nearer than, whichever of equally
  far entries comes out of the queue first; every page and every datum enters the
  queue once, what is still below it is no nearer than the page is, and so what
  has come out is always everything nearer than what has not.
* Splits. `SplitKeeps`: the linear, the quadratic and the R*-tree's split give each
  entry to one of two nodes, with room in both, and with the minimum in each that
  the variant promises. A sort is any sequence that a bijection makes of the entries
  (`Shuffled`); of the seeds only that they differ is needed.
* Forests. While an operation goes on the pages are no tree: entries have been taken
  out and wait. `Works(t, W, X, Y)` describes this state: with the waiting entries `W`
  counted in, every page but the root has one entry, on the level above it, with
  its region (`Forest`, but for the pages `X` whose region changed and whose parent
  was not told yet), nodes have their sizes (`Sizes`, but for the pages `Y`), and the
  counters are true (`Counts`). Writing a page, adding one and taking one out each
  have a lemma.
* Insertion. `InsertionKeeps`: on every node of the way up (`Climbs`) an entry is
  put in, the overflow is treated or the node is split (`Progress`), and at the root
  the result is a tree in which what was taken out waits. `InsertedAtKeeps`: the
  insertions that follow come to an end within `Rounds`, because each that takes
  entries out marks a level of the overflow table that was not marked, and takes out
  at most `cReinsert` of them. `InsertedKeeps`: the tree then has the new datum and
  those it had.
* Deletion. `DeletedKeeps`: `condenseTree` takes underfull nodes out on its way up,
  whose entries wait for the level they came from; a root with one child is
  replaced; the rest is insertions. The tree has lost the datum and nothing else,
  and `deleteData` returns whether it was there.
* Life. `GrownInvariant`: `GrownNow` (the tree `Works` with nothing waiting, its data
  were inserted, its counter is their number) is an invariant of `TreeSpec`. From it
  follow `TreeIsSound`, `TreeIndexValid` and `PlainIndexValid` (`IndexValid`),
  `TreeImplementsIndex` (`ImplementsIndex`) and `TreeQueriesExact` (`QueriesExact`).

These theorems suppose `Suits`: the data have ids of their own and regions that are
not empty, the last of which the constructor of `Region` checks; and the settings
leave room (`Sized`): an index node keeps two entries at least, by its minimum load
and, for an R*-tree, by a split distribution that leaves two on the smaller side;
reinsertion takes out one entry at least and leaves two; and the fill factor of the
other two variants is at most one half, which `initNew` checks. The default settings
of the library, an R*-tree's, do (capacity 100, fill factor 0.7, split distribution
factor 0.4, reinsertion factor 0.3). With less, an index node may keep a single child. A minimum load of one
then lets a tree lose the last entry of its root (observations above), so that the
theorems do not hold there. With only the split distribution smaller no run finds
harm, but the argument, that every index node keeps two, is lost: such trees stay
with TLC. Of the four configurations of `trees` the R*-tree with `nodeSPF` 2 is one
of these, and the other three satisfy `Suits`. `TreeQueriesExact` supposes in addition that queries are regions
(`Askable`). For an R*-tree `TreeIndexValid` allows one thing that `IndexValid` does
not: that a split has asked behind the end of the overflow table, as the
observation above tells; no run meets it.

Only model-checked:

* liveness: `AloneObeyed`, `ZombiesReaped`, `ShutdownEnds`, `ClientGoneEnds`,
  `MessageEnds` and the liveness part of `FifoSpec`;
* of `IndexValid`, that an R*-tree never asks behind its table, and trees whose
  settings are outside `Suits`;
* the bulk load and what is inserted and deleted after it (`LoadedIndex`): the sorter
  and the loader are `RECURSIVE` operators, which the provers cannot expand;
* the multi-version tree (`VersionValid`, `VersionsExact`), for the same reason.

## 5. Not modelled

* The log (formatting only), the demo plugins and the tests.
* Locks inside malloc and printf, which a signal handler can find taken by the
  code it interrupts: every handler of this program could stop there.
* Signals sent to a client process, the text of requests, failing `malloc`.
* The queue of a client process without a bound: at the end of the stream the
  reader pushes a CLIENT_QUIT at every turn until the process ends.
* Of the library: the bytes of nodes and headers, visitors and commands, the
  memory manager, a kill in the middle of the write of the index file, the
  classes of the tools. The nodes of the TPR-tree and the moving points and regions compute integrals of real numbers, which
  the model checker's integers cannot follow; only its settings are here.
* An abstract specification of admission that `ClientTable` would implement:
  `ServingLimit` with `NeverUndercounts` says what it would.

### How to run

`tlc -config MCStorage.cfg MCStorage` and likewise for the other configurations
of section 3; `tlapm PageBufferProofs.tla` and likewise for the other proof modules.
