# DartSync in TLA+

DartSync keeps a directory identical on several computers. A *tracker* holds the
master copy of the directory's listing and knows which client holds which chunk
of which file; *clients* report edits to the tracker and fetch contents from each
other. This directory holds TLA+ models of the program, their TLC
configurations, and machine-checked proofs about them.

## 1. The system

### Processes and threads

```
 client process                       tracker process
 +----------------------+             +---------------------------+
 | logic   (client.c)   |             | logic    (tracker.c)      |
 |    ^ AsyncQueues v   |             |    ^ AsyncQueues v        |
 | network (network_    |== socket ==>| network  (network_        |
 |          client.c)   |<============|           tracker.c)      |
 +----------------------+             +---------------------------+
        ^  v  sockets to the other clients (chunk requests and chunks)
```

Each process has two threads. Each thread is a loop that visits its sources in
a fixed order and drains each: `main` of `tracker.c` and of `client.c` on the one
side, `tkr_network_start` and `clt_network_start` on the other. They talk through
`AsyncQueue`s, one queue *per kind of message*, so the order between two kinds is
lost: it becomes the order in which a loop visits its queues. The tracker's logic
thread also reads the network thread's peer table directly and without a lock
(`send_FS_update`, `send_got_chunk_update`, `send_master_filetable`).

### Inventory

| component | state | operations | what makes it correct |
|---|---|---|---|
| Tracker logic, `tracker/tracker.c` | peer table of ids with a count, master file system, file table | new client, master request, lost client, chunk announcement, file system update; prune | every listed file has an owner for each chunk; file table and file system agree; peers are identified by ids that are never reused; no assertion fails |
| Tracker network, `tracker/network_tracker.c` | peer table of slots, sockets, queues both ways | accept, read one message per ready socket, six polls, liveliness check | every client is brought to the master's state; items to clients that are gone do no harm; queues drain |
| Client logic, `client/client.c` | the directory, `cur_fs`, `prev_fs`, file table with jobs and ChunkyFiles | queues in a fixed order: departures, chunk requests, chunks, announcements, diffs, masters; give out jobs; scan for edits | own writes are not reported as edits, every edit is; a file is written with its own content; every listed file is eventually fetched |
| Client network, `client/network_client.c` | tracker socket, peer table with sockets, queues | heartbeats, connections, chunk requests, answers, rejections, new peer tables | every request is answered or reported failed; answers reach the one who asked |
| Peer table, `common/peer_table.c` | slots, counter | add, delete, lookups, growth, serialise, `diff_tables` | no id is given out twice; differences are exactly the changes |
| File system image, `utility/FileSystem` | tree of folders, root path | scan, diff, plus, minus, remove by path, iterate, serialise | minus then plus of a difference gives the new image |
| File table, `utility/FileTable` | entries by path, chunks with owners, work queues | add and remove file systems, owners, peers, jobs | as for the tracker; a job is given out once at a time |
| Queue, AsyncQueue | circular array, head, tail, size; a mutex | push, pops, peek, get, set, remove, filter, shuffle | the array behaves as a sequence |
| HashTable, LinkedList | an array of lists; nodes, root, tail, size; iterators | get, add, remove, iterate | the table is a function, the list a sequence |
| ChunkyFile | bytes, chunk arithmetic | open, get and set chunk, write | chunks cover the file exactly |
| Heartbeats | time stamps on both sides | beat, stamp, check | a running client is never declared dead, a silent one is |
| Web server, ColoredPrint, `tracker/file_table.c`, SDSet | | | monitoring, output and unused code: not modelled |

### Where it is hard

* messages of one socket overtake each other in the per-kind queues: an update
  handled after the loss of its sender, a chunk announcement after the deletion
  of its file, a master sent after an update that is newer;
* the two threads of the tracker hold two peer tables that are equal only when
  the queues between them are empty;
* a client leaves between the moment an item for it is queued and sent;
* the file table and the file system are updated by different calls, with
  different rules for directories;
* the logic thread's peer table has holes, and is scanned with a count;
* a client's idea of its directory (`cur_fs`), the directory, and the tracker's
  list change at different times, and users edit in between;
* chunks are asked for by path and number, and come back after the file was
  deleted, rewritten, or downloaded from elsewhere;
* a new peer table forgets open connections, and nothing times out;
* clients that connect to each other at once, and clients that start again with the
  address of one that ended;
* arrays that `realloc` lengthens without clearing, lengths that do not fit an `int`;
* directories that must be emptied before they go and made before they are filled;
* conditions off by one or the wrong way round at the ends of arrays and clocks.

`PROJECT.json` lists each hazard at its line with the property that covers it.

## 2. Modules

| module | role |
|---|---|
| `FileSystem` | operators of `FileSystem.c` on sets of entries |
| `FileTable` | operators of `FileTable.c` on a function from paths to chunk owners |
| `Tracker` | both threads of the tracker, their queues, and its clients; EXTENDS the two above |
| `MCTracker` + `MCTracker*.cfg` | instances of `Tracker` where clients that have joined, or join, edit at once |
| `MCTurns` + `.cfg` | two instances of `Tracker`: clients act in turns, or at any moment with fair threads; they share no state |
| `MCOpen` + `.cfg` | an instance of `Tracker` and one of `Client` where everybody acts at any moment; they share no state |
| `Client` | users, both threads of several clients, their connections, and an atomic tracker; EXTENDS `FileTable` |
| `MCClient` + `MCClient*.cfg` | instances of `Client` |
| `MCDownload` + `.cfg` | an instance of `Client` where a client joins in time, and the author may leave |
| `FifoQueue` | the sequence `Queue.h` promises: abstract specification |
| `RingQueue` | the circular array of `Queue.c`; implements `FifoQueue` |
| `CursorList` | the sequence with a place in it that `LinkedList.h` promises: abstract specification |
| `LinkedList` | the nodes of `LinkedList.c` and an iterator; implements `CursorList` |
| `HashTable` | operators of `HashTable.c` on an array of sequences |
| `FileTableStore` | `FileTable.c` on a hash table of queues, and its bytes; compared with `FileTable` |
| `FolderTree` | operators of `FileSystem.c` on trees of folders, and their bytes |
| `TreeSync` | two clients and the tracker that keep trees of directories alike; compares `FolderTree` with `FileSystem` |
| `PeerTable` | operators of `peer_table.c` on an array of slots |
| `PeerNetwork` | the tracker's roster, the clients' copies of it, their connections, requests and answers; EXTENDS `PeerTable` |
| `ChunkTransfer` | `ChunkyFile.c`: a file cut into chunks and put together, byte by byte |
| `Heartbeat` | heartbeats of clients and `check_liveliness` |
| `MCParts` + `.cfg` | one instance of each module from `RingQueue` on, three of `PeerNetwork`; they share no state |
| `MCChunkTransfer.cfg`, `MCHeartbeat.cfg`, `MCPeerNetwork.cfg` | instances of `ChunkTransfer`, `Heartbeat` and `PeerNetwork` by themselves |
| `Induction` | the least number of a set, and recursion over the natural numbers: what loops rest on |
| `TrackerProofs` | lemmas about the file table's operators, the inductive invariant of `Tracker`, what holds whenever clients act, and what it brings about with patient ones |
| `ChunkHeartbeatProofs` | chunk arithmetic; the inductive invariants and theorems of `ChunkTransfer` and of `Heartbeat` |
| `RingQueueProofs` | the inductive invariant of `RingQueue`, and that it implements `FifoQueue` |
| `LinkedListProofs` | the inductive invariant of `LinkedList`, and that it implements `CursorList` |
| `ClientProofs` | the inductive invariants and theorems of `Client` |
| `PeerNetworkProofs` | what the operators of `PeerTable` compute; the inductive invariants and theorems of `PeerNetwork` |
| `PeerAnswersProofs` | that a request between two processes that stay in touch is answered; EXTENDS `PeerNetworkProofs` |

Modules are layered by what they leave to others. `Tracker` and `Client` work on
sets of entries, functions of owners, sequences and whole chunks; the modules below
say why that is what the code computes (`RingQueue`, `LinkedList`, `FileTableStore`,
`TreeSync`), or look at what it hides (`ChunkTransfer`, `PeerNetwork`, `Heartbeat`).

### FileSystem and FileTable

An image is a set of entries `[path, ver]`. `ver` stands for the pair (size,
mtime) that `file_equals` compares; a directory always has version 0, because
`folder_new` leaves size and mtime of a folder at 0. The tree is kept as the
relation `Inside`. Facts of the code that the operators keep, because they
matter: an addition of another version *does not* replace the old entry
(`folder_add` compares whole files), removal by path takes one entry of that
name, a removed directory takes its whole subtree with it, and adding below a
folder that is not there is an assertion.

A file table is a function from file paths to functions from chunk numbers to
sets of owners. Additions replace an entry and make the sender the only owner;
removal goes by path and does not know of subtrees.

### Tracker

`nphase` and `lphase` are the program counters of the two loops: which queue the
loop is draining. One step handles one item with everything its handler does, or
finds the queue empty and moves on. Handlers are atomic because what the threads
share are the queues (a lock each) and the network thread's table, which the
logic thread reads once per handler: `Reachable` and `LogicMasterRequest` look at
`Connected`.

| action | code |
|---|---|
| `NetSelect` | `tkr_network_listen`, `tkr_network_process_new_connections`, `add_peer` |
| `NetHandlePeer` | one message of the next ready slot: `handle_client_msg`; a failed read deletes the peer |
| `NetNext` | a poll finds its queue empty |
| `NetSends...` | one destination of one item of a poll of `poll_queues` |
| `LogicNewClient` ... `LogicClientUpdate` | the five loops of `main` in `tracker.c` |
| `ClientTakesMaster`, `ClientTakesDiff` | `SendMasterFSRequest` and `UpdateLocalFilesystem`; the loop over `recv_diff` |
| the other `Client...` | what clients may send and when: the environment |

A broadcast in the code pushes one item per destination; here it is one item
with the set of its destinations, served in any order (`Popped`). `crash` records
what brought the tracker down: three assertions, a null dereference, and the
write through an owner queue one past the end of a file's chunks, whose outcome
is left open.

The clients are an environment with memory. What the tracker sends client `s` about
the directory waits in `masters[s]` and `diffs[s]` (its socket and its two queues for
them, read as one line each) until the client takes it, which changes `replica[s]`, its
directory: `SendMasterFSRequest` waits for the first master and polls no other queue
but the one of the file table, so an update that comes earlier stays queued and is
applied after the master (`ClientTakesMaster`, `ClientTakesDiff`); from then on either
may be taken first, because what was sent first can still be on the socket when its
queue is polled. `told[s]` is the peer table it was last sent. A client announces the
chunks it receives and, when it takes a master, every chunk of every file it shares with
it, those its own user wrote included: `heard[s]` are the entries it had from the
tracker, and `ClientGot` may announce any of them it still has.

Two constants restrict when clients act, and nothing else. With `Patient = TRUE` they
act only when nothing is under way. With `SettledJoins = TRUE` nobody edits while a
client joins and nobody joins while something is under way; edits meet each other in any
way. Both are `FALSE` in the run `open` and in the part
`free` of the run `turns`.

### Client

`Client` looks at the system from the other side: several clients with all their
threads, and a tracker that takes a message in and announces its effect in one
step. What can go wrong inside the tracker is the subject of `Tracker`; here it is
left out so that what goes wrong is the clients' doing.

`node[c]` is the directory of client `c` and the state of its logic thread:

| field | code |
|---|---|
| `disk` | the directory: for each path the version (name, size and time) and the content of each chunk |
| `cur`, `prev` | `cur_fs`, `prev_fs` |
| `owners` | the chunk queues of `ft`: who has which chunk |
| `entry[p]` | for each path of `ft`, `work_queue`, `outstanding_requests`, `file` |
| `jobs` | the jobs given out so far; a job id is an index of it |
| `phase` | which loop of `main` it is at |

Only the versions of files are known to the tracker; contents are kept by chunk,
as the version whose bytes it holds, so that a chunk of one version in a file of
another is visible. A file that is being downloaded is not on the disk: `ChunkyFile`
keeps it in memory until `chunkyfile_write`.

| action | code |
|---|---|
| `LogicPeerDeleted`, `LogicChunkRequest`, `LogicChunk`, `LogicChunkGot`, `LogicDiff`, `LogicMaster` | one item of the loop of `main` over that queue |
| `LogicWork` | one job of `check_work_queue` |
| `LogicScan` | `CheckLocalFilesystem`, five seconds after the last |
| `LogicNext` | the loop finds nothing and goes on |
| `NetAccept`, `NetTracker`, `NetPeer`, `NetRequests`, `NetAnswers` | the parts of the round of `clt_network_start` |
| `TrackerGot`, `TrackerUpdate`, `TrackerLoses` | `clientGotBroadcast`, `updateNetwork`, a lost client with `prune_filesystem` |
| `UserWrites`, `UserRemoves` | users: the environment |
| `Join`, `Leave` | `SendMasterFSRequest`; the end of a process |

A peer table is a function from ids to connections, 0 where there is none;
`wire[k]` is what is under way on connection `k`, at each end. A new table from
the tracker starts without sockets: what still comes in on the old ones is never
read (`Tidied` drops it). A peer is known by its address, so an accepted connection
replaces the one the table has. `queue_shuffle` takes `rand() % i`, which makes it
swap every element with an earlier one: its results are the cyclic orders
(`Shuffles`). `myID` is never assigned and stays 0: a client lists itself under 0
as the owner of its own edits.

### RingQueue

The array with `head`, `tail`, `size` and garbage in unused slots; every call is
one action, with growth (`queue_push` copies the full ring to one of twice the
size) and removal that closes the gap on the shorter side. `ImplementsFifo` is
refinement of `FifoQueue` under `contents <- Contents`. `queue_speek` of an empty
queue and of one whose last element is NULL are alike, in the code and here.

### LinkedList, HashTable, FileTableStore

`LinkedList` keeps a heap of nodes with `forward` and `back`, and follows the
pointers; every call of `LinkedList.h` is an action, with one iterator on the list.
`ImplementsCursor` is refinement of `CursorList` under `items <- Walk` (what is found
from `root`) and `at <- PlaceOfIterator`. `linkedlist_remove` and
`linkedlist_remove_all` are called with the iterator at rest, as all callers do: it
would otherwise stand on a freed node. `linkedlistiterator_previous` on an empty list
dereferences NULL or an unset tail; nothing calls it there.

`HashTable` takes lists for sequences. `FileTableStore` has a file table as a hash
table of entries, a queue of chunks in each, a queue of peers in each of those; one
variable, `store`, and each call an action. `StoreIsTable` compares, in each state, what
each call makes of the table with what `FileTable` makes of the function it stands
for (`View`), in every order an image may be walked; serialising and reading it back
must leave it as it was.

### FolderTree, TreeSync

`FolderTree` has the folders as `FileSystem.c` has them: a queue of `File` structs and a
queue of sub-folders, the latter with a `File` struct of their own in the former, and
the recursions over both. `TreeSync` puts them to use: directories (`disk`), images
(`image`), diffs as bytes (`uplink`, `downlink`), the tracker's tree (`master`), and `mkdir`
and `remove` on the directories in the order of the two iterators. A scan reads a
directory in any order. What a diff should be, as sets of entries, goes with its bytes,
so that `ImagesAreSets` can say that scan, subtraction, bytes and merge are together
what `FileSystem` says. A download is one step, `Completes`, that writes the file;
`fallen` records who failed an assert or wrote where nothing could be opened.

| action | code |
|---|---|
| `Reports` | `CheckLocalFilesystem`, once two scans agree |
| `TrackerMerges` | `updateNetwork`, `filesystemUpdateBroadcast` |
| `ClientMerges` | the loop over `recv_diff`: `RemoveFileDeletions`, minus, plus, `filetable_*_filesystem`, `GetFileAdditions`, scan |
| `Completes` | the last chunk: `chunkyfile_write`, scan |
| `Writes`, `MakesDir`, `Deletes` | users |

### PeerTable, PeerNetwork

A table of peers is an array of slots, each a peer, NULL, or what `realloc` left there
(`Junk`), which is unset: the operations that grow a table give the set of tables that
may result. The tracker's table grows when it fills; a table a client reads never does
(it is made twice as long as its entries, and both `copy_peer` and the loop around it
count them); the table of the departed, made as long as the new table, may.

`PeerNetwork` is about who talks to whom. A process is named by the id the tracker
gives it. A new process on the host of one that ended has its address but not its
id, and gives out the same job numbers again. Sockets come in pairs; `in` is what waits
to be read on one, and what arrives at a socket no table and no backlog knows is never
read. `connect_to_peer` reaches whoever listens at the address. An accepted socket
takes the slot of the address it comes from, and the sender of a message is told by
the slot. `send` on a connection the other end has closed may raise SIGPIPE
(`"killed"`); a pointer read from a junk slot leaves the process `"astray"`; both end, and
their sockets close, some steps later. `cut` remembers the ways a request can get lost:
between whom a connection was closed, replaced or forgotten, and whose slot holds the
connection of another, which happens where a process connects, ends, and its successor is
in the table before the connection is accepted.

| action | code |
|---|---|
| `Starts`, `TrackerTells`, `TrackerLoses` | accept and `newPeerBroadcast`; `check_add_peer_q`, `check_remove_peer_q`; a closed socket and `lostPeerBroadcast` |
| `NetAccepts` | `clt_network_process_new_connections` |
| `NetTable` | `handle_tracker_msg`, `PEER_TABLE` |
| `NetReads` | `clt_network_handle_peer_messages`, `handle_peer_msg` |
| `NetAsks`, `NetAnswers` | `check_req_chunk_q`; `check_send_chunk_q`, `check_req_error_q` |
| `LogicAsks`, `LogicAnswers` | `send_chunk_request`; `send_chunk`, `send_chunk_rejection` |
| `Ends` | the end of a process, wanted or not |

### ChunkTransfer

One file: `file` on the source's disk, `announced` its length as the image has it (an
`int`), `reader` the source's `ChunkyFile`, opened at the first request and kept,
`copy` and `written` the replica's. A byte is a version and a place, so that `copy`
shows what came from where. `/` and `%` are C's, which round towards 0. `Fetches(i)` is
request, reading, sending and setting of chunk `i`; nothing checks lengths on the way.
`strayed` records a read or write outside of an array.

### Heartbeat

A clock that only goes forward, clients that beat more than `DIASTOLE` seconds
after the last beat or fall silent, and the tracker's round: read one message of each
listed client and stamp it, then check. `StampsCoverBeats` says that stamping does its
part: no heartbeat that was read is forgotten. The check does not: `Expires`, as the code
has it, never holds (`silent`). The module is separate from `Tracker`, where a check that
expires nobody would add a clock and no behaviour.

## 3. Runs

| run | instance | question |
|---|---|---|
| `open`, part `tracker` | 2 clients, 1 file, 2 edits, 1 announcement, 1 departure | Whatever the interleaving: ids are unique and never taken for another's, losses are final, files keep owners |
| `open`, part `clients` | 1 client, a second joins, one leaves, both edit, 1 removal | Chunks of a download stay accounted for whatever comes and goes, up to a crash |
| `turns`, part `patient` | 2 clients acting one at a time, a directory with a file in it and a file beside it | Does the tracker bring everyone to its state: directories, peer tables, owners; does the file table stay within the file system; does an assertion fail |
| `turns`, part `free` | 2 clients, 1 edit, 1 departure, at any moment | `FreeMasterServed`, `FreeDrains`: does a client that stays get its master; do the queues drain |
| `crossed` | two clients that have joined edit one file | each ends with the other's version, the tracker with both |
| `silent` | one client that falls silent, fair tracker | it stays in the table for ever |
| `lost` | 3 clients, one of which leaves during a download | the new peer table forgets the connection of the two others: a request is outstanding for ever |
| `parts` | one of the instances below at a time | Do the units below and beside tracker and client do what those take for granted |
| `download` | 2 clients, of which the second joins while the directory is empty and the first makes 2 edits: versions of a file, of 2 chunks and 1, or its removal; the author leaves in the first download, or either when all is settled; 3 requests, 1 outstanding, 1 connection | A download in all interleavings with scans, rewrites, removals, requests and the end of the author: chunks are accounted for, jobs are not confused, chunks fit, downloads are not reported back, in the end listing and contents are the tracker's; under fairness every edit arrives, up to the crash of `late` |
| `echo` | a client joins a directory with a file | it reports the file as deleted before it has it |
| `mixed` | a rewrite during a download | a file is written with chunks of two versions |
| `swallow` | two clients edit two files | an edit is never announced |
| `late` | a deletion during a download | the late chunk brings the client down |
| `lastchunk` | a file of up to nine chunks | one whose size is a multiple of the chunk size is saved without its last chunk |

The instances of `parts`, with the properties they are there for:

| part | instance | properties |
|---|---|---|
| ring | two element values, up to 4 elements, an initial space of 3 | `ImplementsFifo`, `IndexInv`: the array is the sequence, growth, wrapping and gaps included |
| heartbeat | 2 clients, 5 seconds | `StampsCoverBeats`: no heartbeat that was read is forgotten |
| crowd | 3 hosts, tables of 3 slots, 2 ends, no requests | `JunkNeedsCrowd`, `HeardIsTable`: tables that grow, differences that lose nothing |
| pair | 2 hosts, 3 processes, 1 asks | `AnswersAreOwn`, `AnsweredAtRest`: restarts, late answers, closed connections |
| trio | 3 processes, 2 ask, nobody ends | the same, with connects that cross |
| trees | 2 clients, 2 names, 2 levels, 2 edits | `ImagesAreSets`, `TreesWellFormed`, `MirrorsEditor`, `FallsTakeTwo` |
| chunks | chunks of 2 bytes, ints of 4 bits, files of 0 to 18 bytes | `ArrivesButLastChunk`, `StraysTakeRewrite` |
| list | 2 values, up to 3 nodes | `ImplementsCursor`, `WellLinked` |
| store | 3 paths in 2 lists, up to 2 entries of 2 or no chunks, 2 peers | `TableKept`, `OneEntryEach` |

The runs that end in a violation (`crossed`, `silent`, `lost`, `echo`, `mixed`, `swallow`,
`late`, `lastchunk`) show disagreements between the code and what the documentation says
of it; each is a finding in `PROJECT.json`, with the line quoted.

Two clients are enough for the properties here: each relates one client's
departure, request or edit to another's state, and slots, ids and queue orders
already conflict with two. The first version of a file has two chunks, the later
ones one, so that replacement shortens a file and pruning has a chunk that is
not the first. The peer table of the logic thread starts with one slot where
growth is of interest. `NetSlots` exceeds the number of clients: the reallocation
in `add_peer` is the subject of `PeerNetwork`.

For the clients, one request outstanding and two chunks are enough to have work
left, a request on its way and a chunk written at the same time; the second version
is shorter, so that a late chunk would not fit; two scans with one version between
them are what it takes to report an edit. `MaxJobs` bounds requests: three are two
chunks and one of the rewrite. One connection is what two clients need unless they
connect to each other at once. `OnlyUserEdits` and `Identical` hold in `download`
because nobody joins a directory with files in it and one client writes: `echo` and
`swallow` show what happens otherwise, and `ContentsMatch` fails on the way (`mixed`) where `Identical`
holds in the end, when the rewrite has been fetched too. If the author leaves
before the rewrite is announced, the mixture stays; so in `download` it leaves before it
rewrites, or when all is settled.

For the parts: three slots fill with three clients, and a table of one entry is the
smallest whose departed can fill theirs; three processes are one pair and a restart,
or one that is asked by two. Two levels and two edits make every pair of operations
meet on a path and the one above it: a file that becomes a directory, a directory
deleted under a download. 18 bytes are past the width of a 4-bit int, so that lengths
come out positive, zero, -1 and negative again. Two lists of three paths make two
paths collide, one of them not the first of its list.

Stated in the modules but not given a run of their own; TLC refutes each within a
minute on the instance named, a `.cfg` or a part of a run:

| property | instance | what the code does |
|---|---|---|
| `Converged` | `MCTrackerConverge.cfg` | the request of a client for the master is handled before its arrival, two queues of one round; an update handled between the two is not sent to it, as it is not yet registered, and it keeps the older directory |
| `NoPlusAssert` | `MCTrackerEditors.cfg` | a directory is deleted while another client adds to it: an assertion of `folder_add` ends the tracker |
| `NoGotAssert` | `MCTrackerGot.cfg` | a chunk is announced while its file is removed or replaced: an assertion of `filetable_set_that_peer_has_file_chunk` ends the tracker |
| `NoPruneAssert` | `patient` with `Patient <- FALSE` and `MaxCloses <- 1` | a directory is deleted while another client adds to it; a later prune ends in an assertion |
| `ContainsPeerIsExact` | `tracker` | `containsPeer` scans as many slots as there are peers, and misses a peer behind a hole; its announcements are dropped |
| `NoNullClient` | `tracker` | a client that leaves before the master is sent to it: `check_send_master_q` dereferences NULL |
| `OwnersConnected` | `tracker` | an update handled after the loss of its sender makes a departed peer an owner for good |
| `NoGhostPeer`, `TablesAgree` | `tracker` | a departure overtakes the arrival between two queues and the peer stays registered; a table sent at the accept is newer than a queued one |
| `DepartedForgotten` | `clients` | a client handles the departure of a peer before an announcement that came earlier: the peer stays an owner and may be asked, in vain, for ever |
| `ConnectionsWatched` | `MCPeerNetwork.cfg` | two clients connect to each other at once: the accepted connections take the slots of the opened ones, which stay open and are read by nobody |

### Fairness

`MasterServed` and `Drains`, checked on the part `free` of `turns` (as `FreeMasterServed`
and `FreeDrains`), assume weak fairness of `Network` and of `Logic`: each
loop goes on for ever and waits on nothing but a `select` with a timeout and a
`usleep`. Of the clients they assume that each keeps taking what it was sent
(`WF_vars(ClientReceives(s))`: the loops of `SendMasterFSRequest` and of its `main` sleep
and poll again), and not that it does anything else. `Drains` holds because the polls that
leave their loop at a client that is gone pop the item before they leave.

`SilentClientsGo` assumes weak fairness of the tracker's round (`Serve`,
`check_liveliness`) and nothing of clock and clients: in the counterexample the rounds go
on for ever with the silent client in the table.

`Delivered` assumes weak fairness of each part of the clients' network round
(`select` with 10 ms), of the logic loop, and of the tracker, and strong fairness of
`LogicScan`: the loop comes by it again and again, and every five seconds it does
its work. Users may do nothing. In `download` it is
checked with a download whose author leaves, too: the tracker then prunes what nobody else
has whole. It does not hold of three clients: `lost` shows a request that stays outstanding
for ever when the third leaves, since a new peer table forgets connections and nothing
times out.

## 4. Proofs

All theorems hold for every value of the constants. Those of `Tracker` hold for every
number of clients, every directory, every number of chunks, edits and departures: the
assumptions are `FileSystemAssumption`, `FileTableAssumption` and `TrackerAssumption`,
which type the constants, make
`Inside` transitive and irreflexive, number the ids from 1 and give the network
thread more slots than there are clients.

* `TrackerTypeOK`. `TypeOK` is not inductive: `NetHandlePeer` takes the head of the
  inbox of a ready slot without looking whether there is one. `Inv` adds that no
  two slots share an id or a socket (`SlotsDistinct`), that slots hold accepted
  connections (`SlotsAccepted`), that a ready slot has a message
  (`ReadyHasMessage`), and that a connection not yet accepted has one
  (`UnacceptedHasMessage`), without which a slot filled in the same step as
  `select` reports its readiness could break the first. `TrackerInv` is `Spec => []Inv`.
* `FilesKeepOwners`. `AlwaysOwned` is inductive relative to `Inv`; the work is in the
  lemmas on the file table: removing the ownerless files leaves none
  (`RemovePathsOwned`), what is added is owned (`AddFileSystemOwned`), a new
  owner displaces nobody (`SetOwnerOwned`).
* `FileTableStaysWithinFs`, for a directory without sub-directories.
  `NoPruneAssert`, refuted with one, shows why the premise is there.
* `NewPeersStayNew`, `LossStaysFinal`. Both follow from `IdsInv`, which adds that every
  id in a queue or table is one the counter has given out (`IdsDrawn`): the one
  `add_peer` draws next is then in none of them. `AddedPeerDistinct` shows that
  `addPeerToTable` keeps the table free of duplicates, growth included.

* `PatientConverged`, `PatientTablesAgree`, `PatientOwnersConnected`, `PatientNoGhostPeer`,
  `PatientFileTableWithinFs`, `PatientNothingFails`: the properties of the part `patient`, from
  the hypothesis `Patient = TRUE` (TLC refutes each without it). The first four speak of moments
  of rest, so their invariant must say what is still missing at every other: `InTurn` is a
  disjunction of the stages a client's step goes through until tracker and clients rest
  again. A client that `Knocks` is accepted (`Enters`), one that
  `Sends` is read (`Queued`), one that `Closes` is dropped (`Departs`); the handler of the
  logic thread then leaves an update to spread (`Spreads`) or masters and tables (`Tells`), and
  each item sent and each one taken makes one client less lag behind. What is due to whom is
  `Due` of a queue: a client that has another directory than the master or another table than
  that of the connected has an item of it in the tracker's queue or a master on its way
  (`Asks`, `Tells`); in `Spreads` (`UpdateUnderWay`) the update still to be sent to a client,
  or sent and not taken, gives the master when applied to what the client has. Updates and
  masters are never on their way together, so the order in which a client takes them from
  its two queues makes no difference there. At every stage (`Sane`) the master is a tree (`Tree`), the
  file table has just the chunks of its files (`Tabled`), and nothing has failed. The rest is
  lemmas on the operators: `DifferenceApplies` (a diff applied by the tracker or by a client
  turns the one directory into the other, its assertions hold), `TreeWrites`, `TreeRemoves`,
  `TreePruned`, `TabledUpdate`, `TabledLost`, `TabledGot`, `AddedPeerRoster`,
  `RemovesPeerRoster`. That `add_peer` finds a free slot is the pigeonhole principle on
  `NetSlots`, and that a connection is found by its id (`SockOfId`) rests on ids being drawn
  in the order of the accepts.
* `HeartbeatTypes`, `BeatsAreStamped`, from `HeartbeatAssumption`, without bound on time.
  The type has that no heartbeat is later than the clock; with it `StampsCoverBeats` is
  inductive: a beat makes the last heartbeat late and its message unread, and the round
  that reads the last unread one stamps it at a clock no earlier than the heartbeat. The age
  the tracker could compute is then never more than the time the client let pass. Nothing
  is proved of the check itself, whose condition never holds.
* `AllButLastChunkArrives`, `StraysOnlyByRewrite`, from `ChunkTransferAssumption`: a
  positive chunk size, natural numbers for the other bounds. The invariant `ChunkInv`
  says that until the file is rewritten both sides agree on its length (`Agreed`), that
  a place of the copy holds its byte just when the chunk it lies in has come and
  reaches that far (`Filled`), and that what is saved is complete (`Complete`); it is
  needed because a chunk may come before or after any other. The arithmetic is in
  lemmas of their own: each place lies in one chunk (`PlaceHasChunk`), which exists
  (`PlaceInChunks`), lies within the file (`ChunkInside`), and reaches the place but for
  the last of a multiple (`ChunkReaches`).

* `RingTypes`, `IndexAgrees`, `RingImplementsFifo`, from `RingQueueAssumption`: a
  positive initial space, any bound on the length, a value for what `malloc` leaves that is
  no element. The invariant `RingInv` is the type, `IndexInv` (where `head` is follows
  from `tail` and `length`) and `Filled`: every slot in use holds an element, without which
  the contents would not be a sequence of elements. Growth, wrapping, the two ways to close
  a gap and the swaps of `queue_shuffle` are lemmas that say what a call makes of
  `Contents`; each call then is a step of `FifoQueue`. The shuffle and the filter are loops,
  in the model recursive functions: that they have a value, and which, goes by the least
  index for which it would not be so (`LeastOf` and `Recursion` of `Induction`), as the
  induction theorems of the library take a predicate as a parameter, which no prover
  here instantiates.
* `ListWellLinked`, `ListImplementsCursor`, from `LinkedListAssumption`: any bound on the
  number of nodes, a null pointer that is neither an element nor what `malloc` gives. The
  invariant `ListInv` says that there are a sequence of nodes, no node twice, and one of
  elements such that the heap is just these nodes, each with its element and pointing to
  its neighbours (`Chained`), and that the iterator stands on one of them at its index.
  Linking and unlinking put an entry into both sequences or cut one out: `JoinedIs` and
  `UnlinkedIs` show it for every place, both ends included. That the walk along `forward`
  finds these sequences (`WayOfIs`) goes by the least step at which it would leave them,
  and that a node is free while there is room is the pigeonhole principle.
* `ClientTypes`, `ChunksAccounted`, from `FileTableAssumption` and `ClientAssumption`, with
  any number of clients, connections, files, joins, departures and edits. Neither is
  inductive. `Inv` says of each client's table (`Nodes`) that it has entries and owners for
  the same paths, that an entry's outstanding requests are distinct jobs for its path, at most
  `MaxPending` of them, and that a missing chunk waits or is asked for (`Fits`). To keep
  this when an answer or a rejection comes in, the answer must be about the chunk of the
  job of its number: so `Inv` follows each request and answer through queues and wires,
  with the jobs its client has drawn as the book it agrees with (`Books`, `Mine`), and
  connections with their two ends (`Plugged`). The books of one who has left are
  empty, which is why what is still under way to it says nothing.
* `JobsStayOwn`, `ChunksAlwaysFit`, `UsersEditsOnly`: `JobsAreOwn`, `ChunksFit` and
  `OnlyUserEdits` from the hypotheses `MaxJoins = 0` and `MaxLeaves = 0`, that is among
  clients that all were there at the start and stay, whatever their users do. TLC finds
  them in `download` also where a client joins an empty directory and one leaves; some such
  hypothesis is needed: `echo` shows a client that joins report as deleted the file it has
  yet to fetch. The invariant behind the three is
  `Inv /\ Still`. `Still` says that a work queue has chunks its file lacks, once each, and
  not those that were asked for, that an outstanding job is one for the version the
  file has (`Exact`), that the directory differs from `cur_fs` by what the user did
  (`OwnChanges`), that updates on their way have the sender's own edits, and that updates
  and diffs have one version of a file (`Single`): two entries under one name would put the
  chunks of both to work.

* `PeerTableTypes`, `LogicKnowsPeers`, `CrowdsBringJunk`, `AnswersReachAskers`, from
  `PeerNetworkAssumption`: tables with at least one slot, any hosts, and any number of
  starts, ends and requests. The ground is what each operator of `PeerTable` makes of the
  slots in use (`CopyPeerIs`, `DeletePeerIs`, `DeserializedIs`, `LackingIs` and
  their like); the loops are recursive functions, whose values go by `Stepwise` of
  `Induction`. The invariant `PeerInv` is of four parts: the roster counts its peers,
  stays without junk below its first size and has the ids given out so far behind it;
  every table under way to a client is one of started processes with the hosts they run
  on (`PostedInv`), without which the next table a client reads could be anything;
  sockets come in pairs (`SocksOK`); and of each process, its table and backlog hold open
  sockets of its own, each in one place, and the logic knows just the table (`ProcInv`).
  The first three theorems follow. For the fourth, `LinesInv` adds that a request and
  its answer have one place at a time in all the lines there are, in queues and on sockets
  (`Once`), and that what stands in a line is in place there (`Fits`): a request on a
  connection is of the host at the other end, a request or an answer in a queue of the
  host its slot names. Ids are of no use for this, as a slot may hold the connection of an
  earlier process; the address is what stays.
* `RequestsAnswered`: `AnsweredAtRest`, from the same assumption. "Together" are two
  processes that run and lost no connection between them (`cut`). On top of the invariants
  above, `AnswersInv` says that both ends of a connection of two that are together are in
  a table or a backlog (`Linked`), so somebody reads what is sent on it; that a
  connection stands in the slot of the process at its other end (`RightSlots`); that a
  request read from a connection is of that process (`Signed`); that what is to be handled
  or answered names a slot that leads back to the asker (`TasksReach`); and that each
  request not yet answered, or its answer, is in a queue or a connection from where it goes
  on (`Kept`). `Company` says why the tables agree with this: a host has one process at a
  time, nobody knows what is not started, and whoever is in a table and runs is in every
  later table on its way to the same client. There is one lemma per action, and at rest the
  places of `Kept` are all empty. The attempt found the property short of a case: the
  connection of an earlier process on a host, accepted late, goes into the slot of the one
  that runs there now, and takes what is sent to it; `cut` now has this loss too.

Only model-checked: liveness (out of the prover's reach), `Delivered` of `Client` included;
`Identical` of `Client`; those of `TreeSync`, whose trees are recursive
operators, which the prover cannot expand; and `FileTableStore` against `FileTable`, whose
walks are folds over sequences of sequences.

## 5. What is not modelled

In no module: names and time stamps; partial reads, and errors of `send` other than a
closed connection (a failed read is the message `EOF`); packet headers; memory
management and the shutdown path; the queues without a producer or a consumer
(transaction update, client state, get failed); the count of requests per connection,
which decides nothing since the disconnect is commented out; the loss of the tracker,
which ends the client's network thread; the web server; the console; `SDSet`,
`filesystem_handle_updates`, `asyncqueue_concat` and `tracker/file_table.c`, which nothing
calls. `filetableentry_destroy` reads an entry it has just freed, which shows in no
state here.

The data race on the client's peer table, read by the logic while the network thread
frees and replaces it, is a look at one table or the other.

Left by one module to another: `Client` has no sub-directories (`TreeSync`), no chunk
lengths (`ChunkTransfer`), no restarts and no SIGPIPE (`PeerNetwork`); what is sent to a
closed connection is lost there. `TreeSync` takes a download as one step, from the
author's disk or not (`Client`). `PeerNetwork` does not look into a request. In
`Client` messages that come in while `SendMasterFSRequest` waits are not handled (a join
is one step); of two entries under one name in one update, the chunks of both are put to
work (`Enqueued`), in the order of a listing that may be any (`Listings`), for the file of
the last (`Latest`).

The heartbeat interval is 10 seconds in `constant.h` where `Network.tex` says 6.

## 6. Plan

1. Proofs: `Identical` of `Client` where one client writes and nobody joins;
   `FileTableStore` against `FileTable`, on the ground of `Induction`.
2. `TreeSync` with downloads that take time, and a client that joins.
3. The loss of the tracker, and partial reads of a message whose sender ends.
