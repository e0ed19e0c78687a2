# bee-go: TLA+ specifications, model checking and proofs

bee-go is a Go client for the HTTP API of a Swarm Bee node. Most of it is
stateless: an operation builds a request, sends it, checks the status and decodes
the answer. The parts that keep state, run goroutines, or make several calls
whose order and failures matter are what this project models. All paths below
are relative to `src/`.

## Inventory

| Component | State | Operations | What is hard, and what must hold |
|---|---|---|---|
| Streaming chunker, `pkg/swarm/file_chunker.go` | leaf buffer, stack of reference levels | Write, Finalize; OnChunk callback | the callback may fail in the middle of a cascade; inputs at powers of the fan-out; Finalize walks a stack it extends. No byte lost, the root covers the input, nothing dangling |
| PSS subscription, `pkg/pss/subscribe.go` | two channels, two goroutines, a context, a websocket, `closed` | PssSubscribe, PssReceive, Cancel | Cancel races itself, the reader, the node and the consumer. Messages in order, errors explained, everything ends |
| GSOC subscription, `pkg/gsoc/gsoc.go` | the same | Subscribe, Cancel, Send | the same |
| Stamper, `pkg/postage/stamper.go` | one counter per bucket | Stamp | unsynchronised counters, a slot burnt by a failed signature, nothing persisted. No two stamps share an index |
| Feeds, `pkg/file/feed.go`, `feed_rw.go` | the feed on the node | FindNextIndex, UpdateFeed, Upload..., Download, retrievability | look-up and upload are two calls; lost answers; failures read as "no update yet". An update is not overwritten |
| Storage, `storage.go` | the batch on the node | BuyStorage, ExtendStorage..., costs | top-up, then dilute, with a price that moves in between and either failing. A failed extension never shortens what was paid for |
| Postage REST calls, `pkg/postage/postage.go` | the batch on the node | create, top up, dilute, read; arithmetic | rounding and overflow of the arithmetic |
| Mantaray manifest, `pkg/manifest/` | a trie with cached chunk addresses | AddFork, RemoveFork, Find, Marshal, Unmarshal, SaveRecursively | the cache must be invalidated along the whole path; partial saves; unloaded children |
| Streaming upload, `pkg/file/stream.go` | chunks of files, then a manifest | StreamDirectory, StreamCollectionEntries, HashDirectory | a failure anywhere between; files that change meanwhile. A returned reference serves every file |
| Collections, `pkg/file/collection.go`, `file.go` | a tar goroutine and a pipe | UploadCollection, UploadCollectionEntries | a file vanishes or shrinks while it is written, the request fails first. No reference to less than the files, nothing left running |
| Chunk, SOC and BMT hashing, `pkg/swarm/` | none | hash, sign, unmarshal | byte layouts |
| Value types, `pkg/swarm/` | none | typed bytes, tokens, durations, sizes | rounding, wrap-around |
| HTTP client, `client.go`, `httplog.go` | transports | NewClient, options, Ping | option order, token on redirects |
| REST endpoints, `pkg/debug`, `pkg/api`, `pkg/postage`, `pkg/file`, `pkg/pss` | the node's | one call each | a lost answer to a call that moves funds; answers read as yes, no or zero. What is returned was true, a payment is sent once |
| State-file tools, `examples/swarm-{deploy,vault,blog,keyring,feed-rss,fs,share,pinner,relay}` | a JSON file per tool, feeds and uploads | init, push, put, publish, add, mv, revoke, relay ... | a command killed between any two steps, two shells at once, a torn file. The file refers to what exists, the feed follows it, nothing acknowledged is lost |
| Integration check, `examples/integration-check` | the batch, references, counters of one run | every kind of call, in order | goes on after failures with zero values; money; other runs. Ends, and its exit code is honest |
| Other examples | none | straight-line programs | |

PROJECT.json lists every component with its status and the hazards with the
properties that cover them.

## Modules

    FileHash                 what the chunker promises
    FileChunker              the chunker, call by call
    FileChunkerRefinement    FileChunker implements FileHash
    FileChunker_proofs       types, references, level bounds, coverage of the input,
                             that FileHash is implemented, that calls come to an end

    Subscription             a PSS or GSOC subscription, all its goroutines
    PssReceive               PssReceive as the consumer of a Subscription
    Subscription_proofs      types, order, explained end, silent cancel; of PssReceive
                             first message, why nil, use of the subscription; that
                             no goroutine waits in vain

    Stamper                  concurrent calls of Stamp
    Stamper_proofs           types, unique indexes, heights in range, full buckets

    Feed                     writers and checkers of one feed
    MCFeed                   Feed with its symmetry, for TLC
    Feed_proofs              types, overwrites, holes, order, retrievability

    StorageExtension         callers that extend one batch
    MCStorageExtension       StorageExtension with its symmetry, for TLC
    StorageExtension_proofs  no dilution before its top-up, no call shortens the batch,
                             extensions are as promised and cost what was quoted

    Mantaray                 the manifest trie, hashed and saved
    MCMantaray               Mantaray with a set of paths, for TLC
    DirectoryUpload          the four ways to upload a collection; extends Mantaray
    MCDirectoryUpload        DirectoryUpload with paths and files, for TLC
    Mantaray_proofs          shape of the trie, what is found in it, what a saved
                             manifest serves, children before parents, files before
                             manifests, what a collection leads to once it is
                             uploaded, use of the trie by the uploads, that none
                             gets stuck

    NodeCalls                the calls on the node, by several callers
    NodeCalls_proofs         one transaction per payment, true answers, whole lists

    StateFile                what all tools with a state file do
    FeedTools                deploy, vault and blog; extends StateFile
    ListTools                keyring, feed-rss and fs; extends StateFile
    NodeTools                share, pinner and relay; extends StateFile
    Tools                    the nine tools together
    MCTools                  Tools with files to relay, for TLC

    IntegrationCheck         the program examples/integration-check
    Examples_proofs          references, grantees, counts, entries kept and feeds of the
                             tools; exit code, money, feed check and progress of
                             IntegrationCheck

In every module a definition that stands between a helper's comment and the
helper, or that a comment calls a seeded fault, is an erroneous twin of that
helper. No specification uses it. PROJECT.json `mutants` names, for each
property, the twin that breaks it.

### FileChunker

`leafBuf` and `levels` are the fields of the struct; the buffer is represented by
its length, because bytes are identified by their offset in the input. `store` is
what OnChunk accepted so far. A public call is a sequence of steps, so that a
failing OnChunk interrupts it where it really does: `Write` and `Fill` are the
call and its loop, `FlushLeaf` and `CollapseLevel` the two functions that invoke
the callback, `Scan`, `FinalizeReturns` and `FinalizeEmpty` the parts of
Finalize. flushLeaf and collapseLevel empty their buffer or level *before* the
callback; `Reject` therefore loses its content, as the code does. The recursion
of collapseLevel is the tail call `pc' = "collapse"`.

`edge`, `reopened` and `root` are history: no guard reads them except `reopened`
through the refinement.

FileHash is the promise: a file has one canonical tree, and the chunks of that
tree come out children first. The refinement holds until an upload fails or a
finalized chunker is written to again, after which the code promises nothing.

### Subscription and PssReceive

One module stands for both subscriptions, whose code is the same up to the URL
and the message type. `link` and `wire` are the node and the network, `reader`
and `watcher` the two goroutines, `canceller` the goroutines in Cancel,
statement by statement, because `closed` is a plain bool. Events that happen once
(a context done, a channel closed, the connection closed from this side) are
members of the set `past`. The deferred closes run last first, so Errors is
closed before Messages: `CloseErrors`, then `CloseMessages`. A frame received
before the local close may still be read after it.

The websocket, the node and context.Context are external. A consumer takes
messages and errors in any order, or stops.

PssReceive adds the timer and the select: each ready case may be picked, a closed
and drained channel is always ready.

### Stamper

`buckets` is the array of counters. A call of Stamp is its accesses to a counter,
because nothing locks it: `Stamp` reads it, `Refuse` and `Proceed` compare the
reading with `MaxSlot`, `Load` and `Store` are the increment, `Sign` and
`SignFails` the signature. `raced` is the history of buckets on which two calls
counted at the same time; UniqueIndex and FullMeansSpent hold exactly outside it,
which is what a caller must avoid. HeightInRange holds even under races. The
limit is computed in a word of `Word` values, as the code's uint32.

### Feed

A writer gets an index, from the node (`FindNext`, `FindNone`, `FindFails`) or its
caller (`GiveIndex`), then sends its upload (`Send`); the request is served
(`Serve`) at any later time, also after the writer gave up (`GivesUp`). `basis`
and `seen` are history: how the index came about, and what had been served when it
was looked up. `NoUpdates` are the statuses FindNextIndex reads as an empty feed.
A reader walks the updates one by one (`StartCheck`, `Probe...`) while this goes
on.

### StorageExtension

A call reads the batch and the price, decides, sends the top-up, waits for its
answer, and sends the dilution; each request may be refused, lost, or served after
the caller gave up. `AmountDelta`, `TopUp`, `ExtensionCost` and
`SizeExtensionCost` are the arithmetic of storage.go, in units per chunk. The
chain draws the price with every block and may change it. `baseline` is the
balance had nobody touched the batch, `promised` the blocks that successful calls
were to add, `disturbed` whether the price moved or calls overlapped.

### Mantaray

`trie` is the heap: a function from node identifiers to nodes with their path,
entry, forks, parent and cached address. An address is the chunk it is the hash
of, so a stale address is one that differs from what the node would marshal to.
`Add` is AddFork's loop over the pieces of a path, with FindClosest and
splitForks; `Detach` is RemoveFork with its re-insertions, in any order of the
map; SaveRecursively goes node by node (`Descend`, `Upload`), so that an upload
may fail anywhere and leave a part of the addresses cached.

Two paths are exceptions of FilesFound: one that leads to a node already when it
is added (`shadowed`; AddFork drops the reference without an error), and one
deeper below a removed path than its children (`orphaned`, a finding). SavedServes
leaves out tries that were changed after a node had an address (`reused`, a
finding) or hashed before they were saved (`hashed`: CalculateSelfAddress caches
the addresses of the root's descendants that it comes to, which are those not below a node
with an address (`Hidden`), and a save skips them).

### DirectoryUpload

It extends Mantaray: the streamed ways are Mantaray's AddFork and SaveRecursively
behind the chunks of each file. `todo` is the list of entries, `item` and `part`
where the loop stands in it; `ReadFile` is readDirAsEntries, which opens a
file and reads it block by block while the user may edit it (`OpenToRead`, `ReadBlock`,
`EndOfFile`), `SendChunk` and
`ChunkFails` the OnChunk callback, `AddEntry` and `SaveManifest` the end of
streamEntries. What the chunker emits for a file is abstracted to its blocks and,
above several, a parent; FileChunker has the rest. The tar ways are three
processes: the goroutine that writes (`WriteHeader`, `OpenFile`, `WriteBlock`,
`FileWritten`, `CloseArchive`), the request that reads (`MakeRequest`, `Answer`,
`Abort`, `RequestFails`) and the user who edits files. The pipe has no buffer, so a
write waits for a reader (`Writable`). The tar writer's check of sizes is `Short`
and the refusal in `WriteBlock`.

### NodeCalls

`call[p]` is a caller's call on its way: sent, answered, done. Methods that differ
in path and fields only are one set of `Methods`; `Effect`, `Found` and `Body` are
the node, external, and `Result` is the client: CheckResponse, DecodeJSONResponse
and the methods that read the status themselves (GetPin, IsGateway, Readiness,
Health, IsConnected, ChainState, ChequebookAddress, CheckPins). CheckResponse takes any
status from 200 to 299; GetPin and Readiness say yes to 200 only (`StatusOK`), so
an answer may be of the kind "2xx", a success that is not 200. `Lose` is the time-out of
the HTTP client, a context that ends, or a broken connection; the request of a call
given up goes to `late` and may be served afterwards. `true` is history: for each
call, what would have been a true answer at each moment while it ran.

### StateFile and the tools

`file` is the state file of the tool in use, absent, saved or torn; `job[p]` the
command running in shell p, at the step it has reached. A command reads the file when
it starts (`Strict` if it refuses to go on without one, `Lenient` if it takes an
unreadable one for an empty one), works, and writes it in the two steps of
os.WriteFile, `Truncate` and `WriteOut`. `Stop` is a kill, or an error, between any two
steps. Several steps of a command that read only what it has itself are one.
`disturbed` is history: commands overlapped ("overlap"), were broken off ("dropped") or
killed in the middle of the write ("cut"), a look-up missed updates of the feed ("astray"), or an
update was served late over another, or next to one on its way ("late"). Uploads, feeds and lists of
grantees are the node's.

A tool publishes through UpdateFeedWithReference: `LookUp` is FindNextIndex, whose answer may be that of
any beginning of the feed, since a node may lag and a 404 or a 500 is read as an empty feed;
`Publish` is the upload. An update that was sent when its command gave up waits in `node.late`, and
`ServeLate` serves it at any later time, or never. swarm-share's model leaves out
the addresses of the history of a list (`swarm-share/main.go:224-234`), which go where the
list's do.

### IntegrationCheck

One action per check of `main`, in the order of `Checks`, with `Passes`, `Fails`
(count and go on) and `Dies` for its three ways to end; `locals` are the variables
that later checks use, `bee` is the node, `Skip` are the checks that need a usable batch. `cause` is
history: why the feed check may find another payload than the one it wrote.

## Runs

| Run | Shows |
|---|---|
| chunker | all Write sizes over 9 bytes, leaves of 2 and fan-out 2 (four levels, carriers at two of them), two failing uploads at any chunk: references always uploaded, the root covers the input, calls return, and FileHash is implemented |
| subscription | two goroutines in Cancel, buffer of 1, three frames: order, explained end, complete cancellation, delivery to a consumer that keeps receiving |
| pss_receive | PssReceive with and without a timeout: a message or a reason unless the context ends, it returns, nothing left running |
| stamper | three goroutines, two buckets of two slots, failing signatures: where indexes may collide, and where not; a full bucket is spent |
| feed | two writers, late and lost requests, failing and lagging look-ups, a reader checking: what an overwrite may come from, no holes, ascending updates |
| storage_extension | two callers, lost answers, late requests, blocks, a moving price: extensions as promised, never shortened, dilutions funded, quotes exact |
| mantaray | three of seven paths, one removal, two saves or hashes, failures anywhere: shape, contents, what a save serves |
| mantaray_stale | finding: a node between the root and a change keeps its address |
| directory_upload | three paths, files of none, one or two blocks, two edits, also while a file is read, any chunk, node or request failing: what a returned reference serves, no manifest before its files, call and goroutine end |
| node_calls | two calls of any methods by two callers, errors, garbled and lost answers, late requests, a node that moves: answers are true, payments are sent once, pin checks are whole |
| tools | three commands of any tool in two shells, overlapping, failing, killed: look-ups that miss updates, late updates: nothing dangles, the feed follows the file until a look-up goes astray, an update comes late or commands overlap, grantees and counts are those of the node, what was entered stays |
| integration_check | every environment, every call refused or its answer lost, late chain and feed, another run: it ends, says what it skipped, spends once, and is mistaken about the feed only for known reasons |

Four properties that quote a doc and do not hold are in the modules without a run
(MessageOrError in PssReceive, ZeroMeansEmpty in Feed, RemoveKeepsOthers in
Mantaray, DurationExtended in StorageExtension): naming one as an INVARIANT of that
module's configuration (for the last, with only "duration" in Kinds) shows a
counterexample; see Findings. TypeOK of Feed, FileChunker, Stamper, StorageExtension
and Subscription is proved and not checked again.

**Bounds.** The chunker's behaviour depends on whether a level is empty, holds a
single reference, is partial or full, and on how many levels cascade at once; nine
bytes at fan-out 2 reach every combination over four levels, and the proofs cover
other fan-outs. A subscription's depends on its buffer being empty, partial or
full, with one more message in the reader's hands: three frames on a buffer of one,
four on a buffer of two. Two buckets of two slots let one bucket fill up, be refused and be
raced on while the other is in use; a race needs two calls, a collision after it a
third. A feed of three indexes and three uploads has an overwrite, a hole and a
late request at once. Two extensions of a batch whose balance leaves a remainder
meet every order of their four requests each, and every rounding. A trie of two
bytes with pieces of two splits a node inside, at and beyond a prefix; three
paths form chains of three nodes, the shortest with a node between the root and a
change. In DirectoryUpload one path is a prefix of another, a file of two blocks can
lose or gain one, and two edits delete a file and bring it back. Two calls are a
payment that was lost and the one made instead of it, or any two at once; five rows
of four bytes in a reader of fifteen end before, at and beyond the limit, with and
without blanks. Three commands are a set-up and two that overlap, or three in a row;
of two names one is another's replacement, and a third update can
miss one or both of two before it. In IntegrationCheck loops go round twice,
and a feed that older runs have used has up to two updates.

**Fairness.** A running chunker call runs on: nothing in it waits but OnChunk,
and an HTTP request ends. The goroutines of a subscription and a Cancel that has
begun run on; the Go scheduler is fair to them. The node, the network and the
consumer owe nothing, except in the premise of `NodeEndDelivers`, which is
about a consumer that keeps receiving. In PssReceive a ready select proceeds and
a started timer fires. In IntegrationCheck a step is
fair because every call ends with the time-out of the client (`client.go:20`) and
every wait has a deadline of its own; the chain and other runs owe nothing. In
DirectoryUpload the loop, the goroutine and the transport are fair (`Proceeds`), and
so is the answer to a complete archive; failing requests and edits need never
happen. The other modules state no liveness: their calls wait for
a node that owes them nothing, or run to their end.

Deadlock is not checked where the system may stop: a finished subscription, a
panicked process, calls and requests used up.

## Proofs

Proved for every value of the constants, from the named assumptions on them only
(`ConstantsAssumption`: a leaf has at least one byte, a parent at least two
references, a buffer at least one place; in Stamper `DepthAssumption` and
`BoundsAssumption`: the depth exceeds the bucket bits, a counter has some values,
goroutines are finitely many;
in PssReceive `OneCaller`: nobody else cancels its subscription; in NodeCalls
`NodeCallsAssumption`: rows, limits and price range are positive; in the tools
`ConstantsAssumption` and `NodeToolsAssumption`: names are numbers, so that they have
an order, None is neither a name nor a content, a file to relay is a sequence of buckets;
in Mantaray `ConstantsAssumption`: paths are not empty, a prefix has at least one byte; in
DirectoryUpload `WalkAssumption`: a walk is in the order of the paths, contents are sequences of blocks).

- *FileChunker_proofs.* `StackInv` joins the types, `ReferencesEmitted`,
  `LevelsBounded` and `Control`, which ties pc to the level at work: only the
  level being collapsed may be full, the leaf being flushed is not empty. It is
  needed because boundedness of a level after a collapse depends on the level
  above not having been full before.
  `FileInv` adds, for runs without a fault, that level
  i tiles the bytes between the edges of levels i+1 and i (`LevelsTile`), that a
  parent covers what its children cover, and `Descent`: below Finalize's loop
  variable every level is empty. From these follow that the root covers the
  input, that a panic needs a fault, and that Finalize reports an empty payload
  only when nothing was written. The sum of spans is the length of an interval
  because it telescopes (`TotalSpanTelescopes`); induction over a sequence is
  replaced by its shortest counterexample (`LeastNatural`).
  The refinement of FileHash rests on `TreeInv`: as long as FileHash promises anything,
  the edge of a level is a multiple of the bytes a chunk of its height holds, until the
  last byte is in (`Cuts`), a level has as many references as it has such pieces
  (`Counts`), and the chunks so far are exactly the pieces below the edges (`Canonical`,
  `Complete`). Edges cannot be left out: that a parent is the next piece of its height follows
  from where its level ends, not from the references in it. flushLeaf and collapseLevel
  are one kind of step, `Joining`: the next piece joins its level. At the end one reference
  is left, on the first level whose piece holds all the input, so its level is the
  height of the tree (`StackTop`). Then `HashStep` takes each step to one of FileHash: a
  turn of Write's loop to Append, an emission to Emit, Finalize to Close, its return to
  Seal, a failed upload or a Write after the root to Abandon, every other to none.
- *Subscription_proofs.* `Numbering` (received, buffered, held and wired messages
  are consecutive numbers) gives the order; `Causes` (why the reader is closing)
  gives the explained end and the silent cancel.
  Every step of PssReceive is a step of its subscription or
  leaves it alone, so `SubInv` holds. `Untouched` adds that before there is a result
  nothing was received or cancelled: the message taken is then the first, and a
  closed, empty Errors channel means that the caller's context is done.
- *Stamper_proofs.* `Apart` says of every bucket no two calls have counted on at
  once that its counter is the height of the call counting on it and above every
  height issued or about to be signed, each of them once. The properties alone are
  not inductive: a stamp issued twice starts with a height read twice. `Checked`
  gives the range. `Tally`, that the counter is the number of indexes spent and never
  above the limit, gives FullMeansSpent, by counting elements as the sets change; the
  theorem assumes that a bucket's size fits the counter's word, which NewStamper does
  not check.
- *Feed_proofs.* `LookedUp` is what an upload under way owes to its look-up: no
  update at its index among those served before, none missing below. It stays true
  however late the upload is served because the node forgets nothing; the overwrite
  and hole properties follow when it is served. `JobsAscend` and `AckedKept` relate
  a writer's next index to those it has had acknowledged.
- *StorageExtension_proofs.* `FundedInv`: an answer to a top-up says that it was
  served, and a dilution on its way belongs to a call whose top-up was.
  `BalanceInv` compares the balance with the blocks `Left` that the batch would have had
  without extensions. `Lasts` says that the balance is worth those at the present depth,
  at the depth of every dilution on its way, and at that of every call whose top-up was
  served: neither NeverShorter nor ExtendedAsPromised is inductive, as a batch that is
  topped up for nothing is only found out when it is diluted. `Unextended` adds that what
  a call has read is no deeper than the batch is and worth no fewer blocks, and holds
  whatever calls do as long as the price stays; `Extended` says the same of the promised
  blocks when calls do not overlap. `TopUpCovers` is the arithmetic: the top-up makes
  the balance worth what was read, and what is asked for, times the chunks asked for.
  The quotes agree because 2^(m+n) = 2^m * 2^n (`PowerSum`). That the recursive function
  PowerOfTwo satisfies its equation, and its laws, are proved by a least counterexample
  (`LeastNatural`).
- *NodeCalls_proofs.* `PaidInv`: an id belongs to one call, and its request is under
  way, late, or served, never two of these; so no request that may still be served
  has sent a transaction (`HashInv`), and an answer to a payment is the hash sent for
  that id. It is needed because a hash is promised when the answer is made and
  returned later. `TrueInv` adds that the present truth is among those a call under
  way has witnessed, and that an answer is `Honest` about one of them; what each method
  makes of an honest answer is `ResultsTrue`. That a pin check is complete is then
  arithmetic about the reader's limit (`RowsFill`, `CheckedAll`).
- *Mantaray_proofs.* `TrieInv` says of the nodes that they form a `Trie`, of the trie that
  it is `Standing`, and of addresses that they are uploaded unless some were only
  calculated. A trie stands if every node but the root hangs below its parent by the
  first byte of its path, every fork leads to such a node, and heights can be given to the
  nodes that grow from child to parent. PatriciaTrie alone is not inductive: it allows
  cycles of nodes apart from the root, on which the functions that walk the trie would have no value.
  AddFork breaks it on its way, while the old node and the new one change places:
  `Open` is the trie in which some nodes hang nowhere and one fork leads to anything, and
  `AttachFree`, `AttachAbove` and `AttachBranch` are the three ways in which it is closed
  again; heights are stretched (`Rescale`) when a branch comes between two nodes. Every
  piece of a path that is too long is added so (`AddStands`). For RemoveFork it is shown
  that FindClosest of a path ends at a node whose FullPath it is (`FoundAt`), that FindClosest
  of the path without its last byte ends at the parent (`AboveFound`), and that what is
  removed hangs by that fork alone (`SubtreeSevered`); the children are then added as any
  path is (`DetachStands`). That the recursive functions satisfy their equations
  (`WalkLaw`, `ClimbLaw`, `AddressLaw`) is proved from the heights, or from the bytes left of a
  path. ChildrenFirst follows because a node is marshaled when all its children have
  an address. `UploadInv` adds to it where an upload stands: the entries added so far are
  numbered in order, and the chunks of each are at the node (`Sent`); so no manifest names a file that is
  not there. `UploadUsesManifest`: the uploads are behaviours of Mantaray's Spec.
- *Mantaray_proofs*, FilesFound. What is found at a path is read off the nodes instead of
  the walk: a path is found exactly if it is the FullPath of a node (`FoundHas`), and then
  the reference is that node's (`EntryIs`). A piece that is added leaves every node its
  FullPath and its reference, whether a fork is free, the new node comes between two
  others or a branch does (`Joined`, `PathsKept`); what is new lies on the way to the path
  added and has no reference unless it is the end of it (`Towards`, `JoinedAdds`); the
  pieces one after the other add the whole path (`Partly`, `AddAdds`, `AddedFinds`). RemoveFork
  cuts all that is below the path (`CutFinds`), and each child added again puts back one
  path and disturbs none, since the paths of children part at their first byte (`ChildrenPart`,
  `RestoreNext`, `DetachFinds`). What is lost below the children are the paths
  in `orphaned` (`BelowChild`). FilesFound is inductive with `TrieInv`: new addresses
  alone change nothing that is found (`SimilarFinds`).
- *Mantaray_proofs*, SavedServes. `ServeInv` holds as long as nothing was hashed or changed
  below an address: a chunk under the address of a node is that node marshaled, its forks with the
  addresses of its children (`Mirrored`); and while a save is under way, the node it is at and
  those above it have no address yet. Both are needed because a save that fails
  half-way leaves addresses behind, and the next one keeps them: what they name
  must still be the node. A trie without addresses is given none by an addition or a
  removal (`AddBlank`, `DetachBlank`), so a change before any save starts from nothing. A reader
  who goes from chunk to chunk then takes FindClosest's steps from node to node
  (`ReadingLaw`, `ReadsNode`), and finds what FindClosest finds (`ReadsTrie`).
- *Mantaray_proofs*, FilesServed. Five invariants join the walk, the file that is open and what has
  been sent. `SeenInv`: what is to be uploaded is sorted, without repetition, and has every path that was
  there at each moment since the walk; and every version of a file is remembered that it
  has had since. `NamedInv`: an entry of the manifest is the number of a file uploaded
  under that path, and nothing has an address before the save starts. `StreamInv` and
  `Requested` say how far each of the four ways has come. `ReadInv`: each block read is from a
  version the file has had, and when files are added in the order of a walk no
  path is added where a node stands (`OnTheWay`: nodes are on the way to
  what was added before, and the order of a walk has those first), so
  nothing is shadowed, however the paths share their bytes. `ArchiveInv`: every entry of the archive but
  the last is whole, the last one may be short while it is copied (`Copied`), and all are there at the end
  (`AllCopied`). FilesServed follows, for an archive, from the last part, and for a manifest from
  FilesFound and SavedServes, which hold in an upload because of UploadUsesManifest
  (`ArchiveServes`, `ManifestServes`).
- *Examples_proofs*, the tools. `ToolsInv`, for the nine tools at once, says of the file what it says of
  the value that a command has read and will write: `Upheld`, that it refers to what the
  node has. This gives NothingDangles and GranteesMatch with any shells and any kills,
  because the node forgets nothing and a list of grantees is never changed. Kept,
  Counting and Following hold under the condition of their property: `Single` and
  `Whole` say what the condition means for the commands under way (one at a time; the file
  is torn exactly while one writes). `Kept` says that what a command will write still has
  all that was acknowledged, less what the command takes out. `Counting` compares what
  will be saved with what the node will have stamped by then; that it needs the rest of the
  file to relay is the reason for `Covers`. `Following` ties the index an update is
  published at to the length of the feed, and the history to a subsequence of it
  (`Within`, an increasing function, which an appended update extends). It holds while
  nothing but a kill or an error has disturbed the tool (`Clear`); an update served late that finds its
  index free and no other on its way is then appended or lost, and takes no row of the history with it
  (`ServeLateStep`).
- *Examples_proofs*, the integration check. `CheckInv` follows the order of the 29 checks (`Before`): up to its turn
  nothing is bought, topped up or diluted (`Money`); as long as nothing failed, the batch
  is there after the check that gets it and usable after the one that waits for it
  (`Explained`); when the feed is fetched, the newest update is this run's, or there is
  an excuse (`Fetched`).

TypeOK, LevelsBounded, NothingLost, PanicNeedsFault and EmptyMeansEmpty (FileChunker),
SilentCancel (Subscription), FirstMessage (PssReceive), HeightInRange (Stamper)
and the types of Feed and Stamper are proved for every instance, and the runs no
longer check them.

Only model-checked: liveness itself, since the provers have no ENABLED (CallsReturn, CancelEnds,
NodeEndDelivers, NothingLeaks, ReceiveReturns, Terminates, UploadEnds). Every safety property and
refinement that a passing run checks is proved, and of each liveness property what holds without
fairness: that nobody waits for what nobody does, or that the steps run out. What is
left to fairness is that a step that stays possible is taken.

- CancelEnds, NodeEndDelivers: CancelNeverStuck, NodeEndNeverStuck and GoroutinesTire.
  The first two say that until all is closed, or received, the guard of a step of the reader
  or of the watcher is true (`ReaderReady`, `WatcherReady`; for the second, or there is a message to
  take). They follow from `SubInv` and `Endings`, which says what each end of a goroutine
  leaves behind it. The third bounds the steps of the two by `StepsLeft`, a number made of the frames
  on the wire and to come and of the closes to be made; nobody else's step adds to it.
- ReceiveReturns, NothingLeaks: ReceiveNeverStuck and ReceiveLeavesNothing, by the same
  invariants and `OwnCancel`: as no other call of Cancel exists, PssReceive's own is under way or done once
  it has a result.
- UploadEnds: UploadNeverStuck. `PipeStands` says that an end of the pipe that stops tells the other,
  and `ChunksStand` that a streamed file is sent one of its chunks at a time and the manifest saved
  once; the theorem is about uploads the bounds on additions and saves leave room for.
- CallsReturn: CallsTire. Every step of a call lowers, in lexicographic order, the bytes to
  take (or the last leaf), the levels to scan and the levels a cascade can reach. The stack
  that Finalize's loop goes up can grow under it, but only once: what it adds is a level with
  one reference above levels that `Descent` knows to be empty (`Bare`), where the loop stops.
- Terminates: RunAdvances. A step leads to a later check or to the end, or is one more
  round of a loop; `Rounds` bounds the rounds.

## Findings

- `mantaray_stale`: AddFork (`pkg/manifest/manifest.go:392`) leaves cached addresses
  on the way from the root to the change; the next save misses the new file.

Shown by the properties without a run (see Runs):

- ExtendStorageDuration (`storage.go:174`) passes the block time for the price and the
  price for the block time (`pkg/postage/postage.go:423`); it tops up far too little.
- RemoveFork (`manifest.go:454`) inserts the children of the removed node again
  without what hangs below them.
- FindNextIndex (`pkg/file/feed.go:139`) reads a status 500 as an empty feed, and the
  update at index 0 is written over. swarm-deploy, swarm-vault and swarm-blog publish
  through it: their command succeeds all the same, and the
  feed has lost an update that the history names, or its newest update is still the one before.
- When its context ends, PssReceive may return (nil, nil) (`pkg/pss/subscribe.go:136`).

Met while modelling, and left out of a property by name or by a comment:

- Manifests and feeds. AddFork drops the reference of a path that leads to a node
  already (the `shadowed` paths), which entries streamed in an order of the caller's
  meet as well; CalculateSelfAddress followed by SaveRecursively uploads the root alone;
  DownloadReference takes the first 32 bytes of any longer payload for a reference
  (`feed_rw.go:39`).
- Streaming. With Encrypt set, the references UploadChunk returns are not those the
  manifest names, which are computed locally (`pkg/file/stream.go:137`); the Total of the progress
  report is never set. In the tar ways a nil context leaves the goroutine
  on its pipe, and the error of `tw.Close` is dropped (`pkg/file/file.go:134`): the node sees a cut
  archive.
- Storage. NewStamper accepts depths whose limit does not fit 32 bits, where every
  bucket is full at once; ExtendStorageSize spends one unit per chunk more than
  GetSizeExtensionCost quotes.
- Chunker. The comment at `file_chunker.go:111` promises a payload for an input of one
  leaf that flushLeaf has dropped before.
- Calls on the node. An answer without the expected field is an empty hash or a zero and
  no error; IsGateway takes any error status for no; a price beyond 64 bits keeps its
  low bits; the rows of a pin check that end in blanks count less than they are read,
  so that a list may be cut in silence (`pkg/api/pin.go:137`).
- Tools. Two commands at once lose one of their entries; a file torn by a kill blocks the
  strict tools and is taken for an empty one by keyring, rss, share and pinner, whose next
  command then forgets what it held; a pass of the pinner that fails uploads the same files
  again; two shares of one second have one id, and revoke finds the first only.
- Integration check. A failed `mine` leaves a nil key that GSOC uses (`main.go:702`); a
  malformed BEE_SIGNER_HEX ends the program after the batch was bought; a BEE_BATCH_ID of
  zeros skips every gated check and exits with 0; a dilution is read back at once, before
  the chain shows it; a stale answer of the feed counts as an answer and is not retried.

## Plan

Built: chunker, subscription, stamper, feed, storage, manifest, then uploads of
collections, calls on the node, tools, integration check. What would come next:

1. Unmarshal in Mantaray: a trie whose children are not loaded.
2. A path-to-reference map as the abstract manifest, with Mantaray shown to
   implement it on the paths that are not shadowed or orphaned; an ordered message
   stream as the abstract subscription.
3. BuyStorage with a lost answer and the caller that tries again, composed with
   StorageExtension.
4. swarm-relay composed with Stamper rather than with its counts.

## Not modelled

Hashing, signing and byte layouts (`bmt.go`, `chunk.go`, `soc.go`, `cid.go`,
`gsoc.go` of `pkg/swarm`, stamp marshalling): addresses are opaque here. The value types
(`typed_bytes.go`, `tokens.go`, durations, sizes): parsing, formatting and big-number
arithmetic without state, of which a model would only restate each function. Header
formatting, upload options, JSON layouts and URL building, except for the shapes of
answers in NodeCalls. GSOC mining, a search by hash value. Single requests without state
beside those of NodeCalls: downloads, PSS and GSOC send, feed manifests. HashDirectory and
HashCollectionEntries, which are the streamed ways without uploads. Commands of the tools
that only read and print, and what they encrypt. The development client.
