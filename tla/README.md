# Formal model of mcp-content-guard

mcp-content-guard stands between an MCP client and an MCP server.  Tool results
that are too large go into a cache, the client gets a stub that names the cache
id, and a `seek_result` tool (injected into `tools/list`) reads the cached
content back, filtered.  This directory holds TLA+ modules for it, from the
command line to the statistics file, TLC runs that check them on small
instances, and proofs, for every instance, of all the safety properties and the
three refinements that the runs check.

## The system

| Component | State | Operations | Hard part |
|---|---|---|---|
| Cache, `internal/cache` | LRU list, index, byte count, mutex | `Store`, `Get`, `evictOldest` | three structures that must agree; the budget's boundary; ids drawn outside the lock |
| Interception, `internal/intercept` | none of its own | `MaybeCache`, `SeekResult` | which results are replaced; what a stub stands for later |
| Stdio proxy, `internal/proxy` | `pending`, channel `out` (64) | `Run` with four goroutines | registration before forwarding, bounded pipes, closing the channel, an upstream that dies |
| HTTP server, `internal/httpserver` | none between requests | `ServeHTTP`, `handleMCPPost`, `collectSSE`, `forwardRaw` | concurrent POSTs over one cache, SSE, limits, headers |
| Statistics, `internal/stats` | four atomics, `flushMu`, a file | `RecordCache`, `RecordSeek`, `Save`, `flush` | not one lock over the counters; one file for several processes; crashes and failed reads and writes |
| Filter engine, `internal/filter` | none | `Apply` (jq, grep, head, tail, line) | boundaries, limits, timeouts |
| Injection, `internal/schema` | none | `InjectSeekResult` | malformed lists |
| Messages, `internal/rpc` | none | classification, reply encodings | ids as `any` |
| Command line, `main.go` | configuration | choice of mode, launch, exit code | what happens after `Run` |

How they interact: `main.go` makes the one cache, the one statistics object and
either the stdio proxy (with a child process) or the HTTP server.  Both
transports call `intercept`, which calls the cache and the statistics.  In stdio
mode goroutine A (client to upstream) inserts into `pending` and sends
`seek_result` replies on `out`; goroutine B (upstream to client) looks up and
deletes in `pending`, stores in the cache and sends on `out`; a writer drains
`out` to stdout; a closer closes `out` when A and B are done.

What makes each part correct:

* cache: what was stored is read back unchanged under its id until it is evicted;
  ids are never reused; the least recently used entry goes first and no sooner
  than the budget requires; the books (index, list, bytes) agree;
* stdio proxy: no result above the threshold passes, every response is treated according to
  its request, both directions keep their order, nothing is lost or answered
  twice, shutdown neither panics nor drops lines nor hangs;
* statistics: no unit is ever counted twice; with one process every unit recorded
  is counted once or destroyed by a crash or fault, the file is always readable,
  and it shrinks only after a failed read;
* HTTP server: one answer per POST, no part of a message taken for a whole one,
  refusals (OAuth) recognisable to the client, configured headers on what goes up;
* filter: each form shows exactly the lines it names, at the boundaries too, and
  every call ends;
* command line: the statistics of a wrapper can be found with the words that
  started it; misuse exits and starts nothing;
* both transports together: one answer per request, large results as stubs only,
  and ids that read back what their stubs stand for.

## Modules

| Module | Models | Role |
|---|---|---|
| `ResultStore` | what the transports need of a cache | abstract specification |
| `Cache` | `cache.go` | refines `ResultStore` |
| `CacheProofs` | | theorems about `Cache` |
| `Stats` | `stats.go` | counters, flush, file system |
| `StatsProofs`, `StatsCountProofs` | | theorems about `Stats` |
| `Guard` | what both transports promise a client | abstract specification |
| `StdioProxy` | `proxy.go`, with `intercept.go`, `InjectSeekResult` and message kinds | composes the goroutines with a `ResultStore`; refines `Guard` |
| `StdioProxyProofs`, `StdioGuardProofs` | | theorems about `StdioProxy`, its refinement of `Guard` |
| `HttpServer` | `server.go` from the request to the answer, with `intercept.go` | concurrent POST handlers over a `ResultStore`; refines `Guard` |
| `HttpServerProofs` | | theorems about `HttpServer` |
| `Forwarding` | `server.go`, routing and request headers | operators that `Launch` uses |
| `Launch` | `main.go` | command line and config file to statistics key, mode, exit, forwarded headers |
| `LaunchProofs` | | theorems about `Launch` |
| `Filter` | `filter.go` | one call of `Apply` |
| `FilterProofs` | | theorems about `Filter` |
| `MCCache`, `MCStats`, `MCStdioProxy`, `MCHttpServer`, `MCFilter`, `MCLaunch` | | values of the constants for TLC |

The layers: `Cache` implements `ResultStore`; the transports are built on
`ResultStore`, so what holds of them holds with any eviction policy; both
implement `Guard`.  That a filter shows some part of a content or rejects it is
all the transports know of it; `Filter` says which part.

Operators whose names begin with `Bug` are not part of any behaviour: each is a
plausible mistake in the definition that follows it, and PROJECT.json pairs it
with the property that notices it.

### Cache

`lru`, `items`, `curBytes` and `mu` are the struct's fields; `lru` holds the
entries front first.  `DrawId` is `newID` before the lock, `Lock`, `Evict` (one
turn of the loop) and `Insert` are `Store`; `GetHit` and `GetMiss` are `Get`,
atomic because they run under the mutex from beginning to end.  Two ids drawn
are never equal: 32 random hex digits are modelled as fresh.  `stored` (id to
content, for ever) and `since` (id to the entries used after it) are history.
Contents are model values with a `Size`.

### Statistics

One step per atomic operation, lock operation or system call.  `os.WriteFile` is
two steps, `Open` (which creates and truncates) and `Write`.  The file system is
two names, `path` and `tmp`, leading to inodes with contents; an open descriptor
keeps its inode when the name is renamed away.  `SyscallFails` lets the open, the
write (a partial one is possible) or the rename fail; `MergeBlind` is a flush
whose `os.ReadFile` fails, which `readTotals` turns into zero totals, so that the
file it publishes holds its own delta only.  `Crash` kills a process and starts it
again.  Each record adds one unit to each of its counters.  `recorded`, `lost`,
`blind` (the workers whose flush could not read) and `users` (the processes that
have recorded something) are history.  `Conserved`, `HistoryOnlyGrows` and
`NeverCorruptedAlone` speak of the time while `users` has at most one member: once a
second process records, renames overwrite each other's units and finding 1 can
happen.  The files of a machine that loses power without `fsync` are not
modelled, nor are the read-only reports (`LoadAll`, `Format`).

### Stdio proxy

Pipes are bounded sequences of lines, and a write to a full one blocks.  A line
carries its kind, method and place in its stream; the place is also the id of a
client's request, so ids of requests in flight differ, as JSON-RPC demands, while
the upstream's own requests may use the same numbers.  A call of `seek_result`
whose arguments do not unmarshal is a `bad_seek`; for the code its method is
`tools/call` like that of every call (`Method`), so it is registered as one, and
the upstream's answer to it may be cached.  A's program counter
follows `handleClientMessage`: `Route` chooses the branch, `ARegisters` is the
insertion under `p.mu`, `AForwards` the write, `ALooksUp` the cache, filter and
`RecordSeek`, `AReplies` the send.  B's follows `handleUpstreamMessage`: a line
is handled by exactly one of `BCaches`, `BInjects` and `BPasses`, each of which
looks up and deletes the `pending` entry, and then sent.  B's lookup and its
`Store` are one step: between the two nobody else can touch the entry that was
deleted.  `BEvicts` is the eviction in `Store`.  The cache is the abstract store,
so what is checked here holds for any eviction policy.  The client reads its
output, so the writer never blocks for good.  Client and upstream are external:
the client sends any line at any time and may close; the upstream reads, answers
each request once in any order, says other things, ends on EOF or dies.

`Asked`, `View` and `Answered` are the refinement mapping to `Guard`.  What was
asked under an id comes from the client's lines; an answer exists from the moment
A or B has it to send, so that a lookup and a `Store` map to the abstract `Read`
and `StubResult` in one step.  `answers` is a sequence, so that a second answer to
one request would show.

### HTTP server

Each POST to the MCP path is a handler, as in `net/http`.  `Rejects` is the size
limit (and an upload that breaks off), `Seeks` answers `seek_result`, `Calls` sends
the request up.  The upstream's headers come with `UpstreamAnswers`, or never: then
`CallFails` (no connection), `TimesOut` (the header timeout) or `ClientLeaves` ends
the wait.  Its body is read until `BodyEnds`.  A body may stall after its last byte;
`Waits` says when the handler then goes on reading: not if the limit on the body or
on a line has been reached.  No timeout ends that read, only a client that leaves.

What `doUpstream` makes of the answer is a function: `Body` (a JSON body as sent,
or cut at the limit, or unreadable because compressed), `Collected` (`collectSSE`:
the last whole response of a stream, `{}` if there is none) and `ReadFails` (the
body breaks off, or a line is longer than the scanner's buffer).  A stream holds one
or two messages: the POST's own response, a notification or request of the
upstream, a response to some other id (a stray).  `collectSSE` looks at no id, so a
stray that comes last is taken.  Then exactly one of `CopiesRaw`, `ReadsBadly`,
`CopiesBack`, `Caches`, `Injects` and `WritesBody` writes the answer; they follow
the early returns of `handleMCPPost`.  A reply records what became of the upstream's
headers: `copyResponse` keeps them, but those of a stream have been given the
Content-Type of JSON before (`"retyped"`), `writeJSON` drops them.  The length of a
message is that of its content; requests carry a length at the limit or one beyond
it.  `Nothing` is the empty body of a 202.

The mapping to `Guard` takes the POSTs for requests.  A body that the proxy could
not read (compressed, cut, part of a refusal) counts as no result.

### Forwarding and launch

`Launch` follows `main`: `ReadsConfig`, one `MergesHeader` for each
`--upstream-header`, then one of `GivesUp`, `ShowsStats` and `Starts`; in local
mode `ChildExits` is the end of `cmd.Wait`, in HTTP mode `Forwards` passes requests
on.  A command line is the words after the flags and which flags are given;
`flag.Parse` takes one `--` away (`Args`), `main` a subcommand and then another
`--` (`Subcommand`, `Stripped`).  The key of the statistics file stands for the
path; the hash is left out.  A sequence of words stands for the text that joins
them, because the words contain no blanks.  `Forwarding` says which of three
ways a request takes up (`Path`) and which values each header can have there: what
`doUpstream` adds, what the `Director` of the reverse proxy sets, what `forwardRaw`
copies.  Where Go iterates over a map the result is a set of possible values.

### Filter

One call of `Apply`.  A text is the sequence of its lines, a content a sequence of
text and other blocks, or a JSON value that is no such array.  `Form` and `Valid`
are `stripJQShellSyntax` and the dispatch; `Refuses` is every error before a line
is read, `Cuts` the full text, head, tail and line.  grep takes a step for each
line and looks at the deadline every `Stride` lines of a block; jq takes a step for
each result.  `Expires` is the deadline, at any moment.  What a regular expression
matches and what gojq emits are free choices; gojq stops with an error once its
context is done, which is how `applyJQ` relies on it.

## Runs

| Run | Instance | Shows |
|---|---|---|
| `cache` | 2 callers, 3 ids, sizes 1, 2, 4, budget 3 (the default, through `CacheMaxBytes = 0`) | invariants, no premature eviction, every `Store` ends, refinement of `ResultStore` |
| `stats` | 2 goroutines of one process, 1 of another, 3 records, 1 crash, 1 fault (a failed read, open, write or rename) | conservation, readable file, growing history of one process alone; no count is invented by two |
| `stats_torn` | 2 processes, 2 records | **violation**: an empty file is published |
| `stdio` | 2 client lines of each kind, 2 upstream lines, contents of length 1, 2, 3, threshold 2, channel of 1, pipes of 2, upstream may die | treatment, order, conservation, `pending`, records, shutdown |
| `stdio_live` | 3 calls, pipes and channel of 1 | everything is answered, `Run` returns, reads are faithful, refinement of `Guard` |
| `stdio_exact` | one call, the same contents | **violation**: a content of exactly the threshold is cached |
| `stdio_seek_forwarded` | as `stdio`, with ill-typed calls | **violation**: such a call is forwarded |
| `stdio_exit` | upstream may die, client need not close | **violation**: `Run` does not return |
| `http` | a POST of every kind with every answer beside a POST of `tools/call` or `seek_result`; contents of length 1, 3, 4, 5, threshold 2, line limit 3, body limit 4 | treatment, faithful reads, whole responses only, refusals, every POST answered, refinement of `Guard` |
| `http_headers` | as `http` | **violation**: the upstream's headers are dropped |
| `filter` | contents of up to 2 blocks of up to 3 lines, numbers from -1 to beyond the longest content, a look every 2 lines, 2 jq results | exact answers, the deadline noticed, every call ends |
| `launch` | command lines of up to 3 words out of `start`, `stats`, `--` and a command, all flags, 5 config files, 2 header names in 3 spellings | the statistics file is found, configured headers reach the upstream |

Why the bounds are enough.  Cache: sizes 1, 2 and 4 over a budget of 3 give a pair
that fits, a pair that does not, an exact fit and an entry that can never fit;
three ids let an entry be evicted, missed and replaced while two callers are in
flight.  Statistics: three records, each able to be the flush that carries
another's units, by any two goroutines of one process or of two; the fault and the
crash may strike at every step.  Stdio: with a
channel of one line every send can block, and with pipes of one or two lines
every forward can; two lines suffice for a request to be overtaken by another's
answer, three for two cached results and a read, or a result and two reads.  The
64 of the real channel only makes blocking rarer.  HTTP: the lengths lie below
and above the threshold, at and above the line limit, at and above the body limit,
and a message before the response moves it across the limit.  Handlers meet only in
the store: one may be asked anything and answered in every way, and one beside it
that stores or reads is enough for each to read what the other stored and to have
it evicted.  A length of exactly the threshold is left to the `stdio` runs, because
both transports call the same `MaybeCache`.  `stdio_live` leaves the length of
exactly the threshold and ill-typed calls to `stdio` and to the proofs.  Filter:
the numbers reach from below zero past the longest text, blocks are shorter than,
equal to and longer than the stride, and the real 1024 and 100,000 only make the
limits rarer.  Launch: three words hold a subcommand, a separator and a command in
every order; the headers merge in one flag over one of the file, in the same and in
another spelling.

Deadlock is checked in all runs but those of the statistics (`Finished` is the
stuttering of what has come to its end).  There the bound on records is the
environment's end and not the program's.

Symmetry: cache ids and inodes are interchangeable model values in the stdio and
statistics runs that check safety only; the other runs use none.

Fairness.  `Cache!FairSpec`: the caller that holds or can take the mutex
proceeds, and the mutex is strongly fair to a waiting `Store` (Go's mutex hands
itself over to a starving waiter).  `StdioProxy!FairSpec`: each goroutine that
can run runs (the Go scheduler), the upstream reads its input, answers what it
owes and ends on EOF.  `HttpServer!FairSpec`: some handler that can run does, some
header timeout that runs strikes in the end, and some body that does not stall
ends.  The upstream need never send headers, nor an ending to its body: bodies that
stall are among those it may send.
`Filter!FairSpec`: the goroutine runs, time passes, and gojq notices a context
that is done; nothing makes a pipeline end.  Nothing is assumed of the client, of
eviction or of the upstream's other lines; and for `AllAnswered` the upstream must
not die.

## Findings

1. Several processes of one config share the file *and* the temporary file.  The
   comment in `stats.go:94` promises that the file is never corrupted; one
   process can truncate the temporary file that another is about to rename.  The
   totals then read as zero, and the history starts again.  README.md:177 makes
   the same promise.
2. A content of exactly the threshold is cached (`intercept.go:34`), although
   `intercept.go:16`, README.md:16 and README.md:104 say that only a longer one is;
   README.md:23 agrees with the code.  `Guard`, `RightTreatment` and
   `LargeNeverInline` take no side: they let this one length go either way.
3. A `seek_result` call with ill-typed arguments reaches the upstream, although
   README.md:227 says none does.
4. When the upstream dies while the client keeps its side open, `Run` does not
   return, so the exit code that `main.go:211` wants to propagate is not.
5. Answers over HTTP to methods other than tool calls lose the upstream's
   headers, `Mcp-Session-Id` with the answer to `initialize`, although README.md:81
   promises to forward such traffic byte for byte.  The same sentence covers 401s,
   and `server.go:175` calls them "completely unchanged"; `RefusalsPassThrough` shows
   that this holds exactly of those that are no event stream and not longer than the
   limit.  Of a stream the client gets the last response, or `{}`, as JSON.

What the models show besides, as the exceptions their properties name:

* a compressed answer is not intercepted, because the client's `Accept-Encoding`
  goes to the upstream (`LargeNeverInline`);
* a refusal whose stream has too long a line becomes a 502 (`RefusalsPassThrough`);
* a POST waits for a body that stalls as long as the client does: for the end of a
  stream whose response has come, or of one in which the upstream has asked the
  client something, since the question is held back (`EveryPostAnswered`);
* a response to some other id takes the place of the POST's own if it comes after
  it in the stream (`OnlyWholeResponses`);
* a statistics file that cannot be read when a flush wants to is replaced by that
  flush's delta (`Conserved`, `HistoryOnlyGrows`);
* the upstream's answer to a `seek_result` call with ill-typed arguments is cached
  if it is long enough (`RightTreatment`);
* the MCP path prefers the client's header to the configured one, the reverse proxy
  the reverse; a body that is not one JSON-RPC message (a batch) goes up without
  configured headers, although README.md:110 says every request has them; two
  spellings of one header leave the value to the order of a map (`HeadersReach`);
* a command named `start`, `stats` or `--` is taken for main's own word, so its
  statistics are not found as README.md:179 describes (`StatsFindable`);
* `line:0` of a content without text is out of range, while `head:1` shows a
  blank line; a form with blanks before it is taken for jq (`AnswerRight`).

## Proofs

Eight modules hold the theorems; each takes its invariant apart into named parts,
shows with one lemma per action (or group of actions that do the same) that the
parts are kept, and derives the properties from them.  Every safety invariant,
every action property and every refinement that a passing run checks is a theorem.

### `CacheProofs`

For every set of ids, callers and contents, every size and every budget:

* `CacheTypes`, `CacheIndex`, `CacheBytes`, `CacheOrder`, `CacheBudget`: the five
  invariants of the `cache` run;
* `CacheKeepsWorkingSet`: the action property;
* `CacheImplementsResultStore`: the refinement.

Assumptions: `SizeAssumption` (sizes are naturals), `BudgetAssumption` (the
budget and its default are integers, the default natural), `NoCallerAssumption`
and `NoContentAssumption` (the model values stand for none of the callers or
contents).

None of the invariants is inductive alone: removing the back of
the list keeps the index right only if the back is in the index with the same
content and nowhere else in the list, subtracting its size keeps the byte count
right only if that size was counted, and the order of the list speaks of the
history.  `IInv` is therefore the conjunction of the types, the agreement of list
and index, the byte count as the cardinality of a set of bytes (so that no sum
over a set has to be defined by recursion), the order, the protocol of the mutex
(who is past `Lock` holds it, and only while it is held may the budget be
exceeded) and the distinctness of ids in flight.  For the refinement each action
maps to a `Put`, a `Drop`, a `Lookup` or a stutter.

### `StatsProofs`

For any number of processes and workers that share the file: `StatsTypes` (with the
mutual exclusion of flushes) and `StatsFlushedWhenIdle`.  As long as one of them alone
has recorded anything, with any number of workers, crashes and failed system calls
(with two it is false, see finding 1): `StatsConserved`, `StatsNeverCorruptedAlone`
and `StatsHistoryOnlyGrows`.

Assumptions: `ProcOfAssumption`, `NobodyAssumption`, `NoFileAssumption`,
`KindsAssumption`.

Conservation needs to know that a swap overwrites nothing, so `Hands` says that a
flush has nothing yet of the counters on its list, each of which is there once,
and `NothingForgotten` that a counter that is not zero has a worker which will come
for it.  That the rename publishes exactly the history and what the flush had in
its hands is `Publishes`: while a flush writes, the temporary file is its own and is
not the file a reader finds (`Filed`), and the totals it merged are still those
that are published, or its own delta alone if it could not read the file (`Base`).
Here a second process would break the proof; `Quiet` says that one which has not
recorded anything has nothing in its counters or its hands, so that `Alone` really
means one writer.

### `StatsCountProofs`

`StatsNeverOvercounts`: with any number of processes, workers, crashes and failed
system calls, no file ever shows more of a kind than was recorded.

Assumptions: those of `StatsProofs`, and `UnreadableAssumption` (an empty or
half-written file is no record of totals).

The property says nothing of units that a later flush will still add, so it is not
inductive.  `CountInv` counts the units that can still come: those in the counters
(`InMem`) and those a flush has taken and not yet added to what it read
(`InHands`), as cardinalities of finite sets with one element for each unit.  Every
file with totals, and the totals every flush is about to write, leave room for all
of them (`LeavesRoom`).  A flush that reads the file moves its units from its hands
into its totals; two that read the same file lose the units of one, which only
makes more room; so does a read that fails.  That is why this holds with several processes and conservation
does not.

### `HttpServerProofs`

For any number of POSTs, all contents, lengths, thresholds, limits, defects and
strays:
`HttpTypes`, `HttpLargeNeverInline`, `HttpSeekReadsOriginal`,
`HttpOnlyWholeResponses`, `HttpRefusalsPassThrough`, `HttpRecordedExactly`, and
`HttpImplementsGuard`, the refinement.

Assumptions: `SizeAssumption`, `LimitsAssumption`, `MethodsAssumption`,
`HandlersAssumption` (there are finitely many POSTs, for the counts),
`NoContentAssumption`.

`SeekReadsOriginal` is not inductive, because it says nothing of what lies in the
cache unread: `Backed` adds that every entry stands behind exactly one stub and that
the ids of stubs have been issued.  `Protocol` says what a POST has at each point of
its way.  `BodyShape` shows that what `doUpstream` returns has a result's content
only where it is a result, compressed or cut.  `HttpOnlyWholeResponses` computes with
lengths: an upstream's stream has at most two messages in the model, so the fold
that adds their lengths up can be unfolded (`LengthLemma`), and a prefix is never
longer than the whole (`PrefixLength`).  Nine of the actions only write an answer; `PlainWrites` shows
once what these answers have in common, and the invariant and the refinement both
use it.

### `StdioProxyProofs`

For any capacities of the pipes and the channel, any number of lines, contents,
sizes and threshold, any eviction, with an upstream that may die at any time:
`StdioTypes`, `StdioRightTreatment`, `StdioUpstreamOrder`, `StdioClientOrder`,
`StdioRequestsConserved`, `StdioPendingExact`, `StdioRecordedExactly`,
`StdioNothingLostAtReturn`, `StdioSeekReadsOriginal` and the action property
`StdioNoSendOnClosed`.

Assumptions: `SizeAssumption`, `BoundsAssumption` (capacities and bounds are
positive), `MethodsAssumption`, `OtherKindsAssumption`.

All the lines on their way to the upstream, those it has read included, are one
stream (`FromClient`), and all those on their way to the client another
(`ToClient`).  A step of the program appends to a stream, takes one line out of it
or only moves a line from one pipe, variable or channel to the next, so the proof
first shows what these three changes do to a sorted sequence and then, for each
action, which change it is.  `FromClientOK` and `ToClientOK` say that the streams
are sorted and complete.  No property is inductive alone: that B finds the method of
a response's own request needs that `pending` has an entry for everything that is
owed (`PendingOK`) and that an answer is to a request that was read and is no longer
owed (`UpstreamAnswersOK`); that the entry is not another's needs that ids do not
recur; that a read is faithful needs that every entry of the cache stands behind
exactly one stub on its way (`Backed`); and that nobody sends on the closed channel
needs that it is closed only when A and B are done (`Closing`).

### `StdioGuardProofs`

`StdioImplementsGuard`: every behaviour of the stdio proxy, fair or not, is one of
`Guard`.  `ReadyOnce` shows from the invariant that an id never has two answers.
Then a step either adds one answer, and which action of `Guard` it is follows from
the branch that A or B is on, or it adds none and the cache at most drops an entry.

### `LaunchProofs`

For any sequence of words, any flags, config file and spellings of header names:
`LaunchStatsFindable` and `LaunchHeadersReach`.

Assumptions: `CommandLinesAssumption`, `FilesAssumption` (the inputs have their
types; words are strings), `CanonAssumption` (each spelling has one canonical name).

The run has three words at most; the theorem shows that it does not matter, because
main takes at most three words apart, a separator, a subcommand and a second
separator, and the key is all that follows.  For the headers the invariant says what the merge has done after each
flag (`MergeOK`): what came from the file and the flags merged so far, the flag's
value where both name one.

### `FilterProofs`

For contents of any number of blocks and lines, any numbers, stride and cap:
`FilterAnswerRight` and `FilterDeadlineNoticed`.

Assumptions: `LimitsAssumption` (bounds, stride and cap are positive),
`NumbersAssumption` (numbers are integers), `BlankAssumption`.

That each form shows the lines it promises is a statement about two functions that
are defined by recursion, the choice of positions from a sequence (`Select`) and the
joining of the blocks.  The library's induction theorems take a predicate as a
parameter, which cannot be instantiated here, so `Naturals` states induction for a
*set* of numbers and takes it from the well-foundedness of the order.  With it
`BuilderExists` and `BuildersAgree` show that the recursion has a solution and only
one, and that the whole text cut by head, tail, line or not at all is this solution
(`SelectFirst`, `SelectLast`, `SelectOne`, `SelectAll`).  `JoinPrefix` and
`LinesOfContent` place every line of a block in the whole text.  grep then has an
invariant (`FoundInv`): what it has found is the choice from the lines it has read,
across blocks.

For the deadline the invariant counts the lines since the last look as a remainder
(`Since`); from one line to the next the remainder grows by one or starts again at
zero, which is when grep looks, and at a new block it starts again as well.

### Only model-checked

Liveness: `StoreReturns`, `EOFReturns`, `AllAnswered`, `EveryPostAnswered` and
`Returns` (fairness and `ENABLED` are beyond the prover).  The five violations are
counterexamples and need no proof.

## Not modelled

* Numeric limits on the command line: three times the same precedence of flag,
  file and default.
* The inside of the standard library's reverse proxy, of `regexp`, of gojq and of
  `encoding/json`.  Lines are classified, not parsed: that ids go through
  `float64` (`proxy.go:184`) and that jq is given text blocks concatenated without
  a separator (`filter.go:188`) are listed as hazards without a property.
* The hash in `PathForKey`, the wording in `Format`, `LoadAll` (only tests call it).
* A failing entropy source in `newID`, failing `json.Marshal`.
* Copying the upstream's stderr: it shares no state with the rest.
* Benchmark tooling under `bench/`: a sequential script that drives the binary.

## Plan

1. Done: `ResultStore`, `Cache` with proofs, `Stats`, `StdioProxy`, `HttpServer`.
2. Done: `Filter`, `Forwarding`, `Launch`, streams that wait for the client, and
   `Guard` with both refinements.
3. Done: `StatsProofs` and `HttpServerProofs`.
4. Done: `StdioProxyProofs`, `StdioGuardProofs`, `StatsCountProofs`,
   `LaunchProofs` and `FilterProofs`.
5. Left: what `Guard` and `ResultStore` promise stated as theorems about them, so
   that both transports inherit it through their refinements.
