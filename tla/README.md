# A TLA+ model of go-asyncapi

go-asyncapi reads AsyncAPI documents, follows their `$ref`s to other documents,
links everything into one graph of artifacts and renders Go code from it. The
generated code comes with runtime clients for a dozen protocols. This directory
models the parts whose behaviour is more than a straight line: the stages of the
tool that iterate, look things up late or roll back, and the runtime parts in
which goroutines meet.

Paths below are relative to the repository root.

## Inventory

| Component | State it keeps | Operations | Interacts with | Hard behaviour | Correct when |
|---|---|---|---|---|---|
| Document queue, `cmd/go-asyncapi/code.go` `runCompilation` | queue of locations, map of documents by location | take the head, skip, refuse, load and compile, append its external `$ref`s | locator (resolve, locate), document compiler | cycles, several spellings of a location, remote documents, failure halfway | it compiles the reachable documents, each once, nothing forbidden is fetched, it stops |
| Locator `internal/locator/default.go` | none | ResolveURL, Locate | queue, file system, HTTP | `..`, root directory, URL against path | a relative `$ref` means the file seen from its document, the root directory is never left |
| Subprocess locator `internal/locator/subprocess.go` | child process, buffers, deadline | Locate | user's command, goroutines of os/exec | deadline against exit, inherited pipes, unsynchronised buffer | it returns, passes on whole answers only, leaves no command behind |
| Document compiler `internal/compiler`, `internal/asyncapi` | path stack with flags, artifacts and promises of a document | walk, Compile of each object, PutArtifact, PutPromise | queue, linker | pointers composed twice, inherited flags, errors halfway | every object gives its artifact and promises at its pointer, and a schema is tagged as its place says |
| Linker `internal/linker`, `internal/render/lang` | promises with targets, list promises | ResolvePromises, resolvePromise, ResolveListPromises, Assign | documents' artifacts and promises | map order, chains and cycles of `$ref`s, panics | every promise gets the end of its chain, whatever the order |
| Linked objects `internal/render` | promises, flags | Selectable, Visible, Bound*, ActiveProtocols | linker, selection, templates | decided apart per object, on `$ref`s or their targets | what one object's code uses is generated for another |
| Selection `internal/selector`, `code.go` | none | GatherArtifacts, ApplyFilters, collectVisibleArtifactsByType | linked documents, renderer | order of equal names, `not` | a rule selects what it says, in a fixed order |
| Rendering `internal/renderer/code.go`, `internal/tmpl/manager`, `internal/tmpl/functions.go` | queue, postponed objects, namespace and files, committed and not | RenderArtifacts, BeginFile, Commit, pin, once, goPkg and its like | templates, imports, extra code, writer | rollback, postponing, sharing of the imports | it succeeds when some order does, a failed attempt leaves no trace |
| Imports manager `internal/tmpl/manager/import.go` | imports of a file with aliases | AddImport, Clone | rendering | generated aliases | no two imports of a file have one name, and a name in the text keeps its meaning |
| Extra code `internal/renderer/extra.go` | template loader | RenderUtilCode, RenderImplementationCode | rendering, writer | rendered before the objects, for protocols collected apart from them | every protocol in use gets its code |
| Accessors of correlation IDs `internal/tmpl/functions.go`, `templates/code/runtime_expression.tmpl` | none | runtimeExpression, the printed setter and getter | linked types, the generated messages | setter and getter are made of the same steps, differently | the getter reads what the setter wrote |
| Writer `internal/writer` | files | WriteBuffersToFiles | formatting | failure halfway | |
| `run.Ring` `run/ring.go` | list and iterator under a mutex | Append, Next, Remove | generated channels and consumers | removing under the iterator | the items take turns |
| Channels of ws, tcp, udp, ip `templates/codeextra/*/.../channel.tmpl` | callbacks, `sync.Once`, context, connection | Receive, readConn, Close | Ring, user's callbacks, peer | all interleavings of callers, reader, Close and peer | messages arrive in order without gaps, nobody hangs |
| Consumers of ws and http `.../consume.tmpl`, `examples/http-server` | handlers, rings and channels per address under an RWMutex | Subscriber, the HTTP handler, Receive | Ring, net/http, user's callbacks | blocking with the lock held, errors handed between goroutines | requests are answered, the lock is released, a connection reaches a subscriber |
| Producers of http `.../produce.tmpl`, `publisher.tmpl`, `examples/http-server` | URL per publisher, body of an envelope | Publisher, Send, applySecurity | consumers, net/http | retries, shared pointers | a payload arrives once, credentials stay with their publisher |
| kafka code and its application `examples/site-authorization` | group readers, polled and committed offsets, correlation ID | Subscribe, Receive, Publish, the client's and the server's main | broker, other clients and servers | crashes, rebalances, answers twice or to others, failed publishing | no request is forgotten, a client ends with its own answer |
| Clients of mqtt, mqtt5, nats, amqp, redis | subscriptions | Subscriber, Receive, Close | client libraries | late messages after Close | |
| `client`, `infra`, `diagram`, `ui`, configuration | options | commands | all of the above | | |

The stages of the tool run one after the other on one goroutine; a stage ends
with success, with an error that ends the program, or with a panic. Only the
generated runtime and the subprocess locator are concurrent.

## Modules

* `RefGraph` — what compilation hands to the linker: documents, artifacts,
  promises, how a promise addresses its artifact; and, independent of any order,
  what linking such a graph comes to (`Leads`, `Resolvable`, `Verdict`).
  `Leads(g, p, o)` says that object `o` is the end of the chain of `p`: it lies in
  every set of artifacts that is closed under references and holds the first hop.
* `LinkerAbs` — the abstract specification of linking: promises whose chain ends
  in an object are bound in any order, then the stage ends with the verdict.
* `Linker` — the detailed one. `EnterDocument`, `SkipAssigned`, `StartResolve`
  and `EndPass` are the loops of `ResolvePromises`; documents are entered in any
  order, as Go iterates over a map. `DocumentMissing`, `NotExactlyOne`,
  `FoundUnassigned`, `FoundAssigned` and `FoundObject` are one call of
  `resolvePromise`; its recursion is the variable `chase`. `CheckRefs`,
  `AssignList` and `FinishLinking` are the rest of `runLinking`.
* `LinkerProofs` — theorems about `Linker`.
* `Locator` — locations as records of host, absoluteness and path segments, and
  `ResolveURL`; its operator `Walk`, the reference for what a path means, goes one segment at a
  time.
* `Compilation` — `runCompilation`: one action per way an item of the queue is
  dealt with. A world holds the files, the options and the command line.
* `Pipeline` — `Compilation` composed with linking (an instance of `RefGraph`
  for the graph the compiled documents form): the compiler keys documents by
  resolved location, the linker looks them up by the location as spelled.
* `Subprocess` — one `Locate` call: the caller, the two goroutines of os/exec, the
  command, a background process it may leave, and the deadline.
* `RingAbs`, `Ring` — taking turns as a queue of who has waited longest; the list
  with its iterator, as operators from a ring to a ring, for the mutex makes each
  method one step of whoever calls it. `Consumers` implements `RingAbs`.
* `SubscriberChannel` — the generated channel. It uses the operators of `Ring`.
  Each call of Receive and each readConn goroutine is a process. `kind` tells ws, where one
  read gives a slice of messages and the context is checked before each is handed over,
  from tcp, udp and ip, where a read gives one; and tcp with a `bufio.Scanner`, unused or
  spent, which panics. `ReadMessages` leaves a read in `held`; `CheckDone`,
  `TakeCallback`, `RunCallback` and `NoSubscribers` are the loop over it, which drops the
  rest when it returns. `BufferPanics` runs the deferred cancel, `Dies` ends the process.
* `Consumers` — the server side of the generated http and ws code: calls of
  `Subscriber` with what the application does with them, the handlers of requests in
  goroutines of their own, and the RWMutex between them, with Go's rule that a waiting
  writer keeps new readers out. http takes callbacks from a ring under the read lock;
  ws offers the upgraded connection to a waiting Subscriber. `EnterEnsure` and
  `LeaveEnsure` are what runs under the write lock, `Arrive` to `CallbackReturns` the
  handler. Unsynchronised access to the map of channels (ws) may crash.
* `HttpEcho` — `Consumers` with the senders of the same package: URLs are objects that
  publishers may share, the body of an envelope is read once, the network loses
  answers, senders retry with the old envelopes or with new ones.
* `Authorization` — the site-authorization example over the generated kafka code:
  clients, servers and their successors, a broker of partitioned topics with consumer
  groups that are rebalanced. `Poll` makes what the poll before it returned
  committable, as the library does; crashes, failed publishing, failed fetches and
  records that cannot be unsealed are faults that `world.faults` allows.
* `Document` — a decoded document as nodes at JSON pointers, and what an object of each
  type compiles to: its artifact, its promises, or an error.
* `Walk` — the compiler's recursion over a document as a stack of frames beside the
  stack of keys and flags that builders read: `CompileRoot`, `VisitPlain`,
  `VisitObject`, `VisitRefused`, `Leave`, `Finish`. A builder composes the pointers of
  its fields from that stack, and so does the walk when it gets to them.
* `Generation` — continues a walk. `Link`, `LinkFails` and `LinkPanic` are linking as
  one step: the outcome that `Linker` reaches in whatever order. Then the methods
  of the linked objects (`BoundServers`, `Visible`, `ActiveProtocols`, ...), the
  selection by layout rules (`Selected`) and the names that templates declare and
  call (`Declares`, `Calls`).
* `Accessors` — on top of `Generation`: the steps that runtimeExpression makes of a
  location, the setter and the getter printed from them, and what these do when they
  run: a value, a zero value, a panic, or code that does not compile.
* `Imports` — the imports of one file and the names AddImport gives them. Names are
  values; which of them are identifiers, and what a name with a number is, are
  parameters.
* `TemplateManager` — the template manager and the template functions that change it,
  one action per call a template makes. What an attempt has done so far is in `current`,
  what was committed in `files` and `committed`; `shared` says that a file name
  expression works on the imports of the file committed last.
* `ExtraCode` — which templates of extra code go into which files and packages.
* `Rendering` — the stages of `cliCode` over these three: util code, implementation
  code, objects with their postponements, the client application. A template is the
  sequence of pins, imports and other calls it makes.
* `CompilationProofs`, `RenderingProofs`, `RingProofs`, `SubscriberChannelProofs`,
  `AuthorizationProofs` — theorems about the modules they are named after;
  `CompilationProofs` has those of `Locator`, `Pipeline` and `Subprocess` too,
  `RenderingProofs` those of `Imports`. `ConsumersProofs` — theorems about `Consumers`
  and `HttpEcho`, `DocumentProofs` — about `Document`, `Walk`, `Generation` and
  `Accessors`.

`MC*` modules choose small instances. Definitions whose comment begins with
"Mutant" are wrong on purpose and used by no specification: each one, put in the
place of the definition it follows, makes a property of the run fail, which shows
that the property depends on that definition.

## Runs

| Run | What it checks | Bounds, and why they are enough |
|---|---|---|
| `linker` | soundness and completeness of bindings, outcome independent of order, no nil dereference, complete lists, termination, refinement of `LinkerAbs` | two documents with an object and a `$ref` each and an internal promise, going anywhere; and chains of three `$ref`s with every pointer, cycles, ambiguous pointers, a find callback. Three is the first length at which a binding made on the strength of another one is used again. |
| `pipeline` | exactly the reachable documents are compiled, each once; nothing remote without the option; relative `$ref`s open the file they mean and stay under the root directory; the queue drains; flat projects link as their files say | four files, up to two `$ref`s each: cycles, diamonds, missing files, remote chains, `./a` beside `a`, a root directory; and one document anywhere around a working directory two deep with a `$ref` of `a`, `b`, `.`, `..`, so that a path can climb out of it, past the root. The first document is also given as `./a` and by an absolute path |
| `pipeline_docs` | finding, below | the same |
| `subprocess` | whole answers only, no command left, Locate returns | one call, any command; calls do not overlap |
| `subprocess_stdin` | finding, below | the same |
| `subscriber_channel` | messages in order, with none missing but the rest of the last read of a reader that has ended; giving up only for want of subscribers; one late callback at most; no hanging Receive; no leaked reader | two calls, three messages, one to three in a read; ws, tcp/udp/ip, tcp with a Scanner unused or spent: two callers race to start the reader and to leave, the reader serves a callback twice, a read before a dropped one was handed over whole, and a Scanner reads once before it panics |
| `consumers` | callbacks take turns (refinement of `RingAbs`); a message that cannot be unsealed is reported; a payload arrives once; credentials stay with their publisher; requests are answered and the lock is released, but for the two ways to hold it without bound | two subscribers, up to three requests: a handler inside, a writer that waits, a reader behind it; raw, typed and opening callbacks, two senders with retries. A third request is needed to serve one subscriber twice. |
| `ws_accept` | finding, below | the ws worlds of the same |
| `authorization` | a client ends with its own answer unless correlation IDs are equal; a request the group will not read again was answered; a client alone in its group is answered | two clients, two partitions, a server and its successor, one fault of any kind: the successor meets everything the first left behind. Clients share an environment, differ in it, draw equal IDs, or run with `glitch`. |
| `rendering` | failed attempts leave no trace; success when some order succeeds; a name in the text is declared by the import it was written for; termination | up to three objects in three files of two packages, one of them queued twice for a file, scripts that pin, refer to each other in chains and cycles, fail halfway or ask for something once, and file names that depend on pins; four packages called alike, or like an alias; extra code of two protocols in one directory or several, built in, replaced or switched off; an object whose text has no letter, whose file is left out |
| `generation` | objects compiled apart find each other; schemas get tags and definitions by their place; declared and called names agree; a message has code for every protocol of its channels; extra code is there for every protocol an object asks for; the getter of a correlation ID reads what the setter wrote | two servers, two channels, an operation, messages and a reply; each input departs from a plain document in at most three of ten choices (inline, `$ref` or ignored; explicit servers or messages; options; layout), so any three of them meet. Schemas two deep around a third, in three places: a flag is inherited past one level. Locations of up to three members through objects, maps, arrays and values of any type, any of them nullable, and objects with `additionalProperties: true`; schemas whose `properties` or `oneOf` is empty. Channels in `components` that operations and replies go over, `$ref`s to another kind of object. One document with everything else, and the early ends. |
| `generation_references` | finding, below | the same |

Deadlock checking is off in all of them: a stage that has ended, and a channel
that is closed, do stop.

Fairness. A stage of the tool is one goroutine that runs until it returns, so it
has weak fairness of its next-state relation. In `SubscriberChannel` every
goroutine that can go on does as long as the process lives, a read of a closed connection
fails, and a Close that has begun goes on; nobody has to call Receive, to cancel, to send,
or to close, so a read of an open connection may stay blocked for good. In `Consumers` and `HttpEcho` goroutines
that can run do, callbacks return and a request that was sent is answered or lost;
when to subscribe, cancel, stop or send is the application's choice. In
`Authorization` processes that can run do, a member of a group polls when there is
something to read, and a server that died is noticed and started again; nothing says
that a fault happens or that the group is balanced in favour of a client. In
`Subprocess` time passes and the tool's goroutines go on; the command need not end or
read anything.

## Findings

* `pipeline_docs` — relative `$ref`s are documented to be relative to their document
  or to the root directory. Documents are stored under such resolved locations, but
  `resolvePromise` looks up the location as spelled: with a root directory, from a
  document in another directory, or when the first document is given by an absolute
  path, linking fails or takes an object of a wrong file.
* `subprocess_stdin` — the locator's command may read an empty stdin, because the
  buffer is filled after the goroutine that copies it was started.
* `generation_references` — a `$ref` is documented to stand for its object. A server given
  by `$ref` in the root section is generated, but `Channel.ActiveProtocols` asks whether
  the object behind the `$ref` is selectable, and in `components` it is not: no channel
  gets code for its protocol. The operations of a channel given by `$ref` are not
  selected for the same reason.
* `ws_accept` — Subscriber of the ws consumer is commented to wait for a new
  connection. The handler of an upgraded connection offers it while it holds the read
  lock, and Subscriber needs the write lock before it gets to where it would accept:
  with a connection on offer, the call that would take it blocks for good, its context
  notwithstanding, and so do all later ones.

Some properties have conditions, for the cases in which the code does otherwise. They
then say nothing about those cases, which the models nevertheless have, unless it says
otherwise below:

* `FlatProjectLinks` is about the projects in which a location as spelled is also the
  resolved one: it would not notice the failure that `pipeline_docs` shows, nor that a
  file compiled under two names has its channels twice in every list.
* `Termination` of `pipeline`: the instances leave out `$ref`s that climb above the root of
  the file system, with which the queue does not drain (see References, below).
* `ReceiveReturns` and `ReaderStops` let tcp with a `bufio.Scanner` end by a panic.
* `UnsealErrorIsReported`: the error has to be written before the subscription is cancelled. When
  the caller cancels first, `err` is read unsynchronised and the error may be lost.
* `PayloadSentOnce` says that a payload is not sent twice. A retry with the same envelope
  sends an empty body, which it allows.
* `CredentialsAreOwn` holds unless a publisher changes the URL object of the server: for an
  empty address `applySecurity` does, and channels opened later inherit the credentials.
* `RequestsAreAnswered` and `LockIsReleased` have two exceptions, the two ways to keep the
  read lock without bound: a callback that opens a channel waits for itself, and
  a connection is offered that nobody accepts (the finding `ws_accept`).
* `NoRequestIsForgotten` and `ClientsAreAnswered` except failed publishing, after which the
  rest of the batch is skipped and committed. `ClientsAreAnswered` also wants the client
  alone in its group and in the environment "development", the one answers are read from.
* `ServersOpenWhatIsGenerated` has `ChannelsInPlace`: with a channel given by `$ref`, its
  operations are not generated, though the servers' code calls their Open functions, and
  an operation or a reply over a channel that is only in `components` calls an Open
  function that nothing declares. `RepliesFit`: an operation whose reply goes over a
  channel with another protocol is generated for that protocol too, and calls an Open
  function of its own channel that does not exist. And `ReferencesFit`, as does
  `UtilCodeIsThere`: a `$ref` in a section of the root to an object of another kind is
  linked, and the object generated where it stands, for no promise asks for a type there.
* `MessagesFitTheirChannels` leaves out the operations `checkArtifacts` has warned of, and
  replies that come to no messages (`ReplyHasMessages`), by a channel without any or by
  `messages: []`: such a reply falls back to the messages of the operation, which the
  reply's channel does not carry. Channels must be in place here too.
* `UtilCodeIsThere` leaves out servers given by `$ref`, whose protocol is not collected, so
  that the generation fails with ErrNotPinned: the finding `generation_references` seen
  from the other end.
* `NamesResolve` has the condition `Plain` for packages that are called like a generated
  alias (`template`, `template`, `template2`, or `a-b` and `a.b`): AddImport then gives
  one name twice.
* `SucceedsWhenPossible` has `Apart`: extra code of two protocols, or of both kinds,
  written into one file belongs to the last of them, and `goPkgUtil` of the others fails.
  And `OnceAgrees`: when a template guards one thing by `once` and another template
  something else by the same name, what is left out depends on the order, and with it
  whether a later object finds what it imports.

Differences seen while modelling that no run states:

* References. `FindCallback` is documented to be asked about the artifacts of all
  documents and is asked about one (`internal/common/promise.go:32`). A location given
  as `./a` on the command line is compiled again as `a` when a `$ref` names it. An
  absolute path in a remote document is joined to the server's URL, though ResolveURL
  is commented to return it as is. A relative `$ref` that climbs above the root of the
  file system in its own document gets a longer location on every turn.
* Layout. `not` is documented to invert a rule; `ApplyFilters`
  (`internal/selector/selector.go:47`) then rejects everything, so that "everything
  else" of the documented example is not generated.
* Rendering. Two objects that import each other are never rendered, though the
  templating guide says that a pinned artifact can be imported anywhere. The imports a
  file name expression makes end up in the file committed before. The comment at
  `internal/tmpl/manager/import.go:47` has an alias `goAsyncapi` where the code makes
  `goAsyncapi1`. A util template that asks `goPkgUtil` of its own protocol fails if it
  is the first.
* Objects. Bindings in `components` are never compiled, because only a pointer to them
  has the method `Compile` and maps hold values: a `$ref` to them makes the linker panic.
  An ignored operation or message that a `$ref` selects makes a rule with `protocols`
  dereference nil. The fields of an ignored object are compiled all the same.
  `checkArtifacts` warns of "No active servers in root" by a count that includes those
  of `components`. The walk is called breadth-first (`internal/compiler/walk.go:28`)
  and is depth-first; the properties do not depend on it.
* Accessors. The setter leaves out the lines of the last step, the `make` of a nil map
  among them, and then writes into that map; it goes through nil pointers of required
  nested objects. A number without quotes as the key of a map, a required array or map
  on the path, and `additionalProperties` with a value type that has an address give
  code that does not compile, and so does a nullable map or array on the path. A field named by a number is never found, and the empty
  member finds `AdditionalProperties`. `docs/.../runtime-expression.md:42` writes
  `$message.headers#/replyTo`, and the parser (`internal/asyncapi/utils.go:37`) accepts
  `header` only. `AccessorsFitTogether` speaks of the pairs that compile: of a setter that
  panics it says only that a container was missing, of a getter, that a pointer was nil.
* Channels. With a `bufio.Scanner` the tcp reader calls `Scanner.Buffer` before every
  `Scan` (`templates/codeextra/tcp/std/channel.tmpl:79`), and bufio panics when that is
  called after a Scan: at the second message. One Scanner serves all channels of a
  producer, so a second channel finds it spent. The producer's default,
  `bufio.NewScanner(nil)` (`produce.tmpl:32`), has nothing to scan and panics at once; its
  comment says that it splits the data. The panic is in the generated code's goroutine,
  where nothing recovers it. A ws reader that finds the channel done, or the
  ring empty, drops all that is left of the slice it read.
* Subprocess. A `RunTimeout` of 0, documented as unset, lets no command start. A command
  that runs too long gets SIGKILL at once, without the promised SIGTERM.
* site-authorization. The client has a flag for the environment
  (`examples/site-authorization/client.go:28`) and opens its channel with
  "development" (line 95).

## Proofs

For every value of the constants, that is every set of documents, every world of
files, templates and configuration, any number of calls and messages.

The linker (`LinkerProofs`), in every order of iteration:

* `TypeCorrect` — the type invariant;
* `Soundness` — a promise is bound only to the end of its chain, of an accepted type;
* `Completeness` — when the passes stop, no resolvable promise is left;
* `Confluence` — how linking ends is `Verdict` of the graph;
* `NilSafety`, `ListCompleteness` — list callbacks never see an unbound `$ref` and
  their lists are complete;
* `Refinement` — every step is a step or a stutter of `LinkerAbs`.

Compilation (`CompilationProofs`):

* `Closure` — it succeeds exactly with the documents reachable over `$ref`s, and fails
  only for a reachable one that cannot be compiled;
* `LoadsOnce`, `LoadsNothingRemote` — no document is loaded twice, and nothing remote
  without the option.

* `OpensRelative` — without a root directory, a relative `$ref` of a local document
  opens the file that walking its path from the document's directory leads to;
* `Confined` — with one, no relative `$ref` of a local document opens a file outside;
* `FlatLinks` — in a flat project, over chains and cycles of documents, linking ends as
  the files say and binds each `$ref` to the object of the file it means;
* `Composed` — the first five hold of `Pipeline`, where linking follows.

The walk (`DocumentProofs`), over every document, however deep:

* `WalkInvariance` — the stack that builders read is the path of the recursion, with the
  flags of that path; what has been visited and is compiled has one artifact, at its own
  pointer, and nothing else has one;
* `FieldsFound` — what an object expects among its own fields, by a pointer it composes,
  is compiled, once, and of the type it asks for;
* `SchemasInPlace` — however deep a schema is nested, its fields are tagged for the
  message or shared schema it belongs to, and it has a definition only where something
  can name it.

From the document to the generated names (`DocumentProofs`), for every document, layout
and set of options:

* `LinkInvariance` — what is linked is the object at the end of each chain of `$ref`s, no
  `$ref` itself, and what is rendered was selected among those;
* `UtilCode` — a generated object imports the utility code only of protocols it was
  collected for;
* `ServersOpen` — the Open functions that generated servers call are those that
  generated channels and operations declare, no more and no fewer;
* `MessagesFit` — the messages of an operation and of its reply are generated, with the
  methods for every protocol that is active for its channel;
* `AccessorsFit` — for a correlation ID of any depth and any content: what the setter set
  the getter reads; the setter panics only for want of something to put it in, the getter
  only at a pointer that is nil.

Rendering (`RenderingProofs`):

* `NumberedIsDistinct` — imports numbered as AddImport does declare different names,
  unless packages are called like aliases;
* `Consistency` — the pins, the onces and the imports of the files are those of the
  attempts that were committed, however many attempts fail and wherever;
* `Names` — a qualified name in the text of a file is declared by one import of that
  file, that of the place it was written for, and the import still declares it;
* `Succeeds` — when some order of the queue renders all objects, this one does: each is in
  its file as often as the queue has it there; `ErrNotPinned` comes only where no order
  would help, and extra code that needs no other does not fail.

The ring and its users (`RingProofs`, `SubscriberChannelProofs`, `ConsumersProofs`):

* `NewIsRing`, `AppendedIsRing`, `AdvancedIsRing`, `RemovedIsRing` — every method keeps
  each element once and the iterator on one of them, and has the elements it should;
* `AdvancedServes`, `AppendedJoins`, `RemovedLeaves` — the same for the order of turns:
  `Next` takes the one whose turn it is and puts it at the end, `Append` joins, `Remove`
  takes one out and leaves the others in their order;
* `Order`, `NoFalseEnd`, `LateOnce` — messages are delivered in order and without gaps, and
  only what is left of the last read can be missing, while the reader has it in hand or
  once it has ended and the channel is done; the reader ends for want of subscribers only after a call has returned on its own
  context; a callback runs at most once after its call returned;
* `CallbacksTakeTurns` — the consumer's rings implement `RingAbs`, for every address;
* `ErrorIsReported` — a subscription that an unreadable message cancelled ends with that
  error; `SentOnce` — no two requests carry the payload of one envelope, whatever is
  lost and sent again; `OwnCredentials` — a request carries its own credentials, unless
  a publisher changes the URL object of the server.

The kafka example (`AuthorizationProofs`):

* `OwnAnswers` — a client ends with an answer to its own request, unless two correlation
  IDs are equal;
* `NothingForgotten` — a request that the group will not read again was answered, unless
  publishing failed. Both for any number of clients, servers and partitions, with all
  crashes and rebalances.

The subprocess locator (`CompilationProofs`):

* `WholeAnswers` — a document is passed on only when the command succeeded on its own and
  all it wrote was read;
* `NobodyLeftBehind` — no command runs when Locate has returned.

### Assumptions

`RefGraphAssumption`: objects, `$ref`s and promises are different things.
`LinkerAssumption`: the inputs are well-formed graphs, every element has a document, a
`$ref` accepts any object. `CompilationAssumption`: the working directory is a list of
names, locations are records of host and path, the root directory is a path, the `$ref`s
of a file are a sequence, and what names a directory (the directories above the working
directory, a given path that ends in `.` or `..`) is no file. `RenderingAssumption`:
scripts, tasks and protocols are sequences; a file name expression neither pins nor uses
up a once; a package imported from outside is known and not generated too; `goPkgUtil`,
`goPkgImpl` and the guard that asks for implementation code name a protocol; extra code has
no objects to pin or import; no object is extra code; what a guard leaves out is no guard
itself. `ChannelAssumption` and the `NilAssumption`s: nil is no
call, no user, no member; the peer sends finitely many messages. `PartitionsAssumption`,
`WorldsAssumption`: partitions are numbers, every world gives each client and server an
environment or none, each client an ID. `ServerAssumption`: the server's URL object is
none of a sender's. `SubprocessAssumption`: the deadline is set or not. `InputsAssumption`: a document is
a decoded one, a tree with each key once, whose nodes have the Go types of the
structs' fields and elements; only the root has `components`, no map or list lies
directly in another, scalars and raw values are no nodes; servers, channels and operations
are entries of the root or of `components` (`IsPlaced`), the path of a correlation ID's
location is not empty. TLC evaluates all
of them on the instances. Not among them are conditions of the properties: the theorems
keep those that the properties state (`Flat`, `Plain`, equal IDs, a failed publication).

### Arguments

None of these properties is inductive alone.

Linker. The invariant is the conjunction of

* `BoundInv` — what is bound is the end of the chain, of an accepted type, and agrees
  with the first hop: the hop finds the object itself or a `$ref` bound to it.
* `ChaseInv` — wherever the promise that the recursion has reached leads, the promise
  it started from leads too, so following an assigned promise loses nothing; and it
  agrees with the end it is about to be given.
* `LeftInv` and `PassInv` — as long as a pass has made no progress, each promise it has
  dealt with and left unbound waits: its document is unknown, or it hops to an unbound
  `$ref`. So at the end of such a pass all unbound promises wait, for each other or for
  nothing; the unbound `$ref`s are then a closed set that holds no object, and none
  of them leads anywhere. This is what makes stopping after an idle pass right, and
  what cycles come to.
* `PhaseInv` — after the check nothing is unbound; a panic has its cause in the graph.

That a chain has one end only (`EndIsUnique`) comes from the same invariant: the
artifacts that are, or are bound to, one object form a closed set. Confluence follows:
success, failure and crash are each equivalent to a condition on the graph.

Compilation. `ClosedInv`: what was taken up was loaded, and its `$ref`s are at least in
the queue, so that an empty queue leaves a closed set. `MetInv`: every closed set that
holds the root holds all that was met, so that set is the least one. `ClosureCompiled`
names the least closed set; the proof speaks of all closed sets, and needs no recursion.

Paths. Cleaning goes from segment to segment, as a function on the lengths of the path;
its laws are proved by induction over the set of numbers for which they hold. The one
that carries the rest: cleaning a relative path and then cleaning what it gives behind
a directory comes to cleaning once, though the first has dropped what the directory's
names would have cancelled. So a `$ref` joined to a location that was itself joined opens
what walking from the document opens, and with a root directory a cleaned absolute path
keeps the directory in front. What ends in a directory is no file, hence the file name
that `ResolveURL` cuts off is one (`LocationsInv`).

Flat projects. One file may be compiled under two names, `./a` and `a`. The graph of the
documents folds onto the graph of the files (`FoldsOnto`): a hop of the first is a hop of
the second and every hop of the second has one over it. Closed sets carry over both ways,
hence so do `Leads` and the verdict, and what linking does with the documents is what the
files say.

Walk. `FramesInv`: frame by frame, the stack of keys is the path of the node the frame
is at, and what it has left to visit are some of its children. A pointer is pending when
the frames still lead to it. `ArtifactsInv` says that exactly the nodes that are not
pending have been visited, each for one artifact at its own pointer; with no frame left
nothing is pending. `TagsInv`: the flags beside a key are those of its path, as a
function of the path that does not know of the recursion. Each action then takes one
child off a frame, or takes off a frame that has none left, and needs that a child of
one node is no child of another. With this, the two pointers for a field, composed at
the builder and at the visit, are both the path of its node. For `SchemasInPlace`: one
more key makes a path part of a data model exactly if it was or the key begins one
(`ModelStep`); the other flag is that of the container, and no container lies directly
in another, so two keys back there is a struct that says it.

Linking as one step. `Linked`: following `$ref`s as often as there are `$ref`s ends, in a
document that links, at an object that every pointer on the way agrees with: to start one
hop later is to hop once more at the end (`AreHops`), and at an object a hop changes
nothing.
With `WalkInvariance` an artifact is that of its pointer, so a promise is bound to what
the builder's pointer names, and what linking asks of types becomes the type of the object
behind. `Rendered`: what is rendered was gathered and visible, and under the default layout
all of that. The properties of generated names are then each a comparison of two
computations over the same artifacts: from the server down and from the operation up
(`ServersOpen`), from the operation to its messages and from a message to the channels
that name it (`MessagesFit`), from what is active to what is used (`UtilCode`).

Accessors. A setter that gets to its end has made or gone through every container on the
path, so the getter finds all of them; otherwise it stops at the first that is missing
(`GetMisses`), and only a struct behind a nil pointer makes it panic. What stops the setter
is a container it does not make: one before the last that is no map, or the last.

Rendering. `AttemptInv`: during an attempt the namespace is the committed one and what
the buffer of this attempt holds, all of it for the current file. Hence a commit adds
to text and namespace the same, and a rollback, which drops the buffer and copies the
committed state, leaves what was there. `PinsInv`, `OnceInv`, `ImportsInv` relate the
committed state to the text, and the imports in hand to text and buffer. File name
expressions work on the imports of the file committed last, so `ImportsInv` holds when
there are none. `NumberedInv` says the imports are numbered: a package name's imports
carry different numbers up to how many they are, which is why counting those present
gives a free number as long as nothing is removed.

Names in the text. `RefsInv` and `WrittenInv`: a name that was written aims at the place
of the object it was asked for, and is the name of the import of that place; of names
that are committed by the files, of names in the buffer by the attempt. Pins, files and
imports only grow, so what held when a name was written holds for good. A name of util
or implementation code aims at a file with that code: `MarkInv` and `ExtraInv` say that
what a file is marked as is what its text holds.

Rendering what can be rendered. The property compares one run with all orders, by dead
ends: sets of objects beyond which none can go. That needs to know of every attempt what
it has done and of every pass what it has tried.

* `CodeInv` — which files count as a protocol's extra code: each file that is marked so was
  written for it (`FileCode`), and each that belongs to it is marked, still to come, or the
  stage has failed (`CodeDone`). So what `goPkgUtil` finds is a matter of the configuration,
  and no longer of when it is asked.
* `AttemptsInv` — where an attempt is in its template (`AtInv`), that every call before that
  has been executed or was left out (`Executed`), and that it has the pins of the committed
  and its own (`GrowInv`). `OnceKept`: what "once" guards has been executed, or is the next
  call, for every name that was used up. This is where `OnceAgrees` is needed: an attempt
  that leaves out what another has done has lost nothing.
* `OrderInv` — `AreDone`: the objects that no longer wait have pinned what they pin, and
  found what they needed. `Ordered`: what is pinned was pinned in an order that can be
  followed, so a dead end holds all of it. `NoneReady`: as long as a pass has rendered
  nothing, nothing it has postponed can go beyond what is done. At the end of such a pass
  the objects that are done are therefore a dead end, and giving up is right; and a run
  that ends with nothing postponed shows that no set is one.
* `CountInv` — an object's texts in a file, and its entries in the queue and among the
  postponed, are together its entries in the queue of the world.

Ring. Turns are a rotation of the list, beginning behind the iterator. Each method is a
case of how rotating and adding or removing go together; the case in which the removed
element is the one the iterator is on is the one the code treats apart.

Subscriber channel. `ReaderInv`: one goroutine reads, and the call that started it has
been in the ring. `OrderInv`: what it has in hand are the messages that follow those
delivered, up to the last one read, all of one read; with nothing in hand all are
delivered, unless it has ended and dropped what it had. `RingInv`: the ring holds the calls
between Append and Remove, by the theorems about `Ring`. So an empty ring means that
the call that started the reader has returned (`EndInv`), and what the reader takes
from the ring belongs to a call that has not (`LateInv`).

Consumers. `RingInv`: in the ring of an address are the users that receive from it, once
each. With the theorems about turns, every step of the consumer is a step of `RingAbs` on
`Turns` of its rings, or leaves them alone. `EndInv`: whoever is cancelled by a message
has the error; a later cancel by the caller does not take it away. `DrainedInv`: what has
been posted is drained, and an envelope sealed anew is another one, so posting an envelope
again carries no payload. `UrlsInv`: unless someone changes the server's URL, an object
holds what its own channel's security put there or nothing.

Authorization. For `OwnAnswers` it is enough that whatever lies in a topic, in a batch or
in a server's hands is sound (`SoundRecords`): its ID is that of the client whose request
it is about. For `NothingForgotten` it is not enough to look at committed offsets. What a
server may commit at its next poll is settled (`HeadInv`), and of what it has read all that
is not settled is in its batch or its answers to write (`ReadInv`); a member that lost its
partition holds neither, which is why ownership is in the invariant (`OwnerInv`).

Subprocess. The invariant has two halves, before and after Wait has met the goroutine
that watches the context. Before, whoever was signalled has left a trace in that
goroutine's state (`BeforeInv`), and meeting it turns the trace into an error; after,
nobody signals any more, and only the delay can take stdout away (`AfterInv`).

### Only model-checked

Liveness everywhere, which the prover cannot do, hence the liveness half of the
refinements. The findings are runs, not theorems. Every other property of a run is stated
by a theorem.

## Plan

Done: the linker, the locator, the document queue and its composition with linking; the
walk over a document and the way from its artifacts to the generated names and
accessors; rendering with imports and extra code; the subprocess locator; the ring, the
subscriber channels, the http and ws consumers with their senders, the kafka example;
the proofs above.

What would come next:

1. That `Link` of `Generation` is what `Linker` comes to: both are proved to follow chains
   to their ends, on different representations of the graph.
2. The nats and mqtt subscriptions, if their libraries' callbacks are described well
   enough to model from their use.

## Not modelled

Text: templates, formatting, JSON pointers, names and command lines as strings; of a
template what it declares, pins, imports or calls is kept. Template functions that only
make text, and sub-packages of `goPkgUtil`. Decoding: a document starts as a tree of
typed nodes. The contents of bindings, and layout rules by name, path or location. HTTP,
the broker, the file system and the client libraries appear as what they do to their
caller. Headers, content types and SASL. The containers are the sequences and functions
of the modules that use them. The writer writes what it is given, file by file; when
one fails, those before it stay. The mqtt, nats, amqp and redis clients are thin layers
over libraries whose behaviour would be the larger part of a model. The other commands
reuse the stages modelled here. Where several files match, `ExtraCode` takes any of
them for goPkgUtil, and the code the first by name. `PROJECT.json` lists each component
with its reason, and the hazards no property covers.
