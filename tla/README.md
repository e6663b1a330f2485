# Verification of gobatfish

gobatfish is a Go client for the Batfish network analysis service and an MCP
server (`batfish-mcp`) that offers Batfish to AI agents. This directory holds TLA+
models of it, the TLC configurations that check them on small instances, and
proofs, checked by TLAPS, that the most important properties hold for every
instance. `PROJECT.json` lists the components, runs, mutants, the map from
definitions to source lines, the findings, the hazards and the theorems.

## 1. The system

| Component | State it keeps | Operations | What is hard about it |
|---|---|---|---|
| Session registry (`mcp/mcp.go`, `Registry`, `Server`) | `configs`, `cache`, `mu` | `LoadConfig`, `Register`, `SetPrecreated`, `Get`, `Names`, `Clear`, `Close` | tool calls run concurrently; `Get` holds the mutex over HTTP; `Register` is two critical sections; `Close` races with calls |
| MCP tools (`mcp/tools.go`, `helpers.go`, `output.go`) | none of its own | ten management tools, thirty analysis tools | each tool is several calls on a session that other tools share |
| Session (`client/session.go`) | `Network`, `Snapshot` (unguarded), `Q` | set, list, init, fork and delete of networks and snapshots; questions and answers | check-then-act on the service; fields re-read at every request; overwrite = delete, then upload |
| Work items (`client/workhelper.go`, `workitem.go`, `consts.go`) | none (the item is the service's) | `execute`: queue, poll, interpret the final status | a poll without a deadline; ten status codes; background work |
| REST client (`client/restv2helper.go`, `options.go`) | retry limit, HTTP client | `request` and one function per endpoint | lost requests and replies, retries of POST and DELETE, boundaries of the retry count |
| Questions (`question/question.go`) | templates by name, order | `Load`, `Install`, `Get`, `New`, `Set`, `Answer` | sticky errors, deep copies, unguarded map |
| Validation (`question/validation.go`) | none | checks of values against declared types | numeric boundaries, optional and list variables |
| Assertions (`client/asserts.go`) | none | `Assert...` in soft and hard form | matching of nested lists, several definitions of "duplicate" |
| Facts (`client/facts.go`) | none | extract, load, write, compare | merging of seven tables, rows that refer to missing nodes |
| Data frames, answers (`dataframe/`, `datamodel/answer/`) | columns and rows | filter, sort, group, parse cells | columns of different length, cells that do not parse, nulls |
| Data model (`datamodel/*.go`) | none | conversion from and to JSON, header constraints | sixty types, each written and read by different code; variants, nil pointers |
| Server process (`cmd/batfish-mcp/main.go`) | signal context, HTTP server | the three transports, shutdown | two transports that end independently; `Close` before the requests have drained |
| Capirca, utilities, errors | none | conversions | - |

How they interact: a transport of the process hands a tool call to a handler in a
goroutine of its own. The handler asks the registry for a session by name (`Get`
makes it on first use, by calling the factory, which loads the question templates
over HTTP), selects network and snapshot on it (`mgmt`, `analysis`), and calls one
operation of the session. The operation is a sequence of requests to the service;
each goes through `request`, which retries. Initializing a snapshot and answering a
question also queue a work item and poll it.

What makes each part correct:

- registry: a session that is handed out was made from the configuration its name
  has now, is not closed, and is the only one of its name; nobody waits for ever;
- REST client: what the caller is told fits what the service did; a request is
  repeated only when its reply is missing; the number of tries is that of the options (what
  the comments on the options say of it is findings 3 and 6);
- session and tools: an answer is about the network and snapshot of the request; a
  snapshot is deleted only when somebody asked for that one; the active snapshot is
  one that was selected or initialized; every call returns;
- questions: nothing is sent after an invalid setting; a question never shares
  state with its template;
- data model, answers: what is written is read back; a bad cell costs nothing but itself;
  constraints made from a flow admit that flow and no other;
- assertions: the verdict fits the network, and a service that fails never counts as one
  that found nothing; the two route assertions exclude each other;
- facts: they are of one snapshot of one network unless the session was changed meanwhile,
  hold the last row of every key of seven tables, and a validation finds exactly the
  differences;
- process: every way out of `run` closes the sessions that are there when the registry is
  closed, the exit status has a cause, and a process that is told to stop does.

## 2. Modules

| Module | Models | Checked by | Proved in |
|---|---|---|---|
| `RegistryContract` | the promise of the registry to tool calls, abstractly | as a PROPERTY of `SessionRegistry.cfg` | `SessionRegistryProofs` |
| `SessionRegistry` | `Registry` and `NewServer`/`Close` | `MCSessionRegistry` with `SessionRegistry.cfg`, `SessionRegistryDocumented.cfg` | `SessionRegistryProofs` |
| `RequestContract` | the promise of one REST call, abstractly | as a PROPERTY of `RestRequest.cfg` | `RestRequestProofs` |
| `RestRequest` | `request`, `sleepBackoff`, `checkStatus` | `RestRequest.cfg`, `RestRequestDocumented.cfg` | `RestRequestProofs` |
| `ClientSession` | tool calls on sessions, from `mgmt`/`analysis` to the last request, composed with the service | `MCClientSession` with `ClientSession.cfg`, `ClientSessionShared.cfg` | `ClientSessionProofs` |
| `VariableTypes` | `validateType` and the parsers, `validate`'s rules for one variable | `MCVariableTypes`, which `MCValues` extends, with `Values.cfg`; through `Questions` | `VariableTypesProofs` |
| `Questions` | the catalogue, question objects and `Answer`, with the service's side of an answer | `MCQuestions` with `Questions.cfg`, `QuestionsMissingDescription.cfg` | `QuestionsProofs` |
| `ServerProcess` | `main.go`: transports, signals, shutdown, exit | `ServerProcess.cfg` | `ServerProcessProofs` |
| `DataModel` | JSON values and their typed accessors | through all below | - |
| `Facts` | `facts.go`, on `DataModel`, with the directory and the session's network and snapshot as shared state | `MCFacts` with `Facts.cfg` | `FactsProofs` |
| `FactsContract` | the promise of facts and of a validation about the tables, without the merge and the walk through the trees | `MCFacts` extends it | `FactsProofs` |
| `Elements` | the element types, `FromDict`, `Dict`, where they panic; on `DataModel` | `MCValues` with `Values.cfg` | - |
| `HeaderSpace` | header constraints; on `Elements` | `MCValues` | - |
| `Frames` | the data frames | `MCValues`, through the next two | - |
| `Answers` | table answers; on `Elements` and `Frames` | `MCValues` | - |
| `Asserts` | the assertions; on `Answers` | `MCValues` with `Values.cfg`, `ValuesDocumented.cfg` | - |
| `NatRecursion` | nothing of the code: induction and recursion over numbers, for the proofs | - | itself |

### SessionRegistry and RegistryContract

`configs`, `cache` and `mu` are the fields of `Registry`. A session is an identity
and the entry it was made from. A critical section that does not block is one
action (`GetHit`, `GetUnknown`, `Register`, `SetPrecreated`, `Clear`, `Close`); the
miss in `Get` is two, `GetMiss` and then `FactoryOk` or `FactoryFail`, with the mutex
held in between, because the factory talks to the service. `Register` leaves the
mutex between its own section and its call of `Get` (`pc = "get"`). `phase` is the
life of the owning `Server`; after `Close` the registry is still reachable from calls
in progress and goes on working, as in the code. `LoadConfig` happens where its one
caller, `NewServer`, calls it: calling it again on a registry in use would replace
entries under cached sessions (see the hazards).

`RegistryContract` is what the tool calls rely on: a registry without a mutex, in which a
caller waits for a name and is then answered in one step, by the live session (`Share`), by a
new one made from the configuration of that moment (`Make`), or by an error (`Refuse`, only
where there is no live session). A caller of `SessionRegistry` waits in the contract as long
as its `pc` is `"get"` or `"factory"`; taking the mutex is no step of the contract, the end of
the factory call is `Make`. Between the two halves of `Register` the contract promises
nothing, as finding 1 shows that it cannot.

### RestRequest and RequestContract

One caller's `request`, again and again, with GET, POST, PUT or DELETE. A URL of which
`NewRequestWithContext` makes no request ends it before the first exchange (`BadRequest`).
`attempt` is the loop variable; an exchange
(`httpClient.Do`) ends with a 2xx, a final status, a status of `retryStatuses` or a
transport error, and independently of that the service did or did not execute the
request (`Answered`, `ReplyLost`, `NotExecuted`); another client may change the
resource at any time (`OtherClient`). The service is external: it refuses to create
what is there and to remove or read what is not; PUT creates or replaces. `changed`, `executed`, `lost` and
`tries` are history for the properties. A cancelled context is a transport error and a
backoff that ends at once. Bodies of accepted replies are taken to decode.

`RequestContract` says what the code above relies on: the request is executed at
most `MaxRetries + 1` times, success means at least once, and not at all after
the call has returned. It deliberately does not say "once" or "a failed request had no
effect": the code does not give that. `ClientSession` uses the contract: each of its
requests is one step that is done, refused, failed without effect, or done with its
reply lost (`Executed`).

### ClientSession

`network` and `snapshot` are the two fields of each session; a tool call is a record
in `call` whose `pc` names the request it makes next. A request together with the
local statements up to the next request is one action; the URL of every request is
built from the session's fields at that moment (`Url`), as the endpoints do with
`*s.Network`. The actions follow the handlers: `Begin` (a tool call whose session has
been found) goes to `SetNetwork` (`GetNetwork`, `InitNetwork`), then `SetSnapshot` for
analysis calls, then the operation: `checkSnapshotOverwrite` is `ListSnapshots` and
`Overwrite`, followed by `UploadSnapshot` or `ForkSnapshot`, `QueueWork` and `PollWork`;
a question is `Resolve` (`GetSnapshot`), `UploadQuestion`, `QueueWork`, `PollWork`,
`GetAnswer`. `Refused` is a 404, a 409 or one of the client's own nil checks, `Fails`
everything else that ends a call (5xx until the retries are used up, transport,
cancelled context, an upload that cannot be read, an invalid question). `WorkEnds` is
the service ending a work item with any of the five terminal codes.

`wantNet`, `wantSnap` and `overlapped` are history: what the request named (or what was
active when it began, where it named nothing), and whether another call used the session
while this one ran.

Abstractions, and why they are sound for the properties:

- `NewWorkItem` takes the pointer `s.Network` a few statements before `queueWork`
  builds the URL; the model reads it once. Both belong to the same request, and the
  properties look at the network of the URL.
- A poll that finds the item running changes nothing and is not a step. The log
  request after an abnormal end has no effect on the outcome and is not a step.
- Between the reply of `getNetwork` or `ListSnapshots` and the assignment that follows
  it, other calls could run; the assignment does not depend on what they change.
- Snapshot names that the client makes up are part of the request; network names that
  it makes up are `Generated`, a different one for each call.
- Reference snapshots, the content of questions, and background questions, which no
  tool asks, are left out.

### VariableTypes

Pure operators. A text is the sequence of its characters (a mark such as `INVALID_IP` is
one character, as it is only compared as a whole); `Split`, `Before` and `After` do what
`strings.Split` and `SplitN` do, and the parsers `isIP`, `isSubRange`, `isPrefix`,
`isPrefixRange` and `isIPWildcard` are built on them as in the code. The 39 types that
only ask for a string are one, `"name"`. `VariableAccepted` is the body of the loop of
`validate` for one variable. `IntegerLimit` and `LongLimit` stand for 2^32 and 2^63, the
bounds in the code. `toInt`, which turns a limit that is not a number into 0, is left out:
limits are numbers. `strconv.Atoi` fails on a number that does not fit its 64 bits; that is
`LongLimit` again, so that such a number is no number to the parsers.

### Questions

`store` holds the dictionaries, of the installed templates by name and of the question
objects (the code's `template` maps; `ref` says which dictionary an object works on, so
that a copy that is not deep can be expressed); `order` is the catalogue's list. A
document is reduced to its name, what is wrong with it, the declarations and defaults of
its variables and whether it is differential. `Load` reads its source, in any order from
the service (a map) and by path from a directory, one document per step (`LoadDocument`),
and then installs (`Install`). `New` copies under a name with a fresh identifier, for which
the number of the call stands. `Set` is one action per branch; an error is kept in `err`.
`Answer` makes the checks before `Validate`; `Check` is one turn of its loop, in any
order; `Prepare` is the rest up to the upload; `Upload`, `Queue`, `Poll` and `Fetch` are
the requests of `AnswerQuestion`, each of which may also fail (`Fail`) or have its reply
lost. The service (external) has one question under each name, and answers for what
it has there if some work item ran it.

`asked` is history. Each object belongs to one goroutine, as objects are not safe for
concurrent use; the objects themselves run concurrently. Load and `New` interleave, but
the steps of `Install` are one action: the map of templates is unguarded, so `Install` must
not overlap a lookup, and in the server it does not (`Load` is called before the session is
published). Docstrings, tags, the order of variables and `ExtraArgs` (which could replace
any parameter of the work item) are left out. The network does not change here;
`ClientSession` has that.

`AnswerMatchesQuestion` is about names that hold an identifier. Callers who set the same
`question_name` on two questions share one name at the service, and which of the two an
answer is to then depends on who uploaded last: the code leaves that to them.

### ServerProcess

One action for each step of `run` (`main` is where it is): `NewServer`, `Dispatch` (the
signal context and the switch), `StdioReturns`, `ServeReturns`, `Collect` (the `select` of
`-transport both`), then the deferred calls, last one first, `Stop` and `Close`, and `Exit`.
The goroutines of `serveHTTP` are `Shutdown` with `Drained`, and `ServeSends` where it runs
beside stdio. net/http, the protocol library and the operating system are external:
`Listen`, `StdioDisconnects`, `Arrive`, `Accept`, `Deliver`, `Signal`. A signal cancels the
context while it is handled, and kills the process before `NotifyContext` and after `stop`.

A tool call comes over stdio (`Arrive`) or over an HTTP connection, which is accepted only
while the listener is open (`Accept`) but may bring its call at any time after that
(`Deliver`): `Shutdown` closes the listener, whereupon `ListenAndServe` and `serveHTTP`
return, and `run` goes on to `Close` and the end without waiting for the connections that
are left. So there may be calls after `Close`. A call may make a session with the registry's
mutex held (`"factory"`), for which `Close` waits; `cached` are the calls whose session the
registry has, which `Close` closes, and `late` are those that took the mutex after it.
`SessionRegistry` has the registry in detail.

`SessionsClosedAtExit` says what the deferred `Close` gives, and no more: when `run` has
returned, a session that is still open was made by a late call. Those, and all sessions of a
process that a signal kills, nobody closes. `NoConnectionAfterServing` says where late
calls come from.

### Facts and FactsContract

The tree of nested maps that `processFacts` builds is a function on paths, `Branch` where a
map is. `ProcessNodes` to `ProcessOSPFInterfaces` are the seven functions, in the order in
which they run. What a row does is a patch: cells, and the path where they are put in place of
what was there (`Put`, which also creates the maps on the way, as the functions for OSPF do),
or nothing (`Skipped`); a function applies the patches of its table in their order
(`Patched`). `Panics` says where a type assertion does not hold.
`GetFacts` is seven questions. Each reads the session anew: its snapshot, where the call
names none (`GetSnapshot`), and then its network, with which it builds the URLs (`Ask`).
Another user of the session may change either at any time (`SetNetwork`, `SetSnapshot`), also
between the two reads. A question is uploaded to the network of its first request and is not
found in another, so that one whose network is changed between its requests is answered for
the network it was uploaded to or fails; `ClientSession` has these requests one by one. `networks`
and `snapshots` are history: what the session had while the call asked.
`WriteFacts` truncates and fills each file (`Truncate`, `Fill`), `LoadFacts` lists the
directory and then reads file by file (`ListFiles`, `ReadFile`); an extraction and a
validation may therefore be interleaved on one directory. `Yaml` is what a value is after it
was written and read: a whole float comes back as an integer, an element as a map.

`FactsContract` says what callers rely on without any of that: `Said(tables)` is the set of all
cells, each under the path that its row's key and its column give it, of the rows that no
later row with the same key supersedes. `FactsHoldLastRows` compares the facts with it. What
is superseded is lost: a BGP process is stored under its node and a peer under its address,
neither under its VRF, so of several processes of a node, and of several peers with one
address, the facts hold the last. The property also says that a call panics exactly where the
answers have an `Orphan`, a process of a node without properties or a peer of a node without
a process. `FactsAreOfOneSnapshot` says which answers these are: each is about a network and a
snapshot that the session had while the call asked, and if that was one of each, the facts are
what the tables of that snapshot of that network say.
`ValidationFindsEveryDifference` compares what a validation reports with the cells that one
snapshot's tables say and the other's do not, as a file holds them (`NotSaid`).

`TablesAssumption` is what is known of the service's answers: rows have a column besides their
key; elements have fields; no column of the node properties is called like a map that the
merge makes beside it (`Interfaces` is dropped by the code itself), nor one of the BGP
processes `Neighbors`. Without the first the merge makes empty maps, which no cell shows;
without the others a later table replaces what an earlier one said. Nothing is assumed of
the tables fitting each other: `MCFacts` has a snapshot whose BGP table lists a node that has
no properties.

### The values: DataModel, Elements, HeaderSpace, Frames, Answers, Asserts

Pure operators. A JSON value is a record with its `kind`; a text is the sequence of its
comma-separated parts, as nothing but commas is looked for in it.

Each element type is a set of fields with the key that `Dict` writes (the json tag), the key
that `FromDict` reads and the accessor it reads with. `FromDict` and `Dict` are then one
definition each for all types, instead of sixty pairs. Interfaces (session actions, next
hops, fragments, step details) are variants that the discriminating entry names.
`DictPanics` and `StringPanics` say which values cannot be written or printed: a nil
`*Flow`, which `jsonValue` takes for an element before it looks for nil pointers, and a nil
scope or action of a session step.

`Answers` parses cells by the schema of their column (`ParseJSONWithSchema`, recursive), with
three outcomes: a value, `Invalid` (an error, which makes the cell nil), or `Panic`.
`Asserts` has for each assertion the question that it asks (`Asks`) and the verdict on the
answer. A route is compared as the code does it, in the frame's form (where lists are wrapped)
or the map's, with `valueMatches`'s greedy choice; `RouteAssertionsAgree` says that
`AssertHasRoute` and `AssertHasNoRoute` are each other's opposite on what is there, whichever
the form. Where the code's comparison is not what its comments and `docs/asserts.md` say, the
documented meaning is a property of its own (`MatchIgnoresOrder`, `FormsOfRoutesAgree`,
`SoftReturnsNoError`, `RouterIDsAreUnique`), which `values_documented` refutes (findings 7
to 10).
What the service has for a question is in `MCValues`: rows with a label, selected by
the variable of the question.

## 3. Runs

| Run | Instance | Distinct states | What it shows |
|---|---|---|---|
| `registry` | 2 callers, 2 names, 2 entries, 2 sessions | about 213,000 | coherence of cache and configuration, closed sessions stay out, one session per name, every `Get` returns, the contract |
| `registry_documented` | the same | stops at the counterexample | findings 1 and 2 |
| `rest_request` | 3 retries (the code's default) | about 3,500 | retry boundaries, executions and results, the contract, every request returns |
| `rest_request_documented` | the same | stops at the counterexample | findings 3 and 6 |
| `client_session` | 2 callers, 2 sessions, 2 held and 2 made-up networks, 2 snapshots, 11 requests, 2 calls | about 102,000 | answers, deletions, activations, every call returns |
| `client_session_shared` | 2 analysis requests on one session | stops at the counterexample | finding 4 |
| `questions` | 2 objects, 2 loads, 4 calls, 2 work items, 4 documents (3 of one name, of which one is differential and one broken), 2 variables, 4 inputs, 4 options | about 583,000 | catalogue and order, templates, refused questions, validation, references, answers |
| `questions_missing_description` | 3 loads of 4 documents from each source, no calls | stops at the counterexample | finding 5 |
| `server_process` | 4 transports, with and without a token, 2 tool calls, 2 signals | about 98,000 | exit status, the sessions closed at exit, where late calls come from, the process stops when told |
| `facts` | 2 networks with 2 snapshots each, 2 callers (one extracts or gets, one validates), 4 initial directories, 1 change of network or snapshot | about 118,000 | whose facts they are, the last row of each key held, panics, validation |
| `values` | 7 texts with everything within 2 edits; samples of elements, cells, flows, headers, arguments, routes, networks, router ids | about 123,000 | parsers, reading back, cells, header constraints, route and other assertions |
| `values_documented` | soft assertions, one after the other, on a route with two hops and on up to two router ids | stops at the counterexample | findings 7 to 10 |

Bounds. `MaxSessions = 2` lets a session be made, evicted or closed, and another be
made for the same name; two callers are enough for every race of the registry, whose
only shared step is the mutex. In `rest_request` the limit is the code's own default,
so both boundaries of the loop are met. In `client_session`, `MaxCalls = 2` means two calls
that overlap in every way or follow each other, over all pairs of the eleven requests
in `MixedRequests` (same and different sessions, same and different networks, with and
without names, overwriting, forking, deleting, background). Three calls make more
than 7.6 million states, too many for a run of a few minutes; the theorems cover any
number. In `questions` four calls are enough to make two objects and answer both, or to
make one, set it, and answer it twice; two work items, because a call queues one at most
and stale answers need two. The directory has two good documents of one name with another in
between, so that the last one wins or not. The variables are an address that must be given and a list of
at least one name, of two letters or more, from a list of allowed ones, with inputs that
are valid and that break each rule. The two objects are symmetric. In `values` two
edits are enough to lose a part and gain another; an octet out of range takes one. Its
other inputs are states of their own: every element type with each field in each of its
forms (filled, empty, nil, each variant); cells of traces with no, one or two steps of known,
unknown and incomplete kinds, of trees with nulls, and of values that do not fit their
schema, each beside a column that parses or one that does not; pairs of flows that differ in one field
at most; header constraints with three fields of any shape; routes with nested lists, where
greedy and optimal matching differ; every subset of the labels that a question selects by,
answered by a table, by another answer, by a table without metadata or not at all.
In `facts` the tables hold what the merge can trip on: two processes of one node, two peers
with one address, an interface without its node, rows without an interface, nodes known to
OSPF only, in one network a process of a node that has no properties. The session starts in
the first network with the first snapshot, and one change of network or snapshot is enough to
mix two. There are calls that name their snapshot, which only a change of the network
reaches, and one that does not. In `server_process` two calls
are one in the factory and one that waits for it or comes late, two signals one that is
handled and one that kills.
Deadlock is not checked where a behaviour ends: the bounds on sessions and calls, or a
`NewServer` that failed (`SessionRegistry`, `ClientSession`, `Questions`), the callers are done
(`facts`), the process has exited (`server_process`), the edits run out (`values`).

Fairness. A goroutine that can move does (weak fairness of each caller's own
steps). In the registry, `Get` has strong fairness: a Go mutex hands itself over to a
goroutine that has waited for a millisecond. The factory returns because each of its
requests does: `http.Client.Timeout` bounds an exchange and the retries are counted,
which is what `EveryRequestReturns` shows. A session whose `Timeout` is set to zero has
no such bound, and the property does not hold for it. Work items end (weak fairness of
`WorkEnds`): the poll has no deadline of its own, so the service must end what
it was given; the property says that the client recognizes every way in which it may.
Nothing is assumed about requests succeeding. In `ServerProcess` the goroutine of `run` and
those of `serveHTTP` have weak fairness, as goroutines do, and so has the end of a factory
call, for the reasons above; nothing is assumed about calls arriving or being answered,
signals, clients or the network. Each tool call enters the factory at most once, so that
`Close` gets the mutex under weak fairness. `Questions` and `Facts` state safety only and have no
fairness: that an answer is awaited to the end is `ClientSession`'s subject.

Every property of a passing run has a mutant: a definition changed the way a plausible
bug would change the code (a lock forgotten, an eviction missing, a comparison off by
one, an activation before the status is looked at), for which TLC finds the property
violated.

### Findings

Three runs are about several statements of the comments and docs at once: their properties say
that at least one of the statements is true (always true, for the temporal ones), so that the
one counterexample has a place where each of them is not. `CallsSpec` of `values_documented`
has weak fairness of the next call, which its counterexample must keep to; it makes calls
for ever.

1. `Register` releases the mutex before it looks its session up; with another `Register`
   of that name in between, it returns a session made from the other's parameters.
   `mcp.go:117` says that it "immediately creates a named session".
2. After `SetPrecreated` and `Close`, the next `Get` runs the factory on the entry that
   stood for the pre-created session, with no parameters (so for the default host).
   `mcp.go:129` says "bypassing the factory".
3. `MaxRetriesToConnect`, "the number of retries after session setup" (`options.go:29`),
   is used nowhere; every request of a session has the same limit.
4. Two concurrent analysis calls on one session: the second one's `SetNetwork` takes
   effect between two requests of the first, whose answer is for the wrong network
   or snapshot, without an error. `mcp.go:205` says that `analysis` "returns the named
   session with network and snapshot set", and `docs/mcp.md` that the server "serves
   multiple remote clients", who all share the session `default`.
5. A question document without a description is installed: `LoadQuestionDict` formats the
   missing value, which gives `<nil>`, and tests that for the empty string
   (`question.go:438`). Its own error is "Missing description for question '%s'"; for the
   name of a question and for the description of a variable the code tests for nil as
   well. The question is listed with the description `<nil>.`
6. With the default options a request that gets no reply is sent four times:
   `MaxInitialTriesToConnect` is 3 and used as the number of retries. `options.go:27` says
   that it "is the number of initial connection tries".
7. `valueMatches` gives each expected item of a list the first unused item that it matches,
   so a list may match in one order and not in another. `asserts.go:477` says that it
   compares "lists order-insensitively (mirroring deepdiff with ignore_order=True)".
8. A list in an expected route never matches a route of a data frame, whose lists are
   `ListWrapper`s: `AssertHasRoute` fails, and `AssertHasNoRoute` passes whatever is there,
   where the map with the same routes gives the opposite. `docs/asserts.md:61` says that both
   "accept either a data frame or a multilevel map".
9. The route assertions return an error for a node or VRF that has no routes before they look
   at `soft`. `docs/asserts.md:46` says "Soft assertions do not return an error".
10. With `ignoreSameNode`, `AssertNoDuplicateRouterIDs` compares the number of rows of an id
    with that of its nodes: an id that two nodes use once each passes. `asserts.go:398` says
    "asserts there are no duplicate router IDs", and `docs/asserts.md:21` the same.

## 4. Proofs

All theorems hold for any sets of callers, names, sessions, networks, snapshots and
requests and for any bounds, under the named assumptions of the modules
(`TablesAssumption` of `FactsContract` is explained in section 2; for the rest: the
default name is a name, the null values are distinct from the others, limits are natural
numbers, made-up network names are distinct and new, requests that the handlers refuse
before anything else are not issued).

`SessionRegistryProofs` proves `IInv`. `CacheMatchesConfig` alone is not inductive: when
the factory returns, its session is stored under the configuration of that moment, so
one needs that the entry it works on is still current (`FactoryServesCurrentConfig`). That
in turn holds because nobody changes `configs` meanwhile, which needs that
the caller in the factory is the holder of the mutex (`LockDiscipline`). That closed
sessions stay out needs that identities are fresh (`IdentitiesBelowMade`), and `NewServer`
needs that nothing happened before it (`NothingBeforeServing`). `CachedSessionNeverDisplaced`
(callers of one name share one session) is an action property that follows from `IInv`; it
is a theorem only, for the run checks it as part of `ImplementsContract`, whose steps replace
no live session except by one the program puts there. `ImplementsContract` is proved step by step:
`FactoryOk` is `Make` because the entry is current and the name has no session
(`FactoryServesCurrentConfig`), `FactoryFail` is `Refuse` for the same reason, and `Finish` is
`Leave` because a caller holds a session exactly while it uses it (`HoldsASession`).

`RestRequestProofs` proves `IInv`: `TriesCountAttempts` ties the number of exchanges to the
loop variable, `ReplyFitsState` says which replies are possible where, and
`ExecutionsCounted` bounds executions and changes by lost replies. `ImplementsContract` is
proved step by step: an exchange that is executed maps to `Execute` (the bound on tries
gives its guard), `Return` to `Return`, the rest to stuttering. `TypeOK` and
`NothingAfterDefinitiveReply`, an action property, follow from `IInv` too.

`ClientSessionProofs` proves `IInv`: a call is only at steps of its own tool
(`Dispatched`), two calls in flight on one session know of each other
(`OverlapRecorded`), and a call that does not overlap finds in its session what it put
there (`Undisturbed`). The last is preserved by a step of another call because that
call's session must be a different one, and each step writes only its own session.
`SnapshotsVanishOnlyOnRequest` and `OnlySuccessActivates` are action properties proved
from `IInv` with one case for each action.

`QuestionsProofs` proves `IInv` of `Questions`, object by object (`ObjectInv`): an object
works on its own dictionary; while it validates, the variables it has visited are accepted;
once it sends, what it sends is valid and is what was asked. An answer needs more, as it is
fetched by name from a service that others use: identifiers belong to one object
(`IdentifiersApart`), so no other object's upload reaches the name, and the service still
has the question of a call under way (`ServiceHas`). Every step of an object is shown to be
an `ObjectStep`, which keeps `IInv` whatever the others do. `TemplatesStayAsLoaded`,
`OnlyValidQuestionsSent`, `DifferentialHasReference` and `AnswerMatchesQuestion` follow;
`RefusedQuestionIsFrozen` is an action property, proved from `IInv`.

The catalogue has an invariant of its own, `CatalogueInv`. `Install` appends the names that
are new, in the order of the alphabet (`Sorted`, a recursive function over the list of all
names); that each name is then listed once needs that `Sorted` lists exactly the given set,
without repetition, which is proved by induction along the list (`SortedLists`), and that the
new names are not listed yet. `LoadInstallsEveryGoodQuestion` is about the step that ends a
load, but what it says was decided document by document: `LoadedSoFar` says which document
each name has after those read so far, and that the ones left to read from a directory are
behind it.

`VariableTypesProofs` proves that the parsers of addresses, prefixes, ranges and wildcards
accept exactly their formats (`EveryText`), for texts of any length. The formats
(`MCVariableTypes`) say where the separators are; `Split` counts them. So the proof is about
how many places a separator has (`SplitNone`, `SplitOnce`, `SplitThrice`) and what is between
them, and that the characters of a part say whether `NumberOf` is an integer. The invariant
of the run follows for any alphabet, any texts to start from and any number of edits.

These two and `FactsProofs` use `NatRecursion`, where induction is said of sets and
recursion of functions: the prover cannot instantiate the library's theorems, which take
operators.

`ServerProcessProofs` proves `Inv`, which says for each place of `run` what has become of the
server (`ServerFollowsMain`), of the transports (`TransportsFollowFlags`,
`TransportsAreOver`), of the channel (`ChannelFollowsListener`) and of the result
(`ResultHasCause`). `ExitStatusHasCause` alone is not inductive: the result is decided
several steps before the exit, by the listener or by stdio. Tool calls have a second
invariant, `CallInv`: after `Close` the cache holds only what late calls put there. That
is inductive only with what is in the factory: `Close` waits for the mutex, so
a call that is in the factory after it is a late one (`CallsFollowTransports`). `SessionsClosedAtExit` follows, and
`NoConnectionAfterServing` as an action property, since past the switch nothing but the
listener of `both` is open.

`FactsProofs` proves the three properties of the run, for any tables with any number of rows,
any callers, directories and bounds. It has three parts.

*The merge.* That the facts say what the tables say (`FactsSayTheTables`) is proved table by
table. `PatchedIs`: if nothing stands where a table writes (`Clear`), then after its last row
the tree holds what was there before and every row that no later one replaces (`Holds`); this
goes by induction along the rows, through the recursive function in `Patched`. What one
table has written must then leave the next one's places clear. That is not obvious,
as each row replaces all below its path: it holds because the tables are pairwise `Separate`,
neither at, above nor below each other's rows, which comes from the depth of their paths or
the name of the map at one level (`TablesSeparate`), and, where one table writes below
another's rows (peers below processes, areas below OSPF processes, interfaces below areas),
from the columns having other names than the maps there (`CellNames`). For each table one lemma
(`NodeIs` to `OSPFInterfaceIs`) shows that its patches put the cells where the contract says
(`Faithful`). `PanicsForOrphans` follows which type assertions hold: the nodes and processes
that are found are those that the tables list.

*The comparison.* `AssertDictSubset` does not go below a key that is missing, so a difference
deep in the tree must be shown to be reported at the key above it (`Reported`). For the
converse, that what is reported is a difference of cells and not of maps, one needs the
shape of facts, which is an invariant of the merge of its own: at the same paths there are maps
whatever the tables (`MapAt`), every map but a node's shows in a cell (`Grown`; the
neighbors of a BGP process, which may be none, show in the process), and each
path's maps are there (`Whole`). `YamlIs` says what of this a file keeps.

*The calls.* `FactsAreOfOneSnapshot` needs what each question was about: `InScope` says that it
is one of the networks and one of the snapshots in the call's history, which holds because the
history has the session's current ones as long as the call asks (`IInv`), and only grows
meanwhile (`MoreHistory`). If the history is one network and one snapshot, all seven
answers are of that one (`OneScope`), and the merge does the rest (`AskedFacts`). The other two
properties need what became of the answers: `Outcomes`, that a call goes on only if
the merge does not panic, panics only if it does, and reports what the comparison makes of
those answers, whatever is written to the directory meanwhile (`FactsOutcomes`).

Only model-checked: the liveness properties (`EveryGetReturns`, `EveryRequestReturns`,
`EveryCallReturns`, `StopsWhenTold`), since the prover does not treat fairness; the properties
of `values` other than that of the parsers, whose definitions are recursive on data
(`FromDict`, `JsonValue`, through which header constraints are written,
`ParseJSONWithSchema`, `ValueMatches` of `Asserts`), where the prover has no induction; and the
violations.

## 5. Not modelled, and what could follow

Not modelled, because it is text or plain conversion without a rule that a model could get
wrong differently: the Capirca import, docstrings, tags and the order of a question's
variables, `String`, HTML and table rendering, log and progress texts, name checks, escaping
and zip files. Of the data frames, sorting, concatenation, renaming and the comparisons that no
answer or assertion uses. Of the data model, the convenience constructors of the reference
library. Of the tools, the variables that each analysis tool passes on, the parsing of
interface lists and the shape of results: `output.go` marshals elements with `encoding/json`
and not with `Dict`, so the types of step actions are missing there. Of the session, the
calls for objects, node roles, reference books and completion, which are one request each and
change nothing in the session. A negative `MaxRetries` (a nil response, see the hazards) is
excluded by `LimitAssumption`. `NewServer` is the only caller of `LoadConfig`; a reload
while sessions are in use is left out.

What could follow: the variables of each analysis tool against the declarations that
`Questions` checks; the options of fork; a refinement of an abstract "one call, one answer"
specification by `ClientSession` restricted to private sessions.

The order in which the modules were written is that of section 2: first what is shared
between concurrent calls (registry, requests, sessions), then questions, the process, facts,
and last the values.
