# A verification development for uzura

uzura is a headless browser in Go: it fetches pages, builds a DOM, runs
scripts in goja, and offers pages to clients over the Chrome DevTools Protocol
(CDP, a WebSocket server), over MCP (JSON-RPC on stdin and stdout) and on the
command line. This directory holds TLA+ modules of its core, TLC runs that
check them on small instances, and TLAPS proofs of the properties that matter
most, for every size of instance.

Contents: [parts of the system](#1-the-system) ·
[modules and code](#2-modules) · [runs](#3-runs-and-what-they-show) ·
[fairness and deadlock](#4-fairness-and-deadlock) · [proofs](#5-proofs) ·
[disagreements](#6-where-the-code-disagrees-with-what-it-says) ·
[not modelled](#7-what-is-not-modelled) · [plan](#8-plan)

To run: `tlc -workers 2 -config browser_limit.cfg MCBrowser` (the module of
each run is in section 3), `tlapm BrowserMcpProofs.tla`.

## 1. The system

How the parts call each other:

```
 client --ws--> cdp.Server --goroutine per request--> scope or global handler
                   |                                        |
                   |            Target   Fetch   Network   DOM   Runtime   Page
                   |               |       ^        ^       |       |        |
 MCP client --stdio--> mcp.Server  |  intercept   emit      |      VM     Navigate
                          |        v       |        |       v       v        |
                     PageSession  page.Page --------+--> dom.Document <------+
                          |        ^   |                     |
                          +--------+   +--> network.Fetcher  +--> mutation records
 Go API --> browser.Browser --> BrowserContext --> page.Page
```

| Part (src/internal) | State | Operations | What is hard | What makes it correct |
|---|---|---|---|---|
| `browser` | closed flag and contexts (`Browser.mu`), per context closed flag and pages (`BrowserContext.mu`), the atomic `pageCount` | NewContext, NewPage, Page.Close, BrowserContext.Close, Browser.Close | any goroutines at once; the limit is kept by compare-and-swap with no common lock; closing a page calls back into its context | the limit holds over all contexts; every permit comes back once; no page escapes a Close |
| `page` | closed, context, document, URL, response, interceptor, VM (`Page.mu`) | Navigate, Close, OnRequest, OnResponse, SetRequestInterceptor, VM | Navigate leaves the lock for the whole fetch; interceptors may block; Close comes at any time | events come in order and agree with what Navigate returns; Close ends what is running |
| `cdp` Fetch domain | enabled, patterns, `pending` channels, `pausedResponses` (`FetchDomain.mu`) | intercept (called by the page), enable, disable, continueRequest, continueResponse, failRequest, fulfillRequest | commands race for one request; a client may never answer | nothing blocks; nobody is forgotten; the decision is carried out |
| `cdp` Target domain, scopes | targets, sessions, pages (`TargetDomain.mu`), scopes (`Server.mu`) | setAutoAttach, createTarget, closeTarget, attachToTarget, detachFromTarget | handlers of several critical sections, interleaved; events sent between them | a session goes to its own page; one end report per target |
| `cdp` server | connections, handler tables, scopes | read loop, dispatch, Broadcast, disconnect | a goroutine per request; order of responses and events | every request gets one response; the right handler serves it |
| `cdp` Network, Page, console | session to report to, bodies | enable, the page's observer, getResponseBody, navigate | session read anew for each event; page read after Navigate | events of a request go to one place, about that request |
| `cdp` DOM, Runtime | node ids, object ids, globals of the VM | getDocument, query, set..., evaluate, callFunctionOn | ids restart; one VM used by many goroutines | an id names one thing while a client may use it |
| `dom` tree | five links per node | appendChild, insertBefore, replaceChild, remove, setTextContent, setInnerHTML, normalize | up to eight links change per call; fragments; loops over lists that change | links agree; a call does to the lists what the standard says |
| `dom` observers | registry, record queues, pending observers (globals) | observe, disconnect, takeRecords, flush | callbacks change the tree | each record once, in order |
| `js` | timers, listeners, runtime | setTimeout, setInterval, clear, run, dispatchEvent | callbacks set and clear timers and listeners | order of callbacks; a cleared timer does not fire |
| `network` | HTTP client, redirect count, robots cache | Fetch with retries, robots, challenge, hints | timeouts against late answers; retries; a lock held over a request | bounded attempts; cancellation ends them |
| `mcp` | cached pages, node map | browse, query, evaluate, interact, semantic_tree | ids of one page used on another; concurrent misses of the cache | one page per URL; an id names the element it was given for |
| `html`, `css`, `semantic`, `markdown` | none | parse, match, build, compress, convert | recursion over trees | result equals a reference definition |
| `wpt`, `bench`, `cmd` | results, flags | run tests, print | completion of asynchronous tests | one result per test |

`PROJECT.json` names the files of each part, lists the places where the code
is hard to test (`hazards`), the properties that watch it, or why none does yet.

## 2. Modules

### Browser: contexts, pages, and the limit

`PagePool` is the promise: a page takes a permit when it is made and gives it
back once, and at most `MaxPages` are out. `Browser` is the code. A goroutine
(`Threads`) is a record in `th` with the next step of the call it is in;
`BrowserContext.mu` is the variable `cMu`, because `NewPage` holds it while it
takes `Browser.mu` and swaps the counter. `Browser.mu` guards only sections
that do nothing else, which are single steps. `acquirePage` is three steps
(load, compare-and-swap, retry), and the loop of `closeInternal` over its copy
of the pages is one step per page, followed by those of the page's close
observer (`ReleasePage`, `RemovePage`), which takes the context's lock again.
Contexts and pages are sets: the code never depends on their order.
`NewPage` holds its context's lock in the model as in the code, so a goroutine
that wants it waits.

### Page, Fetch domain, and the two together

`RequestLifecycle` is what a page promises about its requests: the events of
each come in order, end at most once, and the document shown is that of a
finished request. `Page` is the code. Navigate takes its snapshot under the
lock and goes on without it; each of its stages (announce, interceptor for the
request, fetch, decode, interceptor for the response, respond, finish, store)
is a step. `hooks` is the chain of interceptors that OnRequest and OnResponse
build; their reading and writing of it without the lock are two steps
(`BeginRegister`, `EndRegister`), so of registrations under way at once (`reg`)
one may overwrite another. `ctxDone` is the merged context of a
navigation: it is done when the caller cancels, or when the goroutine of
`mergeContexts` sees the page's context done. `emitted` and `fetched` are
history.

`FetchDomain` is `intercept` and the commands. A call of intercept names its
channel, as it makes one per call. What a client enables is a member of
`PatternSets`, the calls its patterns match; matching URLs is left out. A
command that has taken a channel out of `pending` sends to it in a step of its
own. `malformed` is history and names requests whose fulfilment was not base64.

What the two share is in `PageRequests`: the requests and their contexts, the
stages of interception, the decisions. `PageFetch` EXTENDS both,
joined at the calls of intercept, as `Setup` wires them. Each side
stands in for the environment the other assumes: that the interceptor returns
when its context is done is an assumption of `Page` that is *checked* here
(`PageIsKept`), and so is the order of calls `FetchDomain` expects
(`CallsAreExpected`).

### Targets and sessions

`Targets` has the handlers of the Target domain, each a goroutine of several
critical sections: a session is recorded, then its scope is registered, then
wired to the page's domains, then the client is told. A scope is the page it is
wired to, or `Bare` as long as requests fall through it (its handlers are added one by
one in `CdpEvents`). A client may detach any session, also one it has not been told of:
identifiers are counted. `crashed` is the nil
dereference in createTarget when the new target has been closed meanwhile;
everything stops there.

### The CDP server and the events of a page

`CdpServer` is `server.go`, `session.go` and `scope.go`: a read loop per
connection, a goroutine per request (`rq`), which looks for the handler in the
scope of the request's session and then among those of the server, runs it,
writes the answer and then the events the handler returned. A scope is listed
(`scopes`) before it has handlers, which come one by one (`wired`, in `ScopeOrder`). `Broadcast` copies the list of
connections and writes to one after the other, while they come and go. `out` is
history: what was written on behalf of each request.

`CdpEvents` EXTENDS it with the handlers that report: Network.enable and
getResponseBody, Runtime.enable, evaluate and the console, Fetch.enable (which
sets the session to report to), attach, detach, createTarget, and Page.navigate,
whose navigation calls the page's `observer` for each event. A session has
domain objects of its own, so `net` and `rt` have one entry per session and one
for requests without a session; the page has a single observer, that of the
session wired last. Navigate may end with an error in three places: after loadingFailed,
after loadingFinished (a document that cannot be parsed), and with no last event when
the body cannot be decompressed, decoded or read. `disturbed` is history: the navigations
during which the listener of the page (`Listener`) changed or left, for which no promise
can hold that all events go to one client.

### The DOM and Runtime domains of a session

`NodeIds` is `domain_dom.go` on `node_store.go`: the two maps of the NodeStore,
one bind, lookup or reset per step, and the walks that describe a tree, which
bind one node per step with no lock on the tree. `RemoteObjects` is
`domain_runtime.go` on `remote_object.go`: what callFunctionOn does with the
globals of the page's only runtime, in the order of the code. When two
goroutines enter the interpreter at once, `raced` is set and nothing is said
from there on: that is a data race in a library that is not made for it. Calls
that take turns in the interpreter may still meet in the globals; `met` is
history, the commands that were under way at the same time as a call.
`CdpObjects` puts them on one page: scripts change the document the VM was bound
to while trees are walked, and the page navigates. `SessionCommands` holds the
constants the two share.

### Fetcher

`HttpClient` is the client with the one redirect counter that all requests of a
fetcher share and that nothing sets back; reading and writing it are two steps.
`Robots` is a pure module: the parser of robots.txt, line by line, the rule
that decides, and the `Readings` of a file: the scanner stops where the body breaks
off or a line is too long, nobody looks at its error, and what came before, with a
piece of the next line (`Pieces`), is parsed and cached like a whole file. `Fetcher` EXTENDS both: Fetch with its attempts and delays, the
robots cache with the lock that is held over the request, LoadDocument,
FetchWithChallengeRetry, and the goroutine of resource hints that a navigation
leaves behind.

### MCP

`SemanticTree` is a pure module: Builder and CompressTree on documents that are
sequences of elements with depths, next to `ShouldShow`, which says what the
tree should have without building it. `McpServer` is the session with its tools:
one message at a time, pages cached by URL, the node map of the last semantic
tree of *any* page, and `interact`, which marks an element with an attribute,
has a script look for the mark, and removes it. A script, or a listener that
interact makes run, removes an element or rewrites its inner HTML, which copies
marks. `Sublists` says what a loop that filters a list leaves of it, as a function of
how far the loop is; the passes of CompressTree, and the loops over
listeners and observers below, are such loops.

### Event loop and test harness

`EventLoop` is the heap of timers and the loop; callbacks set and clear timers
while it runs. Times are counted until due, so time itself is not a variable.
`Harness` EXTENDS it with a test file: the script elements in their order, the
test API, the loop until no timer is left, forced completion, and the result.
One goroutine does all of it. A recorded result is the test object itself, so a
function that ends its test and then throws changes what it recorded; since a status is
only read when all scripts are over, `Done` records the one the function leaves.

### DOM tree

`NodeTree` says what each mutating call does to the lists of children (a list without
some of its nodes is a `Sublist`, from `Sublists`).
`DomTree` has the five links of each node and does one linking or unlinking
per step; what is left of the call is the variable `job`, so that loops over
children (fragments, setTextContent, normalize) are seen at every turn. The
history variable `seen` is what an observer that trusts nothing but mutation
records believes each list to be: `RecordsTellAll` compares it with a walk over
the siblings. The calls have the arguments that the DOM standard allows
(`MayHold`: not into itself or its descendant; a reference is a child of the
node). The code does not check these; calls with wrong arguments are not part
of the main specification. The two calls that the standard allows and the code
gets wrong (a node as its own reference) are added in `SelfSpec`.

### Events and mutation observers

`NodePath` is the walk from a node to its root that both use. `Events` is
`binding_event.go`: a frame per call of dispatchEvent, holding what its loop
ranges over. Go's `range` keeps the slice of the moment it began;
removeEventListener shifts the same array in place, which the loop sees, until
an append moves the slice to a new array. So a frame has a `view` and whether it
still shares the array, and `caps` are the capacities that decide it.
`MutationObservers` is the registry, the queues of records and
FlushMutationObservers. `Callbacks` EXTENDS both over one tree, with one stack of
dispatches and flushes: only what was called last goes on, and what is called
may do anything the others depend on.

Modules named `MC...` add inputs and symmetry for TLC; modules named
`...Proofs` hold theorems.

A definition marked "Bug" next to a definition of the code is a variant of it, with a
guard dropped or an order changed. No specification uses it; put in the place of
the definition, it makes a property fail, which shows that the
property depends on that line.

## 3. Runs and what they show

| Run | Module | Bounds | Shows |
|---|---|---|---|
| `browser_limit` | MCBrowser | 3 goroutines, 3 contexts, 3 pages, limit 2 | `CountExact`: the counter is the number of permits that are out; `NoStrandedPage`: a close can still reach every open page; `ImplementsPagePool` |
| `browser_close` | MCBrowser | 2 goroutines, 2 contexts, 2 pages, no limit | `CloseClosesEveryPage`, those being made included; `CallsReturn` |
| `page_navigate` | Page | 2 navigations, a hook or an interceptor, registrations that overwrite each other | `ReturnMatchesEvents`: what Navigate returns agrees with the events it sent; `ImplementsLifecycle` |
| `pagefetch` | MCPageFetch | 1 navigation, 2 commands, 1 hook | `SendNeverBlocks`, `WaiterHasAnswerer`, `NoLeftovers` of the Fetch domain; `AskedInPlace` and `DecisionStands` between domain and page; `PageIsKept`: `Page!FairSpec`, its assumption on the interceptor included, is what the domain provides; `DisabledGoesOn`, `CloseFreesTheDomain` |
| `targets` | Targets | 2 handlers, 2 targets, 3 sessions | `SessionServed`: sessions are served by their own page; `DestroyedOnce` and `ClosedIsReported`: the end of a target is reported exactly once |
| `cdp_server` | MCCdpEvents | 2 connections, 1 session, 3 requests | `AnsweredByOwn`: one answer, from the right domain; `Stories`: the events of a navigation are in order, at one client while the page's listener stays, the body of a finished one is there, a failed one shows no page; `NavigatedNotStale`; `RequestsEnd` |
| `cdp_objects` | MCCdpObjects | 3 commands, at most 2 at a time; 2 documents, 4 numbers, 2 objects | `NamesStand`: a number a client was given keeps its meaning until the reset; `AnswersWhole`: trees are whole and of one document; `PassedWhileUnderWay`: what a call sees in the globals is its own or of a call at the same time, and nothing stays when the calls are over |
| `fetcher` | MCFetcher | 2 calls, 1 goroutine of hints, 1 redirect, 1 retry, 1 hint | `Bounded`: shared count and open bodies; `TriedWell`: attempts as often as they should be, an answer is not lost to a later attempt; `RobotsKept`: asked once, and obeyed as far as it was read; `AllEnd` |
| `mcp` | MCMcpServer | 4 messages, 2 URLs of 7 elements, depths 1 and 10 | `TreeAsRead`: building and compressing give what `ShouldShow` says; `NumbersReach`: node:N reaches what the client was shown as N or nothing |
| `wpt_file` | MCHarness | 2 timers, delays 0 and 1, 2 tests | `CountsEarned`: scripts in order, tests counted once, a pass is earned; `ClearedStayQuiet`: a cleared timer does not fire; `FileGoesOn`: each timer fires or is cleared, and only an interval that nobody ever clears keeps the file |
| `dom_tree` | MCDomTree | document, 2 elements, fragment, 2 texts | `LinksAgree` at every step; `RecordsTellAll`; `ImplementsNodeTree` |
| `callbacks` | MCCallbacks | 2 nodes, up to 3 listeners on each, 2 events, 2 observers, 4 calls | `LoopsRight`: a loop whose list nothing is removed from calls each listener once; `StopAndCurrent`: a dispatch of another event within a dispatch leaves the outer one alone (for removals and the same event see section 6); `RecordsArrive`: every change reaches who must hear of it, once and in order |

Several properties are conjunctions of named parts (`Stories` is `StoryInOrder`,
`StoryToOne`, `FailedShowsNothing` and `BodyKept`); each part is stated and commented in its module.

Why these bounds. *Browser*: the races are between a goroutine that tests and
one or two that change what was tested; three goroutines under a limit of two
are the first size at which two of them compete for the last permit while a
third gives one back. The default context and two others let a context be
closed on its own and by the browser. *Page*: two navigations are enough for one
to store over the other and for a close to come between. `MaxHooks` is 1, so a chain
there is one hook or the interceptor: each decides, fails or falls through to the end
of the chain, and registrations overwrite each other. A hook *before* an interceptor is
too much for these two runs; the theorems about them (`ReturnsMatch`,
`LifecycleIsKept`, `AskedWell`, `DecisionsStand`) hold for chains of any length.
*PageFetch* has one navigation because its properties are about
one request, with two commands to race for it; for any number of either the
domain's own invariants are proved. *Targets*: two requests at once are a pair
of critical sections and what comes between; three sessions allow a target with
two and another with one. *cdp_server*: a first request enables or attaches,
the second uses that, the third changes it meanwhile, on the same or on the
other connection, and the first connection may go away. *cdp_objects*:
`AtMostTwo` keeps two of the three commands under way at a time, since what goes
wrong goes wrong between two; the third lets one that has ended be compared with
what came later. *Fetcher*: a bound of one for redirects, retries and hints has
"not yet", "the last" and "one too many"; the one file has a group for all, one for
the agent and a rule outside, and is read whole or in part; a server answers with a document or with a 503 that
may pass and is a challenge (a 403 that is one is not retried, and so takes fewer steps);
one call has a context that never ends, the other one may be cancelled. *McpServer*: semantic_tree on one page, a
change, semantic_tree or a load of another page, and interact are four messages;
depth 1 makes trees end above their elements. *Harness*: two timers with delays
0 and 1 can be due together or one after the other, be cleared by each other, and
be late (`MaxLag` = 1). *DomTree*: with two elements there are trees of depth
three, the fragment holds up to two nodes, and lists are empty, single or have a
first, a middle and a last. *Callbacks*: `MaxDepth` and `MaxFlushes` of 2 are one
call inside another; three listeners are the first list of which the middle one
may be removed.

Other bounds: `MaxHooks` (Page) bounds the chain of interceptors, `MaxReqs` the
requests read, `MaxId` and `MaxObject` the numbers given, `MaxCalls` (Callbacks)
the calls of program and callbacks, `MaxMessages` the messages, `MaxListed` the
listeners of a node, `MaxTimers` and `MaxTests` what scripts make. Targets,
sessions, pages, contexts and navigations are sets of identities used once, so
they bound how many are ever made. setInnerHTML parses to at most two nodes. Scripts of a test file set at most
`MaxTimers` timers, so callbacks that set ever new ones are not in `wpt_file`.
`SYMMETRY` is used in runs without liveness only.

## 4. Fairness and deadlock

Fairness is only what the Go scheduler and the called code owe: a goroutine
that can go on does. Nobody is ever obliged to call, to answer, to close or to
cancel.

- `Browser!FairSpec`: strong fairness for the steps of a call, because some
  wait for a `sync.Mutex` that others may take again and again; a Go mutex goes
  to its first waiter once that has starved for a millisecond.
- `Page!FairSpec`: weak fairness for the steps of Navigate and for
  `mergeContexts`; the fetcher and the interceptor return once their context is
  done (net/http does; for the Fetch domain `pagefetch` checks it), and may
  wait forever before that.
- `PageFetch!JointFairSpec`: the same, with the domain's own steps in the place
  of the assumption on the interceptor. A command that was taken up goes on.
- `Targets!FairSpec`: a request that is closing a target goes on, until the process ends.
- `CdpEvents!FairSpec`: the goroutine of each request goes on; a write to a
  connection that is gone returns with an error.
- `Fetcher!FairSpec`: each call and each goroutine of hints goes on; that a
  request returns at all is the client's timeout, which `NewFetcher` always sets.
- `Harness!FairSpec`: the one goroutine of the runner goes on and time passes;
  scripts and callbacks return.

`CHECK_DEADLOCK FALSE` stands where the system may rightly stop: all
navigations have ended and the page is closed, every request, message or call
of the bound has been served, the file is reported, session identifiers have
run out, the process has crashed (Targets), or the interpreter was entered twice
(CdpObjects). The other runs check that no state is stuck.

## 5. Proofs

The theorems hold for any sets of goroutines, contexts, pages, navigations, requests,
commands, targets, sessions and nodes. The assumptions are those of the modules:
`None` is not one of the identities; `MaxPages` is a natural number and `MaxHooks` a positive one; the
default context is a context; patterns match calls; `"bare"` is no target, and sessions are numbered; the
kinds of nodes are disjoint; a request is one of a
connection that exists, and handlers have names; a call of the fetcher is of a
kind there is, to an origin there is, and its name is not its goroutine's;
a robots.txt is a sequence of lines; documents, as they are parsed, are trees; the numbers a client may have made up
are numbers; served documents are sequences of elements with depths; the root that
listeners and observers start from is a node, and the lists and registrations it
starts with are lists of listeners and registrations.

**BrowserMcpProofs**, about the browser: `TypeCorrect`, `CountIsExact`, `LimitHolds`,
`PoolIsImplemented`, `NothingStranded`. `CountExact` relates a number to a set
that other goroutines are changing. That giving a permit back removes exactly
one page from the set needs every permit to have a single holder, the page's
observer or one goroutine (`OneHolder`); that open pages hold theirs, and closed
ones not, is `OpenIsCharged`; what a goroutine relies on between its steps is
`InCall`; that only pages which were handed out are listed is `Listed`. From
their conjunction `IInv` the refinement follows: each step takes one permit,
gives one back, or stutters. `NothingStranded` rests on two more facts: a
goroutine in NewPage has the lock of a context that is not closed, until it has
appended (`LockHeld`), and only goroutines in the middle of closing have pages
left to close (`ClosersKnow`). `LimitHolds` is `PageLimit`, what WithMaxPages
promises, and follows from the exact count.

About the MCP server: `NumbersReachHolds` (`NumbersReach`), `TreeAsReadHolds` (`TreeAsRead`).
`McpInv` says that a number that has been shown stands in the node map, for the element it
was shown for; that marks are gone when a call has ended; that the elements of
cached pages are among those counted so far; and that a URL was loaded once or never. What
interact finds by its mark is the element itself or a copy, since only a script that ran in
the same call can have copied it. For the tree, documents and trees are both read as
lists with depths, in which something holds what follows it at greater depths. `Reads`
relates the two: the nodes of a tree are at increasing positions of the document, and
one holds another in the tree if its element is above the other's in the document.
What the builder has made after n elements is shown by induction (`BuiltTo`): its
stack has the depths of the elements that are open there. Each pass of CompressTree
drops nodes with what they hold, or merges texts, and keeps what is left in that
relation (`Kept`, `LeftOf`). So what the last pass leaves are the elements that
`ShouldShow` finds from the document alone.

**PageFetchProofs**, about the Fetch domain alone: `FetchTypeCorrect`,
`NoSendBlocks`, `MapsAreExact`, `NobodyForgotten`. The three properties are inductive only together, and with
`Untouched`: until its call begins a channel is empty and in nobody's hands. The
core of the argument is that a channel is registered in `pending` or in the
hands of exactly one command, and gets its one decision from there.

About a page alone: `PageTypeCorrect`, `ReturnsMatch`, `LifecycleIsKept`.
`ReturnMatchesEvents` speaks of navigations that have ended; `Told` says of each
step of Navigate which events went before it and how far the fetch came, and is
inductive with the types. `LifecycleIsKept` is the refinement of
`RequestLifecycle`: the four steps that send an event advance one phase, `Store`
shows a request whose events `Told` knows to be complete, `Close` clears, and
all other steps stutter.

About a page and its Fetch domain: `DecisionsStand`, `AskedWell`, `FetchDomainIsKept`,
`FetchDomainInPlace`, `PageSafetyIsKept`. Every step of the two is a step of
each side, with the parameters that the other gives it, so each side keeps its
own specification and the theorems about it alone hold in the composition.
The inductive invariant is theirs together with `Placed`: where Navigate stands
tells whether its call of intercept is under way, how far the fetch came, and
which decisions it may have got. `AskedInPlace` and `DecisionStands`, which
speak of both sides, follow from it.

**CdpEventsProofs**: `EveryRequestAnswered` (`AnsweredByOwn`), `OneStoryOfEach`
(`Stories`), `NeverAnOlderPage` (`NavigatedNotStale`). The invariant says of
each request what is known of it at each step: who serves it (`ServedAt`), what
has been written of it so far (`AnsweredAt`), that the events written, being
written and yet to come are in order (`OrderAt`), go to one client unless the
navigation was disturbed (`OneAt`), that a body is kept before its client is
told (`BodyAt`), and that what it reports is no older than the page it
navigated to (`FreshAt`). Steps of one request change nothing of this for another but by
what all share; `Benign` is what such a step may do to that, and the lemmas
show it of each step.

**CdpObjectsProofs**: `NumbersKeepTheirMeaning` (`NamesStand`),
`WalksAreWhole` (`AnswersWhole`), `NothingPassedOutlastsItsCall` (`PassedWhileUnderWay`). For nodes:
the two maps are inverse, the kids form a forest (`TreeOK`: no node is above
itself or in two places), and, per walk, what was found, and what its frames
will still add, are disjoint and together the whole tree that was asked for
(`Parts`). This must be said of every step of the walk, for each of the three
kinds of frames, as long as the tree was not changed under it. For objects: the
globals `__cdp_this` and `__cdp_arg0` were put there by a call that has yet to clear
them (`SetByCall`); two commands that are under way at the same time have met each
other, so what a call has seen is its own or of a call it met; and what it told comes
from the objects it was given, unless two goroutines have been inside the interpreter
at once.

**FetcherProofs**: `BoundedHolds`, `TriedWellHolds`, `RobotsKeptHolds`. `Well`
says of a call, by where it is, whether it has a body open, which answer it has
read and what it gave up; that the count of redirects is no smaller than the
number that was followed, as long as no addition was lost, is `ClientIInv`; that a
goroutine of hints has a hint left while it has a request under way is `HintAt`.
That robots.txt is asked for once needs the lock: its holder is the one call
that asks, and an origin that was asked and is not in the cache is the
holder's (`OriginOK`). That it is obeyed has two halves: what the cache holds is
the parse of one reading of what was served (`WasRead`), and every call went on or was
refused by that one (`CacheIInv`); and `ForbiddenByLines`, for every sequence of lines, that what is
forbidden by the groups is what is forbidden by the lines. The parse is
a recursive function over positions, so induction over the natural numbers, which
the library's well-founded induction gives for sets (`Least`, `Induct`), shows that
the function exists (`ReadIs`) and what it has read of the first n lines
(`ReadWell`): the group that is open, and for each agent where the last group
that names it ended.

**TargetsProofs**: `TypeCorrect`, `SessionsAreServed`, `MarksAreTrue`,
`EndReportedOnce`. `Held` says that one handler and no client has a session
until it is told, and how far the scope then is; `Unscoping` that a scope is
removed only for a session that is gone; `Fresh` that what no handler has made
yet is clean and what one works on exists; `Reporting` that a report that is due
is due once. `MarksAreTrue` is `MarkHasSession`.

**DomTreeProofs**: `TypeCorrect`, `LinksAlwaysAgree`, `WalksEnd`,
`RecordsAlwaysTellAll` (`RecordsTellAll`), `TreeIsImplemented` (`ImplementsNodeTree`).
`LinksAgree` says nothing against a ring of siblings, and a node in one of those
could be its own neighbour when it is unlinked: `NoRing` (every non-empty set
of nodes has one whose next sibling is outside) is the strengthening, and it is also
what makes a walk over children end. `JobOK` is what a job relies on from step
to step: its reference is still a child of its node and is not the node that it links,
and the fragment it empties is not its node. For the records, `ListsOK` says of the list
that an observer believes in that it has the children of the node, each once, and that
each is followed by its next sibling. A record leaves no choice where such a list is cut
(`CutIs`), so each linking and unlinking does to the list what it does to the links.
`ChildNodes` is a recursive function along nextSibling: what is left of the lists
from each node on satisfies its definition, and by `NoRing` nothing else does
(`ChildNodesAre`).

`TreeIsImplemented` (`ImplementsNodeTree`) says that each call, when it returns, has
done to all lists what `NodeTree` says in one sentence, for any tree and any number of
steps. Its invariant `WayOK` says in the middle of a call what is left to do: what each
list is to become, given the nodes that are still to be placed and where (`PlaceOK`,
`ClearOK`, `SwapOK`). So it stays true when a node leaves the very list that it is to
be placed in, when its own last sibling is the reference, and when the fragment is
emptied from the front. For normalize (`Normalizing`) it names the containers that are
done and those to come to, says that in each list what would stay has stayed, and that
the part before the node that is looked at needs nothing more (`Passed`); when none is
left to come to, everything below the first node is done, and is what `Merged` leaves.
Lists are spoken of by what they have and in which order (`Has`, `Goes`): each linking
and unlinking gets one lemma about the order (`UnlinkOrder` and others), and a list
without doubles is told by its order (`OrderTells`). The sublists of `NodeTree` are
recursive functions; they are shown to keep the order by the library's least element of
a set of numbers (`Least`, `Induct`), which needs no operator as a parameter.

**ScriptProofs**, about the test harness: `EveryCountEarned` (`CountsEarned`) and
`ClearedTimersStayQuiet` (`ClearedStayQuiet`: a cleared timer keeps its mark, also when it
is not in the heap, and only `Fire` calls a callback). That a timeout which fired
has left the heap, and that an id not yet given has no timer (`LoopOK`), makes
it fire once. Each result is of a test that is done, with its status, and no
two are of one test (`RecordedOK`); until the scripts and the loop have ended the
count is the number of tests that are not done (`CountOK`); the file completes
once, and a test it leaves behind came later or makes the file a timeout
(`CompleteOK`). Four different
functions change tests, count and results, and each lowers the count for one test that
leaves `Pending`, or for none. `OrderOK` says that what ran and what is to run make
up `ScriptOrder`; that this lists each script once, inline before deferred
(`OrderIs`), is shown by induction over the scripts of the document. A pass is earned
because the status is taken from the counts of the results (`ReportOK`).

About listeners and observers: `RecordsArriveHolds`, `StopAndCurrentHolds`, `LoopsRightHolds`.
For records (`ObserversOK`): what an observer has been given and what is queued for it are
what it had to hear of, and one with records is in `pending` or in the rest of a flush.
`Notified`, which walks up from the target, removes doubles and skips registrations, is
shown to have exactly the observers that `HasToHear` finds, by induction over the path. For
dispatches, `FrameOK` says of each frame what the event object has for it as long as no
inner dispatch of the same event took over, `NestedOK` that such a dispatch marks those
outside it, and `StopsOK` which frame stopPropagation stops. For loops, `AsArrived` says
that what a frame has called is what the loop wants of the part it has passed, as long as no
listener was removed there. Others write into the array it ranges over; `ReachOK` says that a
shared array is at least as long as the view, and appends write behind it, or move to an
array of their own when the capacity (`Capacities`) is used up. `StackOK` counts the
dispatches and flushes on the stack, which the type invariant of `Callbacks` compares
with the frames there are.

What is only model-checked: liveness (`CloseClosesEveryPage`, `CallsReturn`,
`ClosedIsReported`, `DisabledGoesOn`, `CloseFreesTheDomain`, `PageIsKept`,
`RequestsEnd`, `AllEnd`, `FileGoesOn`), which is out of the prover's reach. Every
invariant, action property and refinement that a run checks is also a theorem.

## 6. Where the code disagrees with what it says

Each line names a formula and a run. The formula is not one of the run's
properties: added to its configuration, it makes TLC print the counterexample.

| What the code or its documents say | What happens | Formula, in the configuration of |
|---|---|---|
| NewContext "Returns nil if the browser is closed" | a browser closed while the call runs gets a context | `NoContextAfterClose`, `browser_limit` |
| "Release any pending intercepted requests so they don't hang" (disable) | a request whose fulfillRequest had a malformed body stays paused | `DisableReleases`, `pagefetch` |
| Page.Close "releases all resources held by this page (VM, DOM, observers)" | a page closed during the last part of a navigation holds a document afterwards | `ClosedHoldsNoDocument`, `page_navigate` |
| issue #51, domain_target_test.go: no duplicate attachedToTarget | createTarget and setAutoAttach together announce a target twice | `NoDuplicateAttach`, `targets` |
| the DOM standard: a node may be inserted before itself or replaced by itself | insertBefore(x, x) makes a node its own sibling, replaceChild(x, x) a parent and child that disagree | `LinksAgree` under `SelfSpec`, `dom_tree` |
| "MaxRedirects is the maximum number of redirects to follow" | the count is shared by all requests and never set back: a request may be refused its first redirect | `RefusedOnlyAfterMax`, `fetcher` |
| Navigate "performs: robots check -> fetch -> ..." | robots.txt is not asked for | `NavigateAsksRobots`, `fetcher` |
| "Hidden elements should not appear at all" (compress_test.go) | children of a hidden element that has no node of its own are shown | `HiddenStayOut`, `mcp` |
| node:N selects by the number of the semantic tree | with a mark left in a copy made by a script, another element is reached | `NodeReachedAlways`, `mcp` |
| "Timeout per test file. Zero means 30 seconds." | nothing reads the field: an interval that nobody clears keeps the file running | `FileEnds` (as PROPERTY), `wpt_file` |
| "Mark remaining async tests as timeout" | they are left out of the results | `PendingAreReported`, `wpt_file` |

More in the models, with no document to quote against them:

- Browser.Close may return while another goroutine that closes a context is
  still closing its pages.
- createTarget dereferences nil when the new target is closed at once
  (`CrashCreated`).
- A listener that is removed during a dispatch shifts the array under the loop:
  the next listener is skipped and the last one is called twice. `EachOnce`
  therefore leaves out loops during which one was removed.
- stopPropagation on the target also stops the target's other listeners, and
  dispatching an event again from its own listener redirects its target,
  currentTarget and what stopPropagation stops. `StopHolds` and `CurrentRight`
  say what holds apart from that.
- A navigation whose body cannot be decompressed, decoded or read ends without
  loadingFinished or loadingFailed (navigate_helpers.go:108-119), so a client that
  follows the events has it open forever; one whose document cannot be parsed ends with an
  error after loadingFinished. `StoryToOne` asks for a last event only when the page
  is told of.
- While a navigation is under way, attaching a session or enabling the Network domain
  moves its remaining events to another client: each hears of a part. Of a body that
  finished then, the domain that told of the end has it.
- Two callFunctionOn at the same time share `__cdp_this` and `__cdp_arg0`: a call may
  run with the object or the argument of the other, or with undefined after the other
  cleared them. `PassedWhileUnderWay` bounds this to calls that overlap.
- A number given for a node before getDocument names another node after it.
- robots.txt is read up to a line of more than 64 KiB or to where the body breaks off, and
  the rules up to there are kept for good: a path that the rest of the file forbids is
  loaded, and the piece of a rule that was cut, being a shorter path, may forbid more than
  the rule. `RobotsRespected` therefore speaks of the lines that were read.
- Requests that are redirected at the same moment may lose each other's additions to the
  shared count and then follow more than MaxRedirects.
- returnByValue answers with the number of a stored copy, not with the value.
- A client that goes away leaves its sessions, scopes and enabled domains. After a
  detach the page goes on to report to the domains of the session that is gone.

## 7. What is not modelled

Inside modelled parts: matching of URLs by patterns; the conversions of bodies
(base64, gzip, character sets), which are one choice between success and error;
headers; attributes and text of nodes in the DOM domain; what an evaluation
computes; other event types and preventDefault; old values and attribute filters
of mutation records; CloneNode and ImportNode; assertions and names of tests.

Parts that are not modelled, and why: attributes, class lists, queries and
serialization of the DOM, the HTML parser, CSS selectors and the Markdown
converter are sequential transformations of text and trees without control worth
a state machine, on which none of the properties above depend; the other
JavaScript bindings hand calls on to the DOM; CDP stubs answer with constants (how
they stand behind domains is in `CdpServer`); reports, baselines and skip lists
of the test runner, the command line, errors and benchmarks are input, output
and layout. The goja interpreter, golang.org/x/net/html, TLS, HTTP, WebSocket
frames and JSON are libraries and are part of the environment.

## 8. Plan

What could be added: the queries and attributes behind the DOM domain, and the several pages
of a `Targets` in the place of the one page of `CdpEvents`.
