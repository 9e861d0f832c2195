# A verification of webserv

The program is an HTTP/1.1 server in C++98 for macOS: one process, one thread,
one `kqueue`, and CGI children behind pipes. This directory holds TLA+ modules
that model it, from the configuration file to the last byte of an answer, TLC
configurations that check them on small instances, and proofs that TLAPS checks
for every instance.

Run from this directory:

    tlc -workers 2 -config connections.cfg MCEventLoop.tla
    tlapm EventLoopProofs.tla

## Inventory

| Component | Code (under `src/`) | State | Operations |
|:--|:--|:--|:--|
| Configuration | `src/Configuration.cpp` | token automaton, bracket stack, `_blockCount`, duplicate-key tables | `parsing`: tokens, syntax, same keys, values |
| Server, Location | `src/Server.cpp` | values of a `server` and its `location`s | setters, getters |
| Event loop | `src/Operation.cpp`, `src/main.cpp` | `_servers` by port, `_clients` by socket, the batch `tevents` of the last `kevent()` | `start`, `handleTriggerEvent`, `handleEvent`, `acceptClient`, `handleReadEvent`, `handleWriteEvent`, `handleError`, `CleanUpClientResources` |
| Client | `src/Client/Client.cpp`, `AddEvent.cpp`, `DeleteEvent.cpp`, `Error.cpp` | `_pid`, `_readFd`, `_writeFd`, `_stateCode`, `_responseBuffer`, `_responseStr`, `_sendIndex`, `_writeIndex`; its knotes in the kqueue | constructor, destructor, `handleResponse`, `sendData`, `handleEndProcess`, `clearClient`, `closePipeFd`, `handleError` |
| GET, DELETE, POST | `src/Client/Get.cpp`, `Delete.cpp`, `Post.cpp` | none of their own | `handleGet`, `handleDir`, `handleFile`, `handleGetCgi`, `handleDelete`, `handlePost`, `handlePostCgi`, `readPipe`, `writePipe` |
| Request | `src/Request/*.cpp` | `_state` (READY, CREATE, DONE), `_requestBuffer`, `_bodyStartIndex`, `_requestBody`, `_readIndex`, `_chunkedEnd`, `_host`, `_server`, `_location`, header fields | `handleRequest`, `parsingHeader`, `parsingChunkedData`, `findServer`, `findLocationPath`, `checkLimitExcept`, `clearRequest` |
| Descriptors | all of these | the process's table, copies in its children, numbers recorded | `pipe`, `fork`, `dup2`, `accept`, `close`, `kill`, `waitpid` |
| CGI programs | `src/cgi/post_cgi.py`, `src/pages/*.py`, any other | a process, its standard input and output | read, write, exit |
| Utilities, getters | `src/Util.cpp`, `*Getter.cpp` | none | string helpers |

**How they interact.** `Configuration` fills the servers of `Operation` before
the loop starts. From then on the kqueue is the only meeting point. Every Client
registers knotes for its socket (read *or* write), for its timer, and while a
CGI runs for the process and for both pipes, each with the Client's address as
`udata`. `kevent()` returns up to `MAX_EVENT` events; `handleEvent` calls the
Client each one points to. Handlers report errors by throwing an `int`, which
`handleEvent` catches and turns into an error page. CGI children run
concurrently with the loop and meet it in their pipes and their exit.

**What is hard.**

* *Between fetch and turn.* Handlers of earlier events in a batch change or
  delete what later events are about. After a clean-up `handleEvent` therefore
  returns and drops the rest of the batch.
* *Ordering.* The exit of a child and the end of its output are two events, in
  either order, in one batch or in two.
* *Failure half way.* `pipe`, `fork`, `kevent`, `open`, `remove` fail in the
  middle of handlers; the catch in `handleEvent` may itself throw; the
  destructor may throw.
* *Fields that outlive what they are about.* `_readFd`, `_writeFd` and `_pid`
  stay after the descriptor or process is gone; `_host`, `_server`, `_location`,
  the buffers and positions stay from one request of a connection to the next.
* *Pieces.* Requests, chunks, pipes and answers move in pieces of any size, and
  each of the positions kept must agree with what was really moved.
* *Timeouts* race with answers, and timer events are dropped with a batch.
* *Four passes* over one configuration file, each with its own idea of the block
  it is in.

`PROJECT.json` lists each hazard at its line.

**What makes each component correct.**

* Configuration: a file is accepted exactly if it has no fault, and then says
  what its blocks say; no stack is read when empty, no block is left open.
* Event loop: no event of a deleted Client is handled; the loop never blocks;
  it is lost only for reasons that can be named.
* Client: reads or writes, never both or neither; has something to send when it
  writes; no child survives its request; a silent peer is closed.
* Request: every line read as its form says; routed once, by its own host and
  path; answered once its body is whole, in order, with its own body.
* CGI: its input is closed when the body ends; its output is the answer of the
  request that started it, and of no other; nothing is lost on the way.
* Answers: whole, with the length they declare.
* Descriptors: only the owner closes a number; pipes are closed in the end.

## Modules

| Module | What it is |
|:--|:--|
| `EventLoop` | the loop, the Clients and the CGI children: events, knotes, failures |
| `Conversation` | what a connection is promised; `EventLoop` implements it |
| `EventLoopInvariant` | two inductive invariants of `EventLoop`: for any CGI programs, and for well-behaved ones |
| `EventLoopProofs` | proofs of both, the theorems that follow, and of `EventLoop` implementing `Conversation` |
| `ConfigSyntax` | the first two passes of the configuration parser: automaton and bracket stack |
| `Configuration` | all four passes, with the tables of keys and the objects filled; extends `ConfigSyntax` and implements it |
| `ConfigFile` | files as they are read, and what they say by their grammar; extends `Configuration` |
| `ConfigFileInvariant` | the inductive invariant of `ConfigFile` |
| `ConfigProofs` | proofs about `ConfigSyntax`, `Configuration` and `ConfigFile` |
| `HeaderLine` | one line of a header: `getToken`, `setRequestLine`, `setFieldLine` |
| `Routing`, `RoutingProofs` | header to server, location and file, request after request; proofs |
| `RequestStream`, `RequestStreamProofs` | the buffer of a connection and its positions, request after request; proofs |
| `ChunkedBody` | the decoding of a chunked body that arrives in pieces |
| `DecodingProofs` | proofs about `HeaderLine` and `ChunkedBody` |
| `CgiRelay` | the bytes of a POST: peer to program, program to peer |
| `Relay` | a lossless relay; `CgiRelay` implements three |
| `CgiRelayProofs` | proofs about `CgiRelay` |
| `Answers` | answers from files, directories, DELETE and error pages |
| `AnswersProofs` | proofs about `Answers` |
| `Descriptors`, `DescriptorsProofs` | the descriptor table, what children inherit, numbers used again, zombies; proofs |
| `MC...` | the small instances TLC checks |

**How they compose.** `ConfigFile` extends `Configuration` extends
`ConfigSyntax`. `EventLoop` has every event, handler and failure of several
connections, with data reduced to what control depends on; `Routing`,
`RequestStream`, `ChunkedBody`, `CgiRelay`, `Answers` and `Descriptors` each
take the data of one concern apart, with the handlers that touch it and the loop
reduced to "a handler runs when the kernel may report its event". What
`EventLoop` takes for a choice (a request is refused, a body ends, a response is
whole) is computed there; what they take for granted (the order of events, the
knotes) is checked there.

### `EventLoop` and the code

| Variable | In the code |
|:--|:--|
| `loop` | whether control is inside `handleTriggerEvent`, or how it left |
| `batch` | `tevents[i..nev)` |
| `life[c]` | before `acceptClient`, between constructor and destructor, after |
| `conn[c]` | the fields of the Client and its Request, as far as control depends on them |
| `reg[c]` | the knotes whose `udata` is this Client |
| `child[c]` | the process `_pid` names (`"none"` is `INIT_PID`, `"failed"` the -1 of a failed `fork()`), and whether it has exited |
| `out[c]` | whether the CGI's output pipe holds bytes |

Operators have the names of the functions they translate. An action is one
event's whole handler, from `handleEvent`'s `switch` down to the last knote;
`Poll` is `kevent()`; `ChildWrites` and `ChildExits` are the CGI programs.
Operators take the fields `k` and the knotes `R` as the calls before have left
them, so that a call that throws half way keeps what was done up to there:
`handleError(c, code, k, R)` is the exception, its catch, and what happens when
the catch throws too.

Data are abstracted to what the properties tell apart. A response is empty, a
page, an error page, junk (bytes of more than one response or of half a one),
or short (replaced after a part was sent). Of a body it is known whether it is
whole and whether bytes are left to write. Of a target: file, script, POST (and
PUT, which the code treats alike) or DELETE. Parsing and routing have only
their outcomes: not there yet, an error, undefined behaviour, or a request.

The ways to lose the loop are told apart (`Loss`); what would happen after one
of them is not modelled. In `"misdirected"` a number that was closed is used
again: the model lets every such use either find nothing there (`EBADF`) or hit
a descriptor that belongs to something else.

A batch is a set: any member may be handled next. The order in which `kevent()`
fills its array is not specified, and no handler changes the array, so the set
has the behaviours of all orders.

Assumptions about the environment: adding a socket, pipe or timer knote does not
fail (only adding a process knote does, because a child may be gone already);
the error pages can be read; what a CGI program writes is empty or has the
header `readPipe` looks for. A connection object is accepted once: a second
connection that gets the number of a closed one is another member of `Client`.

### Configuration and the code

`ConfigSyntax` has one step per token: `setCheckList` gives the token its kind
from `_tokenState` (`kindOf`, `NextState`), and `checkSyntax` pushes or pops
`_bracket` (`push`, `pop`), counts `_blockCount`, and looks at neighbours. The
passes are loops over the same tokens without look-ahead, so they can be run in
step; a file is refused if any of them throws, and which message wins is not
told apart. `Configuration` adds `checkSameKey` (`same`) and `setValue`
(`filling`, `server`, `location`, `servers`) to every step, with what is not
initialised in the code chosen freely: the duplicate-key tables before the first
block, and the port of a server without `listen`. `ConfigFile` chooses the
tokens: from the grammar, keeping the `file` they describe by its blocks, or
freely (`at = "any"`). The values themselves are strings the server keeps; only
ports, names and paths are compared with one another.

### Requests and the code

* `HeaderLine`: `start` and `token` are the locals of `util::getToken`, one step
  per round; `Tokens` is what `setRequestLine` or `setFieldLine` does with the
  result. A line is any sequence of characters, of which `"COLON"`, `"SP"` and
  `"LF"` are the ones the code looks for (`util::checkMultipleSpaces` refuses two
  spaces and two line feeds alike).
* `Routing`: `host`, `server`, `location`, `convertRequestPath` are the fields of
  those names, kept from one request to the next where `clearRequest` leaves them;
  a path is a sequence of characters, as prefixes and erased lengths matter.
* `RequestStream`: `requestBuffer`, `bodyStartIndex`, `contentLength`,
  `requestBody` and `state` are the fields; a stream is a sequence of cells
  (request line, field line, empty line, unit of body), cut anywhere. `polite`
  peers wait for each answer, others do not. A stream that does not begin with a
  request line is refused, with 405 and the end of the connection where a body left
  over makes the method unknown; a program may exit, with 0 or 1, before its body
  has arrived; and any connection may be torn down by its timer, a hang-up or a
  failing `send()`.
* `ChunkedBody`: `buffer`, `readIndex`, `body`, `ended` are the fields;
  `parseChunkedBody` is one turn of the loop in `parsingChunkedData` over them,
  with `strtol` modelled for hexadecimal digits and the line ends before them; a
  sign, `0x`, a space or tab in front and a number too large for a `long`, which
  `strtol` takes as well, are left out.

### Answers, the relay and descriptors, and the code

* `CgiRelay`: `phase` is what the connection does: `"closed"` by `send()` of nothing,
  `"lost"` by a hang-up, a failing `send()` or the timer, also with a part of the
  answer sent. The three positions (`writeIndex`, what has been read into
  `responseBuffer`, `sendIndex`) and the bytes on both sides of each. `write()`,
  `read()` and `send()` take any part of what they are offered. `Response` is
  what `readPipe` builds at the end of the output, its Content-Length by
  `cgiBodySize`.
* `Answers`: `code`, `length`, `buffer`, `str` and `index` are the fields of the
  Client; `handleGet` down to `handleAutoIndex`, `handleDelete`, `pushErrorBuffer`
  and `sendData` change them. `due` is what each request deserves, by a definition
  of its own. Files come and go under it, and so does the directory once it is
  empty, which a DELETE removes as well.
* `Descriptors`: `fds` is the kernel's table; `pipe` and `accept` take the lowest
  free numbers, `fork` copies the table to `held[n]`, `close` closes a number
  whatever it names by then. `conn` has the numbers a Client records.
  `world` says how many numbers and programs there are and which faults occur.

## Properties

| Property | Says |
|:--|:--|
| `IInv` | what the loop knows of each Client fits together (inductive, with the types) |
| `OneDirection` | a live Client has exactly one of the read and the write knote |
| `BatchFollowsLife` | no event in the batch is about the socket, timer or child of a deleted Client |
| `WaitNeverBlocks` | `waitpid()` is called only for a child that has exited |
| `NoChildBetweenRequests` | no child survives the request that started it |
| `RoutedOnce` | a request whose start failed is not started again |
| `AnswerReady` | who is to write has an answer, or an open CGI pipe |
| `FailureNeedsCgi` | without CGI the loop is lost only to `accept()` or malformed requests |
| `KnotesFollowRequest` | with well-behaved CGI programs: no knote of a process or a pipe is left from one request to the next, none of the socket, timer or process after the Client |
| `NoSigPipe`, `NoJunk` | with well-behaved CGI programs: no SIGPIPE, no bytes of another request |
| `KeepsPromise` | with well-behaved CGI programs: `EventLoop` implements `Conversation` |
| `SilentPeerClosed` | a peer silent from some time on is closed |
| `AnswerDue` | a request that has arrived whole is answered or its connection closed |
| `SyntaxInv` | automaton, bracket stack and `_blockCount` fit together; only a brace that begins the file has no keyword below it (inductive, with the types) |
| `AcceptedClosed` | no file is accepted with a block open |
| `AsDescribed` | a file that follows the grammar is accepted exactly if it has no fault, and gives the servers it describes |
| `ServerKeysOnce` | no server that gives a key twice is accepted (violated, see below) |
| `FieldLine`, `RequestLine` | a line that is read has its form; one of that form is read unless two spaces or line feeds stand together (or a field's name has a space); where the code looks past its tokens |
| `LineDone` | `getToken` ends |
| `RoutedByHost` | a request with a Host gets that host's server, whatever came before |
| `LongestPrefix` | it gets the longest location that matches, or 400 |
| `FileInRoot` | and the file its path names under the root |
| `OnlyAllowed` | nothing is carried out that the location forbids |
| `NeverMixed` | a request is carried out with the whole of its own body, or none, and never a byte of another; and once |
| `AnswersInOrder` | a polite peer's answers come in order up to the first request not carried out with all of its body |
| `AllAnswered` | a polite peer gets an answer to every request, unless its connection is closed |
| `Decoded`, `EndKnown` | the body is the chunks that arrived in full; its end, its limit and a bad chunk are seen exactly when their bytes are there |
| `RelayInv` | the positions of the relay count exactly what was moved (inductive, with the types) |
| `Framed` | a CGI answer has the Content-Length it announces |
| `AnswerFromOutput` | what is sent is the beginning of the answer to all of the output; all of it before the next request, none when `send()` is given nothing, a part only where the peer is lost |
| `Relayed` | body, output and response go through three lossless relays |
| `Settled` | the program sees the end of its input, and its peer an answer or a close; if the exit event is missed, by the timer |
| `PipesHeld` | the end of a program's output is its own; that of its input is held by the server and younger programs only |
| `StillNamed` | a program that ended by itself and was not waited for is still named by a live Client |
| `OwnNumbers` | where no connection is torn down and no body refused, no live Client's socket or output is closed by another |
| `EndsSeen` | inputs and connections that are closed end, in spite of inherited copies |
| `PipesClosed` | where programs read to the end and exit with 0, every pipe is closed in the end |
| `AnswersWhole` | the peer is sent the answers due, whole but for the last |

`Conversation` knows three phases of a connection (receiving, answering,
closed) and the answer being sent. The mapping reads the phase off `life` and
the write knote, and the answer off `_responseStr`. That every step maps to a
step says that an answer is settled before the first byte, never replaced, and
only a settled one is completed. `Relay` knows what was put in and what has come
out; `CgiRelay` maps the body, the output and the response to one each.

## Runs

| Run | Instance | Shows |
|:--|:--|:--|
| `connections` | 2 connections, one with every request, one with pages; batches of 2; CGI programs do anything | `IInv` and the bookkeeping properties |
| `well_behaved` | 2 connections with pages, scripts and chunked POSTs; batches of 2; CGI programs read, answer and exit with 0 | `NoSigPipe`, `NoJunk`, `KnotesFollowRequest`, `KeepsPromise`, `SilentPeerClosed` |
| `request_answered` | 1 connection with every request; batches of 3; CGI programs read to the end, may be silent or fail | `AnswerDue` |
| `config_file` | files of up to 18 tokens by the grammar, 2 servers; and any files whose blocks nest up to 3 deep | `SyntaxInv`, `AcceptedClosed`, `AsDescribed` |
| `same_server_key` | files of up to 16 tokens, directives after locations | `ServerKeysOnce` is violated |
| `header_lines` | every line of up to 8 of 4 kinds of characters | `FieldLine`, `RequestLine`, `LineDone` |
| `routing` | ports of 2 servers, up to 2 locations of 5 that are prefixes of each other, any number of requests | the routing properties |
| `request_stream` | up to 3 requests of 4 kinds, polite peers and others | `AnswersInOrder`, `NeverMixed`, `AllAnswered` |
| `chunked_body` | up to 2 chunks of up to 3 bytes that may look like line ends and sizes, base 2 so that sizes have two digits | `Decoded`, `EndKnown` |
| `cgi_relay` | bodies of up to 3 bytes, outputs with one or two header lines, pipes of 2 bytes | `RelayInv`, `Framed`, `AnswerFromOutput`, `Relayed`, `Settled` |
| `descriptors` | 2 connections; 2 programs and 8 numbers, with and without tear-downs, or 3 programs and 5 numbers | `PipesHeld`, `StillNamed`, `OwnNumbers`, `EndsSeen`, `PipesClosed` |
| `answers` | 2 requests, 2 files (one empty), every configuration of a directory | `AnswersWhole` |

**Bounds.** `Client` bounds how many connections are ever made, `MaxEvent` the
batch (`MAX_EVENT` in the code is 1024). In `EventLoop` each Client serves any
number of requests, and nothing else is unbounded. Handlers change the state of
their own Client, the batch and `loop` only; one connection influences another
through the batch that an early return drops and through the end of the loop.
Two connections with batches of two show both, and the proofs below need no
bound. Batches of three let events of one Client meet in one batch: read or
write, process, and a pipe.

`MaxToken` and `MaxServer` bound a file: 18 tokens are two servers with a
directive each, or one with a location and a repeated, unknown or badly placed
directive; three deep is deeper than accepted files nest. `MaxRequests` (two
are needed to see what one leaves to the next) bounds `Answers`, `Dialogues` and
`Bodies` the streams: a third request meets what the second was refused for, and
a second chunk what the first left. Pipes are smaller than what goes through, so
that a write is cut. `MaxStarts` and `MaxFd` bound `Descriptors`: two programs
of different Clients inherit from each other, a third gets their numbers, four
numbers are what one POST and one socket do not get along with.

`CHECK_DEADLOCK FALSE` in every configuration: the loop may be lost, every
connection closed, a file read, a stream or a script of requests at its end, and
peers may be silent for ever.

**Fairness.** `LoopFairness`: the loop does nothing else than poll and handle,
and `kevent()` returns when a process has exited or a pipe has bytes or ended.
Nothing is assumed of peers. `TimerFairness`: a timer that is armed expires
again and again unless activity puts it off; the property concludes something
only for peers that are silent from some time on. The assumption is strong
fairness because a returned timer event may be dropped with its batch and the
level-triggered knote reports it again. `CgiFairness`, for `AnswerDue` only: a
CGI program goes on reading, writing, and exits in the end. `src/pages/while.py`
does not; `SilentPeerClosed` is checked without that assumption.

The exit of a process is different: `EVFILT_PROC` reports it once, and an early
return of `handleEvent` drops it for good. `CgiRelay` and `RequestStream` have
one connection and stand for one among many, so their exit events may be missed.
In `CgiRelay` the sockets and pipes, which are level-triggered and reported until
they are handled, are weakly fair, and so is the program; the exit event is handled
or missed (`MissExit`), and a Client that missed it is torn down by its timer in
the end, as nothing else happens on its socket. Peers need not send. In
`RequestStream` what was sent arrives, there is room to write, and a program that
has its whole body exits, or the timer closes the connection. In `Descriptors`
the pipes' and sockets' handlers are weakly fair and so are the programs, but not the
handling of an exit; a connection is torn down for certain only when its socket's
number no longer is its own, since then nothing but its timer is left. In
`HeaderLine` the loop of `getToken` goes on, as a loop does. `request_answered` is about
one connection alone, where no return drops an exit but the one that closes the
connection.

## Proofs

**`EventLoopProofs`** proves, for every set of connections, every `MaxEvent`, every
misbehaviour of CGI programs and every mix of requests, `Spec => []IInv`
(theorem `Invariant`), and from it `TypeOK`, `OneDirection`,
`BatchFollowsLife`, `WaitNeverBlocks`, `NoChildBetweenRequests`, `RoutedOnce`,
`AnswerReady` and `FailureNeedsCgi`. The assumptions are the three on the
constants in `EventLoop`.

None of these properties is inductive. `OneDirection` breaks when a handler of a
stale event throws, so one must know which events of a batch can still be there
when their knote is gone (`KnotesConsistent`). `WaitNeverBlocks` needs that a
child's event and its knote exclude each other. `NoChildBetweenRequests` needs
that a child only lives while a request is carried out or an error waits to be
sent (`ChildConsistent`), which needs what `AnswerConsistent` says of a Client
that writes. `FailureNeedsCgi` needs that every handler that can throw with its
read knote gone belongs to a Client with a CGI pipe. `IInv` states these for one
Client as a predicate of its life, fields, knotes, child and events.

The argument goes by Client. `OneClient` says a handler that leaves its own
Client consistent and only removes events preserves `IInv`; `LoopLost` does the
same for a handler that loses the loop; `Updated` and `Raised` are the two ways
a handler ends. Each operator has a lemma under its own name, down to
`HandleStep`, `PollStep` and `ChildStep`.

The second half of **`EventLoopProofs`** proves, for programs without faults and everything else
as above, `Spec => []WInv` and from it `NoSigPipe`, `NoJunk`, `KnotesFollowRequest` and the
refinement `KeepsPromise`. `IInv` is not enough: it allows pipe events that have outlived
their knotes and children of requests that were refused, which is where junk
comes from. `WInv` adds that output not yet read is still in the pipe or the
buffer, and its request still carried out (`OutputRead`); that input is
written only while its child runs (`InputWritten`); that a stale event finds
nothing left to do or the pipes closed (`EventsFit`); that no pipe was made while one
was registered; and that nothing of the
last answer is left when the next request is read (`AnswerWhole`). Every handler is shown at once to keep `WInv`
and to map to a step of `Conversation` or to none (`Kept`), Client by Client:
`OneConversation` reduces the step to what it does to the phase and the answer
of the Client whose handler runs.

**`ConfigProofs`** proves `SyntaxInv` for files of any length, any words and any
nesting. Counting blocks alone is not inductive: `pop` knows whether it closes a
block only from the kind below the brace, so `SyntaxInv` says that every brace
but one that begins the file stands on a keyword (`BracesHaveBlocks`). That needs
the two passes to agree: after `server`, and from `location` to its brace, the
state of the automaton tells what is on top of the stack (`StateFitsTop`). `BlocksCounted`, `BracesOnBlocks` and `NoBlockLeftOpen` follow.
`PassesInStep` shows that `Configuration` implements `ConfigSyntax` (every step
of the four passes is a step of the two, or a stutter), and
`ParserCountsBlocks` carries the results over.

`FilesAsDescribed` proves `AsDescribed` for any keys, values, names, paths and
ports and files of any length, if a server's directives come before its
locations (`~Interleaved`, as in run `config_file`; `same_server_key` shows why).
`AsDescribed` says something of whole files only; `FileInv` says it of every
token: where the grammar is in the last server, the two passes are where they
should be (`SyntaxFits`), `checkSameKey` knows exactly the keys of the block
it is in (`KeysFit`), `setValue` is filling the block and key that were read last
(`FillingFits`) with an object that has all that was said before (`ObjectsFit`), and
the servers before it were handed over, distinct and without a fault (`HandedOver`).
For every production of the grammar there are two cases: a pass refuses the
token, and then what has been described has a fault (so a refusal is deserved),
or none does and `Agrees` goes on. The keys' types need that `listen` is a
directive of servers only (`Configuration.cpp:285` has none for locations), which
`KeyAssumption` says.

**`CgiRelayProofs`** proves `RelayInv` for all bodies, outputs and pipe sizes.
Its three parts are independent but for what they read of each other: `InputInv`
(the program has read and finds in its pipe what `_writeIndex` counts),
`OutputInv` (buffer and pipe are what was written) and `AnswerInv` (`sent` is the
response up to `_sendIndex`, which is short of its end while writing, and 0 where
`send()` found nothing to send). From it
`NoInputLost` (so the unsigned `size() - _writeIndex` never wraps),
`InputClosedAtEnd`, `AnswersFromOutput`, and the three refinements of `Relay`,
together `LosslessRelays`. `AnswersFramed` proves `Framed`: the response is that
of the whole output once its pipe is closed (`Complete`), and in what
`cgiBodySize` and the line put in front make of it, the first empty line is the one the
output had, moved by the length of that line (`LinesFound`, `ResponseFramed`).

**`AnswersProofs`** proves `AnswersWhole` for any files, configurations and number
of requests. Its invariant says that nothing of an answer outlives it (`Fresh`),
and that what was sent and the rest of `_responseStr` are together what is due
(`Accounted`); the error pages and listings are followed down to their cells.

**`DescriptorsProofs`** proves `PipesHeld`, `StillNamed` and `OwnNumbers` for any number of
connections, numbers and starts and every mix of faults. The invariant says
which ends of which pipes the server and each program can have
(`PipesInherited`: of its own start and earlier ones, and `"outW"` with its
program alone once the parent has closed it), what a Client may record of its
program in each turn (`ProgramFits`), and the converse, that a program neither
killed nor waited for is named by a live Client (`ProgramKnown`). `OwnNumbers` needs
`NumbersFit`: where nothing is torn down and no body refused, a Client that
answers with an error has no registered program any more, so that
`closePipeFd` is never called on numbers that were closed before.

**`RequestStreamProofs`** proves `NeverMixed` and `AnswersInOrder` for dialogues
of any length and any cutting of the stream. The invariant `RInv` gives the
place of every request in what is sent (`Layout`), and says that the buffer is a
window of it (`BufferFits`), that the fields are those of the request that
begins there (`FieldsFit`), that answers are of requests before it
(`AnswersFit`), and that with a polite peer the window begins after as many
requests as were answered (`TurnsFit`). The stream is built by the recursion of
`FlattenSeq`; that the recursion has a solution, and where its pieces lie,
goes by the least number for which it fails (`UpTo`), as no induction
theorem of the library can be applied.

**`RoutingProofs`** proves `RoutedByHost`, `LongestPrefix`, `FileInRoot` and
`OnlyAllowed` for paths of any length and any configuration that `Configuration`
accepts. `RoutingInv` says that server, location, file and verdict are functions
of the header just read, but for the host it may not name: that is all that is left of
the requests before. The rest are lemmas about the operators: that
`findLocation`'s loop keeps the longest match, that the paths of a server are
distinct (so that "the" location is one), and that erasing the location and
putting the root in front leaves the names after it (`Joined`, `Trailing`,
`NamesErased`), with `UpTo` for the recursion of `Components`.

**`DecodingProofs`** proves, in its first part, `FieldLine` and `RequestLine` for
lines of any length and any characters. Neither says anything before `getToken`
has ended, so `LineInv` says what the tokens are in every round. Of a field line
(`FieldSeen`): with no delimiter passed, none but the whole line; with one, what
lies before it (unless it begins the line, where the code drops the empty token)
and, in the end, what comes after its colon; with two or more, too many tokens, or a
first one with a space in it, so that the line is refused. Of a request line
(`RequestSeen`): as many tokens as words have begun, and up to three of them, with
single spaces, spell the line as far as it was read. `FieldRound` and
`RequestRound` carry these through a round, `FieldTokens` and `Apart` (two
delimiters share no character) to the end.

Its second part proves `Decoded` and `EndKnown` for any number of chunks, any
lengths and bytes, whatever they look like, any ending and any cutting of the
stream. `ChunkInv` says that the buffer is a prefix of what the peer sends and
that for some `k` the body is the first `k` chunks, `_readIndex` stands behind them
and the next is not all there (`Decodes`); and `EndKnown`, as the flags are kept from one read
to the next. The lemmas go from the peer to the code. `NumberIs`: the digits of a
size, read back, are the size. `LaidIs`, `EndOfIs`, `StreamIs`: where each chunk, its size
and its line ends lie. `FindIs`, `StrtolIs`: what `find` and `strtol` return when only a part
of that has arrived, so that a size that is cut off in its digits is never
taken for a smaller one (`LineRead`, `LastLineRead`). `TurnIs`: one turn of the
loop takes a whole chunk, or stops where a chunk is cut off or broken, or at the
last size, with or without its end.
`ParsedIs`: so do all turns of one call, of which there are no more than bytes.
As for `RequestStream`, the recursive functions are solved by the least number for
which they fail.

**What is proved under which assumption.** The theorems of the second half of
`EventLoopProofs` say `CgiFaults = {} => ...`, which is what run `well_behaved` checks: every
program reads its input, answers and exits with 0. `FileInvariant` and
`FilesAsDescribed` say `~Interleaved => ...`, as run `config_file` does. `NumbersAreOwn` says, as
`OwnNumbers` does, something of worlds without tear-downs and refused bodies
only. All others hold for every value of the constants that satisfies the
module's `ASSUME`s. Those of `ChunkedBody` say that no chunk is empty (it would be
the last), that what follows the size 0 begins with a line end, and that there
are digits for the base (`Hex` up to 16; it is 16 in the code).
The second invariant of `EventLoopInvariant`, `FileInv` and those of
`DescriptorsProofs`, `RequestStreamProofs`, `RoutingProofs` and `DecodingProofs` were
checked with TLC on the instances of the runs before they were proved; they are
not among the runs' properties, as their theorems say more.

Every safety property of a run that passes is proved, on the assumptions above. Model-checked only is every
liveness property (`AnswerDue`, `SilentPeerClosed`, `Settled`, `AllAnswered`,
`LineDone`, `EndsSeen`, `PipesClosed`): fairness and ENABLED are out of the
prover's reach.

## What the model tells about the code

These behaviours were found while modelling; the properties above are stated so
that they hold in spite of them, and where an assumption excludes one it is
named.

Events and children:

* With two connections `AnswerDue` fails: `handleEvent` returns after a clean-up
  (`Operation.cpp:129-141`) and drops the one-shot exit event of another
  client's CGI child, which is then neither reaped nor answered. That is why
  `request_answered` has one connection.
* A CGI that exits with 1 leaves its pipes registered; their later events
  replace the response, contaminate the next one, or raise SIGPIPE. That is why
  `NoJunk` and `NoSigPipe` assume exit status 0.
* A timeout or a failed write while a CGI's exit event has been consumed makes
  `~Client` throw, and the loop goes on with the deleted object.
* `fork()` failing leaves `_pid` at -1, which later code takes for a child; and
  `EV_ADD` of a child that is already gone has the same effect.
* The exit event of a child may be handled before the end of its output is read;
  the connection then turns to writing with nothing to send and is closed
  unanswered (`Client.cpp:95`, the last part of `AnswerFromOutput`).
* While the pipe to a CGI is ready and no body is there to write, the loop polls
  without rest.
* A killed child is never waited for, and stays a zombie.

Requests:

* A chunked GET or DELETE is never answered.
* A refused request whose body has not arrived leaves the body to be read as the
  next request; `clearRequest` drops the bytes of a next request that came early
  (`Request.cpp:172`).
* A request without Host is routed by the `_host` of the one before.
* Locations match by prefix without a path boundary: `/a` serves `/ab`.
* A field line without `": "`, or without a name before it, indexes past the end
  of the tokens (`RequestSetter.cpp:28`); a value with `": "` in it, or two spaces
  together, is refused.
* Chunk extensions end decoding for ever; `client_max_body_size` is looked at with
  the last chunk only.

Answers:

* A 405 closes the connection after the first `send()`, however much it took
  (`Client.cpp:71`).
* An error page that cannot be opened leaves the response as it was
  (`Error.cpp:46`): a close without an answer, or the 200 a DELETE that failed had
  prepared (`Delete.cpp:10`). Answers to DELETE have no Content-Length.

Configuration:

* `checkSameKey` promises "Error: Same Server Key error"
  (`Configuration.cpp:178`), but stays in the state LOCATION when a location
  ends: a server's key after a location is looked up in the wrong table and may be
  given twice. Run `same_server_key` shows such a file.
* A file that begins with `{` is accepted although the brace is never closed, in
  spite of "Token Bracket not pair" (`Configuration.cpp:148`), since blocks are
  counted and not brackets; and for `{ }` `pop()` reads the top of an empty stack.
* `server { key }` passes the test of line 130, and `setValue` then looks for its
  semicolon past the last token (lines 228 and 238).

Descriptors:

* With a tear-down, or a refused body, between the closing of a pipe and the exit
  of its child, `closePipeFd` closes by a number that may be another connection's
  by then: that is why `OwnNumbers` leaves these worlds out.
* A program that exits early or with 1 leaves pipes open whose numbers the next
  start overwrites: that is why `PipesClosed` leaves these out. `pipe()` or
  `fork()` failing half way leaks what was opened before.
* A server without a free number ends at `accept()`.

## Plan

1. Done: `EventLoop`, `Conversation`, its invariant and proofs.
2. Done: `ConfigSyntax`, `Configuration`, `ConfigFile`, with proofs.
3. Done: `HeaderLine`, `Routing`, `RequestStream`, `ChunkedBody`.
4. Done: `CgiRelay` with proofs, `Answers` with proofs, `Descriptors`.
5. Done: the second invariant of `EventLoop`, and the refinement of `Conversation`.
6. Done: proofs about `Descriptors`, `RequestStream` and `Routing`; `Framed`;
   `AsDescribed`.
7. Done: proofs about `HeaderLine` and `ChunkedBody`.
8. Left: `Operation::start`: sockets shared by servers of one port, and the second loop
   that `main()` starts after an exception.

## Not modelled

Reading the configuration file and cutting it into tokens, accessors, dates,
content types, colours and the wording of pages hold no control. Startup
(`socket`, `bind`, `listen`) is the initial state of `EventLoop`. What `main()`
does with a second loop is not followed: no connection is known to it and its
ports are taken. What CGI programs compute is left out; how they read, write and
exit is not. Percent-encoding and the environment variables of a CGI are
strings passed on unread.
