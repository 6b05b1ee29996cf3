# fossil-network in TLA+

A verification development of fossil-network, a C library (with C++ wrappers)
of sockets, TCP/UDP clients and servers, and a small HTTP client.  It holds TLA+
modules of the library's control, TLC configurations that check them on small
instances, and TLAPS proofs for every value of the constants.  Line numbers are
of the sources under `code/`.

    tlc -workers 4 -config ClientServer.cfg MCClientServer
    tlapm ClientServerProofs.tla

## 1. The system

Everything is a plain C structure that the caller shares with the library.
Nothing is locked, nothing is persistent, and the library starts no thread: what
makes it hard is that structures refer to descriptors of the process by number,
that several calls change kernel state in more than one step, and that the HTTP
exchange assumes much about how bytes arrive.

| Component | State | Operations | Talks to |
|---|---|---|---|
| Socket layer, `socket.c` 107-303 | `fossil_net_socket_t`: handle, blocking, type, family; the process's descriptor table | create, close, set_blocking, set_reuseaddr, bind, listen, accept, connect, send, receive | the kernel, `errno` |
| Poll set, `socket.c` 619-687 | the caller's array and count | poll, poll_add, poll_remove, poll_clear | `select`, socket structures |
| Addresses, name resolution and MAC addresses, `socket.c` 308-617 | `fossil_net_address_t`, `fossil_net_mac_t`; the copies that clients and servers keep | address_parse, to_string, resolve, local and peer address, mac_get, mac_parse, mac_equal | resolver, kernel |
| Client object, `client.c` | its socket, `connected`, `last_error`, `local_addr`, `remote_addr` | create, destroy, connect, disconnect, send, receive, set_blocking, addresses, error_last | socket layer |
| Server object, `server.c` | its socket, `addr` | create, destroy, listen, accept, set_blocking, get_address | socket layer |
| C++ classes `Client` and `Server`, `client.h`, `server.h` | the pointer to the C object | constructors, destructor, moves, methods | client and server objects |
| C++ classes `Socket` and `Request`, `socket.h`, `request.h` | the C structure itself | constructor, destructor, methods that forward | the C functions |
| Request builder, `request.c` 93-165, 251-387 | method, url, up to 32 headers, body pointer, content type | init, set_header, set_body, free, build | URL parser |
| URL parser, `request.c` 196-249 | none | url_parse | - |
| HTTP exchange, `request.c` 393-478 | the response structure; a send and a receive buffer on the stack | request_send, response parse, get_header, response_free | socket layer's send and receive |
| Sleep, error strings, host name | none | one call each | the system |
| Start-up and shutdown | none on POSIX | socket_init, socket_shutdown | Winsock |
| Tests, build, CI | - | - | - |

What makes each of them correct:

* Socket layer: a structure works only on the descriptor that was made for it,
  however often it is closed; no descriptor is lost; a failing call leaves
  nothing half made.
* Poll set: it is a set of registered structures that fits the caller's array, as long
  as none is registered twice; poll counts the entries that are ready and watches nobody
  else's descriptor, although the structures in it are closed and created anew meanwhile.
* Addresses: what bind and connect use and what is printed are the same address, the
  one that the latest call was told, in structures that are reused and copied.
* Client and server objects: they are a well-behaved user of the socket layer;
  every failing path of create closes what it opened; the addresses, modes and
  errors they record are those of the descriptor.
* C++ classes: every C object has one owner, and is destroyed once.
* accept: it changes the mode of the listening socket and puts it back; the mode
  is the caller's again after every call; accept does not wait.
* Request builder: one Host and one Connection line, keys are unique, what does
  not fit is refused and not sent in part.
* URL parser: taking a URL apart undoes putting it together.
* HTTP exchange: a call that succeeds returns the response to its own request,
  the whole of it and nothing else.

Hard behaviours, at their lines, are the `hazards` of PROJECT.json.  In short:

* stale handles: a structure that was closed still names a descriptor (0), and a poll
  set looks handles up only when it polls;
* non-atomic status flags: accept reads, changes and restores them in three system
  calls on a descriptor that threads share;
* results that come late: a non-blocking connect is reported by a later call, and a
  response can arrive after the call that asked for it has failed;
* partial results: one send, one receive, neither of which need be whole, and a
  receive buffer that is parsed as a string although it was never terminated;
* failing paths: bind fails after the socket was made, also inside a constructor; the
  descriptor table, the poll set or the header list is full; the request does not fit;
* two copies of one thing: the text and the binary form of an address, the mode in the
  structure and on the descriptor, an address recorded and the one the kernel has.

## 2. Modules

| Module | What it is |
|---|---|
| `Sockets` | the socket layer over one descriptor table: one action per function of `socket.c` 107-303, and any program over them (`SocketSpec`) |
| `PollRegistry` | abstract: a poll set is a set of registered structures with limited room |
| `PollSet` | the poll set over `Sockets`; implements `PollRegistry` while no structure is in it twice |
| `ClientServer` | the client and server objects over `Sockets`, with the structures of the program that accept fills in; implements `Sockets` |
| `Owners` | the C++ classes `Client` and `Server` over `ClientServer`; implements it |
| `AddressStructs` | address and MAC structures and every call that fills, copies, uses or prints one |
| `Listener` | abstract: a listening socket whose accept and set_blocking are atomic |
| `AcceptFlags` | accept and set_blocking of a shared socket, one action per system call, POSIX and Windows; implements `Listener` |
| `Url` | `fossil__url_parse` with its buffers and `atoi`, the Host line and the request target, as operators |
| `HeaderMap` | abstract: set_header as a map with limited room |
| `Request` | the header list, the body and the lines of a request; implements `HeaderMap` |
| `Exchange` | request_send, the response parser and response_free, over `Request`, with a server and a network |
| `SocketsProofs`, `PollSetProofs`, `ClientServerProofs`, `OwnersProofs`, `AddressProofs`, `AcceptFlagsProofs`, `RequestProofs`, `ExchangeProofs` | theorems and proofs |
| `MC...` | the instances TLC checks |

`PollSet` and `ClientServer` EXTEND `Sockets`, so their actions contain those of the
socket layer; `Owners` EXTENDS `ClientServer`; `Exchange` EXTENDS `Request`, which EXTENDS
`Url`.  A definition named "Mutant" is a plausible mistake in the definition that follows
it; a run's properties are known to tell the two apart.

### Sockets

`sock[s]` holds the two fields that other functions read back, `handle` and
`blocking`.  `fdt` is the process's descriptor table: descriptors `0..MaxFd`, 0
being standard input at the start.  Every operation takes the value the C
function returns as its last parameter, so the layers above compose it with what
they do on success and on failure.  A call is atomic here, because on the shared
table it makes at most one change; the exception, accept and its status flags,
is what AcceptFlags is about.

The point that deserves a model: `close` ignores the result of `close(2)` and
stores `NULL` in the handle (socket.c:147-149), and NULL converted back is
descriptor 0.  A closed structure is therefore a live reference to descriptor 0,
which may belong to nobody, to the process, or to another structure: `socket()`
returns the lowest free number.  `HandlesOwned`, `NoLeak` and `ReleasedByOwner`
say exactly what survives this: above 0 nothing is ever confused.  At 0 it is:
`CloseReleasesOwn` is violated by a client that is disconnected and destroyed,
as `test_client.c` does.

`SocketSend` and `SocketReceive` keep of the data only whether a call may succeed (a
failure is always possible); what arrives is `Exchange`'s.  `SocketZero` is the C++
constructor `Socket()`, or the initialiser of a C program.

What of the kernel is modelled, all from how `socket.c` uses it: lowest free
descriptor, a full table, EADDRINUSE and binding to port 0, autobind in listen,
the backlog, blocking and non-blocking connect with its later report.  What is
abstracted: one host address; no TIME_WAIT; families do not mix (an ipv6 socket
takes no ipv4 peer); error codes are 0 and 1; ephemeral ports of clients are
outside `Ports`; raw sockets of protocol 0 are refused, as on Linux.

A program over the functions keeps one discipline: it does not create or accept
into a structure that still holds a descriptor (the library cannot know).

### PollSet and PollRegistry

`entries` is the caller's array up to the count: a sequence of structures, because the
set holds pointers.  All of `SocketNext` goes on around it, so a structure in the set
is closed, created anew or accepted into while it is there, and `Poll` looks up the handle it
has then.  `Room` is the caller's `max`.  A handle of -1, which a failed create leaves,
is passed to `FD_SET`: `StrayBit` is the bit that sets on a 64-bit build.  `Nfds` is
the highest handle plus one, so a stray bit beyond it is not looked at.  `Readable` is
what select says of a descriptor for which the model knows, and either answer for the
others; `SelectReturns` fails if one of those it watches is not open, and `SelectFails`
(a signal) is always possible; a timeout is an empty answer.
`polled` is history: what a poll returned, until the next call.

`MaxFd < 1024` is an assumption: `FD_SET` of a larger descriptor writes outside the
`fd_set`, and the code does not look.

`PollCounts` is about sets whose entries are open sockets of their own, each registered
once (`Sound`): a closed entry is polled as descriptor 0, and the entry of a failed create
sets a stray bit, so what poll counts with those in the set has no meaning to compare.
`WatchesOwn` holds of any set without a -1, also after closes:
a handle above 0 in the set is never an old number that the kernel has since given to
another socket.  `PollRegistry` is what socket.h says of add, remove and clear: which
structures are monitored, and how much room is left.  `ImplementsRegistry` maps the array
to the set of its elements, for every step of a set in which nothing is registered
twice (`Once`) but the adding of what is there already (`AddsAgain`); it says that the first-match search and the shift of the array lose,
double and add nothing.  A structure that was added twice is still monitored after
one `poll_remove`, which "Unregisters a socket from being monitored" (socket.h:443);
nothing says whether adding it twice is allowed, and nothing is claimed of such a set.

### ClientServer

A client or server is named by its socket structure: `sock[c]` is `c->sock`.
`client[c]` has the fields that outlive a call.  `server[v].stage` is how far
`server_create` has come: it makes a socket (`ServerCreate`), binds it
(`ServerCreateBind`) and, if that fails, closes it again (`ServerCreateFail`); other
threads run between these.  `ClientSend` and `ClientReceive` fail on a client that is
not connected and record an error otherwise.

`RetrySame` is an assumption on callers: a non-blocking connect that has not been
reported is retried with its own address.  The kernel ignores the address of such
a retry and `client_connect` records it, so with `RetrySame = FALSE` TLC finds
`RemoteMatchesKernel` violated; the run `client_server` shows that it holds otherwise, and
the theorem `RemoteRecorded` assumes it.

`ImplementsSockets` is the refinement: every step of the objects is a step of
`SocketSpec` or leaves the socket layer alone.

`fossil_net_server_get_address` returns what create was told; server.h:95 and 173 call
that the address the server is bound to.  `NamedPortBound` is that promise for servers
that were told a port.  For the others it is broken: `ServerAddressIsBound`, the promise
without the condition, is violated by a server created with port 0, which is bound to a
port that the system chose and reports 0.

### Owners

`handle[x]` is the pointer in C++ object `x`: a C object, nullptr, or `Gone` before
construction and after destruction.  A Server's constructor is not one step: it runs
`fossil_net_server_create`, whose three steps other threads interleave with, and `making[y]` is
the C object that exists meanwhile and that nothing but the constructor names.  Move
construction and assignment, destruction and methods on a nullptr are as in the
headers; copying is deleted there.  `OneOwner` relates the pointers to the live
objects in both directions, so it fails for a double destroy, a dangling pointer and
a leak alike; `NothingLeft` carries this down to the descriptors.  The refinement
`ImplementsLayers` (the classes are a program over `client.c` and `server.c`) is a theorem.

### AddressStructs

An address structure has two texts: bind and connect read `ip`, `address_to_string`
prefers `addr`, and each of parse, resolve, accept, the two read-back calls and
`server_create` without an address fills other ones of the two.  `addrs` holds
structures of callers and the records in clients and servers, which `Copy` moves
around.  `meant` is history: the address the latest call was told, `{}` if it failed.
`ConnectsAsTold` says that bind and connect take a structure for that;
`PrintsWhatConnects` that what is printed is the same address, by the functions
`Texts` (what `inet_pton` accepts), `Num` (what it makes of it) and `Canon` (what
`inet_ntop` writes).  `GetLocalAddress` and `GetPeerAddress` are told an address by the
kernel, and `OtherFamily` is either of them on a descriptor that is not of a known family.
A caller changes no field but the port, since resolve knows none.

MAC structures hold bytes and text; `Scan` is what `sscanf` reads of a text and `Hex`
what is written back, in capitals.

### AcceptFlags and Listener

`pc[t]` is where thread t is in accept (getfl, setfl, accept, waiting, restore)
or set_blocking (setmode, setfield); the locals `flags` and `mode` are per thread.
With `Windows` the mode is restored from `server->blocking` rather than from saved
flags.  The system call accept may fail at any time for lack of a descriptor (EMFILE),
which leaves the queue as it is, in `Listener` as well.  `Serialised` says that callers let no two calls on the socket overlap; the
library takes no lock of its own.  `KeepsPromise` maps this to `Listener`: the
abstract mode is the one accept has put aside while it runs, and set_blocking
takes effect when it writes the descriptor.

### Url, Request and HeaderMap

A text is a sequence of tokens: "/", ":", and words (`Words`, any string that is neither),
so that the "://" that `strstr` looks for is three of them.  `UrlMax`, `SchemeMax` and
`HostMax` are what `url[512]`, `scheme[16]` and `host[256]` have room for, in tokens; a text
that is longer is cut between two of them (`Cut`), in `init` as well as in the parser.
`Atoi` is what `atoi` reads of the words that begin with a number (others give 0), and
`Uint16` what is left of that in the port.  `written` is history: the URL that `init` was
called with, in its parts; `url` is the text that the structure keeps of it.
`UrlsAssumption` says what a written URL is: scheme, host and port are words, and a path
begins with its "/" and holds whatever it likes.
`UrlTakenApart` relates the two for the URLs that fit (`Fits`): what is kept is taken apart
into scheme, host and path as they were written, and into the port if it is the text of a
number of 16 bits.  `Fits` also excludes a "://" in a URL that has no scheme, which the
parser takes for the end of one.  URLs that do not fit are cut in the model and are no
part of the claim.

Names and values of headers are members of small sets;
`Stored` says what is left of a name that does not fit 64 bytes.  A line is one unit
of the 8192-byte buffer.  `Lines` is what `fossil__http_build_request` writes between
the request line and the empty line, `Builds` whether it all fits.  The checks of
build are all of the form "what was written so far leaves room", so one check of the
whole text stands for them.  `latest` is history, for `HeaderMap`.

`ImplementsMap` holds for the names in `Short`: a longer name is stored cut, is not
found when it is set again, and takes room each time.

### Exchange

A call of request_send is two steps, `RequestSend` (build and send) and `Receive`
(receive and parse), because the server and the network run in between.  `up` holds
the requests on their way, `down` the tokens of responses.  The parser is a set of
outcomes over the string in `recv_buf` (`Parse`): `Stops` is where the header loop
ends, `HeaderLines` where the lines it reads begin, `Gaps` where `strstr` finds an empty
line from there on.  What was received is
not terminated, so the string goes on with what an earlier call left in the buffer,
or ends there: both are outcomes of reading an uninitialised array.  An array that is
full holds no NUL at all, and the string goes on with what lies behind it, any member of
`Strays`; the parser reads there, as the code does (request.c:408).  Reading on from
a NULL pointer ends the process (`Die`), and so does SIGPIPE.

`clean` is a history variable: nothing has gone wrong on this connection so far
(every call found it open, sent its request whole and received exactly one response).
`OwnResponse` holds then; `RightResponse`, which drops the condition, is violated.
The default `Connection: close` makes a polite server close after the first
response, so that reusing the connection is the plainest way out of `clean`.

`CallsReturn` says when a call may wait for ever: `recv` has no time-out, so a call behind
a request of which only a part was sent (the count that `send` returns is ignored,
request.c:467) waits until the server closes, which nothing makes it do.  In every other
state a call returns if the server answers what it has.

The caller frees the body of a response before it passes the structure to the next
call, since the parser zeroes it.

## 3. Runs

| Run | Instance | Distinct states | Shows |
|---|---|---|---|
| `sockets` | `MCPollSet`: 2 structures, descriptors 0..2, 1 port, backlog 1, a set with room for 2 | 254 thousand | no structure works on another's descriptor above 0, none is lost, only the owner releases one; a set without repetitions is a set of registrations, poll counts what is ready and watches nobody else's |
| `client_server` | 1 client, 1 server, 1 further structure, both families, descriptors 0..2, 1 port and port 0 | 291 thousand | no failing create leaks, modes and recorded addresses are the kernel's, the layers refine the socket layer |
| `owners` | 2 Clients over 2 client structures, 1 Server over 1, descriptors 0..2 | 435 thousand | one owner for each object, no descriptor is left when the objects are gone |
| `address_structures` | 1 structure of a caller, a client's and a server's record, 2 binary addresses, a second text for one of them, 2 names, 2 ports, 2 MAC structures | 99 thousand | texts and structures agree through reuse and copies, MACs are equal when they print alike |
| `accept` | 2 threads, backlog 2, both modes, serialised, POSIX | 3 thousand | the mode is restored, accept never waits, every call returns, refinement of Listener |
| `request` | 5 names, one too long, 2 values, 2 headers, 32 URLs, some cut, some with a port that is no number or more than 16 bits | 45 thousand | refinement of HeaderMap, one Host and one Connection line, URLs that fit |
| `exchange` | 2 calls, both modes, 2 numbers of headers, 4 bodies, a buffer of 8 tokens, 3 strings behind it | 414 thousand | a clean call has its own response, a call returns unless a request was sent in part, bodies are owned |
| `close_twice` | violation | | closing twice releases descriptor 0 |
| `server_port` | violation | | a server whose port is left to the system reports port 0 |
| `accept_overlap` | violation | | two overlapping accepts leave the descriptor non-blocking for good |
| `body_lost` | violation | | the body of a response that arrived whole is not found |
| `wrong_response` | violation | | a call succeeds with the response to an earlier request |

Why the bounds are enough.  A confusion of descriptors needs a closed structure, a
reused number and a second structure, and three descriptors make the table run
full.  A poll set of two holds two structures, or one twice, and can be full.  Two families,
a port and port 0 let an address be right or wrong.  Two Clients are a source and a
target of a move, each with an object of its own, and a Server next to them shares the
table, so that its constructor fails at socket and at bind.  One structure of a caller and two records are
enough for an address to be copied out, changed and copied back; two texts of one
address tell the text from the number.  Two threads give every overlap of two accepts.
Two headers make the list of `request` run full after a name was set, and the five
names are the two the builder looks for, an ordinary one, a long one and the one it is
cut to.  Two calls are a request and one that comes after it; the largest response has
more headers than the structure and more tokens than the buffer, so that a response
can be split at any token.  The proofs do without these bounds.

Symmetry is used in `sockets` (the structures), `owners` (the client structures and
the Clients) and `client_server` (the families), where they are interchangeable and no
liveness is checked.  Deadlock is checked except in the runs of `Exchange`, where the
process may have died.

Fairness.  `AcceptFlags`: weak fairness on the next step of a call that has begun (a
thread that runs is scheduled); none on the arrival of a client, which need not
happen.  `Exchange`: weak fairness on the receive of a call (when it can return it
does) and on the server's answer to a request it has whole; none on any call, nor on
the server's closing: nothing in the code makes it give up on a request it has in part.

## 4. Proofs

TLAPS proves, for every value of the constants that the assumptions of the modules
allow:

* `SocketsProofs`.  `TypeOK /\ HandlesOwned /\ NoLeak` is inductive for
  `SocketSpec` (`SocketInvariant`).  Each part needs the others: accept and create write
  a handle, and that the old one is not lost follows from `NoLeak` and the callers'
  discipline; that the new descriptor is nobody else's follows from `HandlesOwned`.
  `Released` is the action property from the same invariant.
* `PollSetProofs`.  The same invariant and the type of the set (`PollInv`).  From it
  `PollWatchesOwn`: a handle above 0 is its structure's own.  `PollCountsReady`
  bounds what poll returns on both sides by injections between entries and ready
  descriptors; that select is told of every entry needs a highest handle, from the
  well-foundedness of the naturals (`LeastNatural`, `AllWatched`).  `SetIsRegistry` is the
  refinement of `PollRegistry`, for arrays of any length:
  `RemoveFirstShifts` says which cell each entry is in after the shift, and
  `RangeAppended` and `RangeRemoved` what that makes of the set of the entries.  `PollProgramsOwn`: what holds of descriptors without a poll
  set holds with one.
* `ClientServerProofs`.  `Implements` is the refinement of `SocketSpec`, step by step, from
  `CSInvariant`, which adds the types of the objects and `NoOrphan` (a client that
  is created has no descriptor yet, which is the socket layer's discipline).
  `CSOwnHandles` then brings the theorems of the socket layer over.  `CSTypes`,
  `ModesAgree`, `ServersBound` (`NamedPortBound`) and `RemoteRecorded` come from a second invariant,
  `Records`: what each object says of its descriptor.  It is inductive because an
  operation on one structure changes no descriptor of another in the fields a record is
  about, which the lemmas `CreateOnly` ... `ConnectDoneOnly` show of each operation; a
  handle of 0 is the exception that `Records` is silent about.  `RemoteRecorded`
  assumes `RetrySame`.
* `OwnersProofs`.  `ClassesUseLayers`: every step of the classes is a step of
  `ClientServer` or leaves it alone, so that its theorems hold of them.  `Owned` says which
  C object each pointer and each constructor has; with `CSInv` it gives `Ownership`,
  `OwnersTypes` and, through `NoOrphan`, `AllReturned`.  `ClassesOwnDescriptors` and
  `ClassesRecordRemote` bring the theorems of the layers below up to the objects.
* `AddressProofs`.  `Sane` relates a structure to what it is meant to be: the field that
  bind reads, the field that is printed, and the family; every call that fills a structure
  establishes it and every copy keeps it.  `UsedAsTold` and `PrintedAsUsed` follow; MAC
  structures are simpler (`MacsPrintAlike`).
* `AcceptFlagsProofs`.  Under `Serialised`, at most one thread is in a call
  (`OneCall`), and the descriptor's mode agrees with the field as far as that call has
  come (`Agree`).  From it `FlagsRestored`, `AcceptNeverWaits` and the refinement
  `Atomic`, on both platforms; `OneMode` shows the abstract mode is well defined.
  `WindowsRestores` does without `Serialised`: on Windows any number of accepts may
  overlap, also while one of them waits, as long as nobody calls set_blocking.
* `RequestProofs`.  `RequestTypes` bounds the header list.  `HeadersAreMap` is the
  refinement of `HeaderMap` for the names stored whole; its argument is that the value of a
  name is that of its first match, and that a replaced or appended entry changes no
  other name's first match.  `HeadersSentOnce` needs more: `KeyedOnce`, that such a name
  occurs once in the list, and a lemma that counts in the concatenated lines (`Joined`).
  `UrlsTakenApart` is for URLs of any words, buffers of any width and any reading of
  `atoi`: the first of a separator in a concatenation is where the part that lacks it ends
  (`AtJoined`, `CutAt`, and `MarkAt` for the three tokens of "://"), which is applied to
  "://", to the "/" of the path and to the ":" of the port, in the order in which the
  parser looks for them; that the path is cut off before the port is looked for is what
  makes a ":" in the path harmless.  Of the cuts, `Fits` says that none is made at `init`,
  and the proof shows that none is made on the way; `Narrowed` is the port of 16 bits.
* `ExchangeProofs`.  `BodyIsOwned` needs `FreedFirst`, that the response
  holds no body while a call is receiving: the parser overwrites the pointer, and a
  body of the call before would be lost.  `ParseKeeps` goes through the parser's
  returns, the failing ones included.  `ExchangeTypes` shows the parser total where it
  is called, also on a string that goes on behind a full array: the k-th header line exists
  (`NthExists`), and no header is stored beyond the limit.  It says nothing of where the
  parser reads: that is outside `recv_buf` when the array is full.  `ResponseIsOwn` rests on `OneAtATime`: as long as the connection is clean
  there is nothing on it, or the request of the call, or the whole response to it.
  `ReadsResponse` then reads a whole response with the parser's own operators whatever
  stale data lies behind it, and `BodyEnd` shows that a body, if one is found, is an end of
  the one that was sent.

The assumptions are the named ones of the modules: `SocketsAssumption`,
`PollSetAssumption`, `ClientServerAssumption`, `OwnersAssumption`, `AddressAssumption`,
`MacAssumption`, `AcceptFlagsAssumption`, `RequestAssumption`, `UrlAssumption`,
`UrlsAssumption` and `ExchangeAssumption`.  No theorem assumes that the sets of structures, objects, threads or
names are finite.

Every invariant, refinement and action property that a passing run checks is stated by a
theorem.  Only model-checked are the two liveness properties, `CallsReturn` of
`AcceptFlags` and of `Exchange`: liveness under fairness is out of the prover's reach.

## 5. Not modelled

* `set_reuseaddr`: it only widens what a later bind accepts, in ways that differ between
  systems.
* Copies of a C++ `Socket`: two objects then own one number, and no property of this
  project has a meaning for them.
* Sleep, error strings, host name, start-up and shutdown: no state.
  (`fossil_net_socket_sleep` calls `sleep(ms*1000)` on POSIX, which takes seconds.)
* Buffers of callers that are too small for `address_to_string`; the wording of texts.
* The contents of bodies, the names of methods and content types, `get_header` (a
  search that changes nothing), header values that are empty, bodies of nearly 4 GiB,
  descriptors of 1024 or more in a poll set: the hazards at these lines say what the code
  does.
* `local_addr` of a client, which nothing reads.
* Tests, build and CI.

## 6. Plan

What is left, in order of weight:

1. Copies of a `Socket`: `HandlesOwned` restated over sets of structures that share a
   descriptor.
2. `set_reuseaddr` in `Sockets`, with the bind rules of one system.
