# A TLA+ verification project for kos-ce-extra

The repository is a collection of example solutions for KasperskyOS Community Edition. Each
directory under `examples/` is a solution of its own: a few programs that talk over IPC, an
init description, and a security policy. This project models the solutions that carry
logic of their own (threads, callbacks, retries, asynchronous I/O, process life cycles),
checks them with TLC on small instances, and proves their main safety properties with TLAPS
for every value of the constants.

`PROJECT.json` lists every component, run, property, mutant, theorem and hazard, and maps each
definition to the lines it models. Paths below are relative to `examples/`.

## 1. Inventory

| Solution | State | Operations | Interaction | What is hard | Modelled by |
|---|---|---|---|---|---|
| `c-ares` NameResolver | list of requests, `m_active`, c-ares channel | `Resolve`, `OnResolved`, `ServeRequests`, `Shutdown`, `~Resolver` | IPC from clients, callbacks to clients, a poll thread beside the IPC thread | condition variable, node lifetime, callback on either thread, drain at shutdown | `Resolver`, `LookupService` |
| `c-ares` Client | queue of handlers, callback thread | `Callable::Get`, `AddHandler`, `GetHandler`, `~Callable` | calls the resolver and is called back while the call runs | deadlock between call and callback, joining a waiting thread | `ResolverClient` |
| `c-ares` as a whole | both | | synchronous calls both ways | killed clients, exceptions across IPC | `NameLookup` |
| `errors_via_ipc` | request counters, current server, repeats | `SumRequest`, retries | two clients, two servers, the security policy counts repeats | retry limits, interleaved clients, failing servers | `NumberSummation` |
| `jwt` | sessions, io_context threads, tokens | accept, handshake, read, handle, write, close; `Generate`, `Verify` | completion handlers on several threads, blocking IPC to the token service | handlers after close, released sessions, exhausted threads, lost service | `WebServer` |
| `execution_manager_separated_vfs` | started applications | start, wait for notification, stop | client, ExecutionManager, applications | endless waits, applications that end, attribution of notifications | `ExecutionManager` |
| `wifi/wpa_supplicant_client` | network id, timeout | `Connect`, `Disconnect`, `WaitStatus` | text commands to WpaSupplicant | unchecked results, lost answers, a network that comes and goes | `WifiClient` |
| `cellular/mbim_sms`, `cellular/mbim_ntpd` | modem session, wait counters, the PDU, clock and default route | wait for SIM and registration, encode and send an SMS; set the clock back, connect, wait for Ntpd | calls of the MBIM library; Ntpd sets the same clock | packing of bits, lengths counted twice, timeouts, sessions on failing paths, a clock two programs set | `SmsPdu`, `MbimClient` |
| `uvc_camera_stills` | port, stream, profile, frame buffer, place of the scan | configure, capture, find the end of a JPEG picture, save | calls of the camera library | a buffer that keeps old frames, partial frames, a scan steered by its data | `Camera` |
| `rabbitmq` | connections, the consumer's queue, messages under way | publish; declare, bind, consume, print | two programs and a broker | unconfirmed messages, broken connections, the order of bind and consume, the dump's comparison of rows | `AmqpMessaging`, `HexDump` |
| `nkpp`, `sequence`, `protobuf`, `grpc`, `package_manager_utilities`, `boringssl`, `iperf_wifi`, `abseil`, `cpython` | none beyond a loop counter | straight-line programs | IPC, libraries | nothing to interleave | not modelled (section 7) |

What makes each modelled component correct:

* **Resolver**: every accepted request is answered exactly once, with its own name, on
  whichever thread; no wakeup is lost; nothing is destroyed while it is needed; shutdown drains.
* **Client of the resolver**: it is called back for each name, never waits for a call that
  does not come, and ends.
* **errors_via_ipc**: a request is repeated at the other server only, is denied only when both
  were busy, and its sum is its own.
* **jwt**: one request at a time per session, data only for an issued token, sessions are
  released, browsers are accepted.
* **ExecutionManager client**: applications are started and heard one by one, stopped only
  when all are done, and success means that none is left.
* **Wi-Fi client**: only the configured network is used, the program ends, and success means
  that the network is left for good.
* **Cellular programs**: a network reads the message that was written; "Test passed" is true;
  the session is closed whatever fails.
* **Camera**: a complete frame is saved as it is, the scan stays inside the buffer and ends,
  between the passes nothing stays in use but what the library refuses to release.
* **RabbitMQ**: the consumer prints what its queue receives, in order, without a gap, and
  texts readably; over connections that hold, everything published arrives.

## 2. Plan

1. *(done)* `Resolver` with its abstract specification `LookupService`; proofs.
2. *(done)* `ResolverClient` and the composition `NameLookup`; proofs.
3. *(done)* `NumberSummation`; proofs.
4. *(done)* `WebServer`; proofs.
5. *(done)* `ExecutionManager` and `WifiClient`; proofs.
6. *(done)* `cellular`: `SmsPdu`, checked against a reference reading of the PDU, and
   `MbimClient`; proofs.
7. *(done)* `uvc_camera_stills`: `Camera`; proofs.
8. *(done)* `rabbitmq`: `HexDump` and `AmqpMessaging`; proofs.
9. *(done)* proofs of what loops compute over data: the PDU, the dump, the scan of a picture.
10. *(next)* an abstract specification of the token service that `WebServer` implements, and the
   proof that it does.

## 3. Modules and how they correspond to the code

### `Resolver` (c-ares/resolver/src)

Two threads, `"ipc"` (the event loop that runs `Resolve()`) and `"poll"` (`ServeRequests()`),
each with a label in `pc`. A step ends where the thread unlocks `m_requestsGuard`, enters or leaves
the library, or makes a call, since these are the places where the other thread can come
between. `requests` is `m_requests`, `callbacks` the nodes whose callback was not yet moved
out, `inflight` the queries pending in the channel. `asked`, `rejected`, `answered` and
`misnamed` are history.

| Action | Code |
|---|---|
| `Boot` | `main()` up to the event loop |
| `ResolveEmpty`, `AddRequest` | `Resolve()`, `AddRequest()` up to the unlock |
| `SubmitAsync`, `SubmitSync` | `ares_gethostbyname`, which may call `OnResolved()` at once |
| `AnswerSync`, `AnswerAsync` (`...Throws`) | the rest of `OnResolved()` on either thread |
| `Notify`, `ShutdownNotify` | `notify_one()` |
| `Shutdown`, `Destroy` | `~Resolver()` |
| `HasRequests`, `FillPollDescriptors`, `GetTimeout`, `Poll`, `ProcessFd`, `LeaveLibrary` | the loop of `ServeRequests()` |
| `CompleteQuery`, `SpuriousWakeup` | c-ares and the standard library (external) |

c-ares is assumed to hold the lock of its channel during its calls, to call back each query
once, and to end every query.

### `LookupService`

What the resolver promises: a request is unknown, then refused or accepted, and if accepted
answered once; the service stops only when everything accepted was answered, and fails only if
an unreliable client's callback throws. `Resolver` implements it by the mapping `lookups`,
`condition` (at the end of `Resolver.tla`).

### `ResolverClient` and `NameLookup` (c-ares/client/src/main.cpp, c-ares/common/callable.h)

`ResolverClient` holds the actions of a client's main thread (`Connect`, `Push`, `Get`,
`CallReturns`, `CallThrows`, `Destroy`, `Join`) and of its callback thread (`GetHandler`,
`OnResolve`). It is a component without a specification of its own; what it sees of the
resolver is `owed`, the calls it can still expect. `NameLookup` extends `Resolver` and
instantiates the clients, joins the two ends of each IPC call into one action (`Resolve`,
`Return`, `Callback`, `CallbackThrows`), and adds clients that are killed (`Die`, after which
nothing is left of their threads). A call throws if its callee is gone, and if a name does not fit
it: `Resolver.idl` takes 256 characters, `ResolveCallback.idl` only 128, so that a name can pass
the first and fail on its way back, on either thread of the resolver, while its client lives.
`LongName` are the requests this may happen to; in the run any of the two calls may throw for
them, or none. Its specification is
`LookupSpec`, its variables are `lookupVars`; `Spec` and `vars` are those of the resolver.

### `NumberSummation` (errors_via_ipc)

Clients of both kinds (`client.c`, `client.cpp`), both servers, and the rule of the security
policy that denies a third repeat. The servers' counters are kept modulo 2, which is all the code
looks at. `outcome` and `result` are those of a client's current request, so that a sum left over
from an earlier request, or another client's, would be seen. `ServerExit` stands for every error
that ends a server. `attempts` is history, capped one above `MaxAttempts`. The C server hands one
response structure to every dispatch; the generated dispatcher, which is not in the repository,
is taken to reset it.

### `WebServer` (jwt)

A session is a record: the operations it waits for, its pending shutdowns, the number of
`shared_ptr`s to it that their handlers hold (`refs`), whether `Close()` was called, `m_req`, the
response being written. One completion handler is one action, taken by a free thread; `/gettoken`
and `/getdata` keep their thread blocked until `Generate` or `Verify` answers. Starting an
operation binds `shared_from_this()` into its handler (`Begin`, `Close`), and a handler that has
run gives it up (`Without`); when the count is zero the session and its connection go (`Leave`),
whatever is still pending on them. That nothing is, is `SessionReleased`. Requests are abstracted
to the outcomes of `HandleRequest()`, a token to *none*, *forged*, *issued*, or *overlong*:
longer than the `string<5120>` of `IToken.idl`, so that the call of `Verify()` throws although
the service runs (`Fits`, `CallThrows`). Taken from Boost: the handlers of one strand do not
overlap, a write fails once a shutdown was started, a read may still deliver.

### `ExecutionManager` (execution_manager_separated_vfs)

`main()` of the client as a program counter over `NumApps` applications (two in the code),
the four steps of `WaitForNotification()`, and the applications' way from `running` over
`connecting`, `connected` and `calling` to `alive`. Every external call may fail; an
application may end at any time.

### `WifiClient` (wifi/wpa_supplicant_client)

`main()`, `Connect()`, `Disconnect()` and the loop of `WaitStatus()`; WpaSupplicant is an
external actor that associates, loses and leaves the network. A command may be executed
although its answer is lost.

### `SmsPdu` and `MbimClient` (cellular)

`SmsPdu` holds `AsciiToPDU()` as operators: the octets of each field (`ScaBytes`, `DestBytes`,
`PackText`), the length that the code counts beside them (`PduLen`), and its checks (`Refused`).
`Handed` is what the modem gets: `PduLen` octets of the zeroed buffer, so that a disagreement
between count and content would show. `Read` is the reference, written from the layout of an
SMS-SUBMIT and not from the code; it gives back the service centre, the destination and the text.
It stops at septets: data coding scheme 0 means the GSM alphabet, which agrees with ASCII in
letters, digits and most punctuation, but not in `@`, `$`, `_`, brackets and a few others, and
the code converts none of them. Characters above 127 are outside the model. Bits are arithmetic
(`Bit`, `Number`), and `U8` is the conversion to one octet.

`MbimClient` has both programs, told apart by `program`, since they share their two waits and
differ in what they make of a result. `WaitSimReady`, `WaitRegistered`, `WaitTimeUpdate` are
one round of a loop each; `Abandon` is the close of the session on a failing path. External:
`ModemChanges` (SIM card and registration come and go) and `NtpSync`. The three calls inside
`MbimConnect()` fail or succeed as one, because they leave nothing behind that a later step
reads.

### `Camera` (uvc_camera_stills)

The program counter goes through `main()`, `CaptureCameraSnapshots()`, `ConfigureCamera()` (one
profile per step) and `MakeSnapshots()`, twice. `data` is the frame buffer, byte by byte:
`ReadFrame` overwrites the beginning with a frame or part of one and leaves the rest.
`GetJpegSize()` is one action per case of its `switch`; `outside` collects indices that were
read and are not in the buffer. Any call of the library may fail, also those that release
something: `Disable` is `CameraDisable()`, whose result `MakeSnapshots()` ignores, and `ClosePort`
may leave the port open. `refused` records what the library failed to release. `malloc()` is
taken to succeed. The three `assert`s on sizes are the condition in `SaveYUYV`;
what the conversion computes, and file names, are left out. An even number of pixels and two
bytes per pixel of a YUYV profile are assumed (`CameraAssumption`): the format has four bytes
for two pixels. What an MJPEG camera makes is assumed to be a JPEG picture: `Marked` gives the
layout of the standard (markers, segments with a length, scans), independently of how
`GetJpegSize()` goes through it, and without the two cases the scan cannot read: fill bytes
before a restart marker and 0xff in the header of a scan.

### `HexDump` and `AmqpMessaging` (rabbitmq)

`HexDump` has `AmqpDump()` as an operator from a body to the lines printed: `Printed` is the set
of rows of sixteen that are shown, the others are left out behind dots. `oldchs` is modelled
as the code fills it: `memccpy(oldchs, chs, 16, sizeof(int))` copies one `int` of sixteen.
`Readable` says what a dump is for: each row is shown at its offset, or it repeats the row
before it and a line of dots stands in its place. It does not know of `memccpy()`: it is claimed
for bodies without NULs (`Text`), and would hold of them as well if the code copied all sixteen
columns and hence left out the rows that do repeat. `AmqpMessaging` has one program counter and one
connection per program (`Construct` is one call of a constructor, `SendData` and
`RecvAndPrintData` one turn of their loops, `ClosePublisher` and `CloseConsumer` the
destructors) and, external, the broker (`Exchange`, `Route`, `Deliver`, `Deleted`), a tool on
the host (`HostPublish`) and connections that break (`Break`) and lose an end of what is under
way on them. The end of the publisher does the same to its connection (`EndPublisher`); only the
handshake of `amqp_channel_close()`, which the broker answers after everything before it, keeps
the last messages from being lost (the guard of `ClosePublisher`). What the publisher's texts
say does not matter: `messageBody` is a constant, any sequence of different texts.

## 4. Runs

All bounds are in the cfg files. Every property has a mutant of the code that violates it.

| Run | Instance | Shows |
|---|---|---|
| `resolver` | 4 requests (1 empty name, 2 whose callback may throw), 2 descriptors, names that fail at once | `NoLostAnswer`, `NoLostWakeup`, `TimeoutDefined`, `NodeAlive`; the resolver implements `LookupService`; shutdown completes; every accepted request is answered unless a throwing callback leaks the channel's lock |
| `resolver_misnamed` | *violation* | a lookup that fails inside `ares_gethostbyname` reads the host name from a node the poll thread may have erased |
| `lookup` | 2 clients with a name each, and the resolver: the first name is empty, so that its client hangs, the second may be too long for either call and its client may be killed | calls match handlers, a client that finishes has all its answers, callbacks return, a living client ends unless `Resolve()` throws, even while the other one hangs |
| `lookup_hang` | *violation*, 2 clients | a `Resolve()` call that throws leaves its handler queued; `~Callable()` joins for ever |
| `summation` | 1 client of each kind, 2 pairs of numbers, 2 servers that may fail | limits, attribution, end of every request while the servers run, a client alone gets sums |
| `webserver` | 2 browsers, 1 thread, 10 kinds of request, a service that may stop | sessions, tokens, release of connections, acceptance |
| `webserver_unavailable` | *violation* | an unavailable token service terminates the web server |
| `exec_manager` | 3 applications | attribution, order, success, end of the client |
| `wifi` | timeout 10, as in the code | configured network only, end of the program, network left |
| `camera` | 3 cameras, 2 pictures per pass, 3 JPEG frames cut at every length, 3 kinds of leftover memory, a buffer of 14 bytes | complete frames are saved exactly, no access outside the buffer, nothing left over between the passes and at the end but what the library refused to release, end of the program |
| `cellular` | the limits of the code; 8 numbers as destination and as service centre, 19 texts (all short ones over three characters, lengths 7, 8, 9, 16, 160, 161); waits of 3 rounds | the PDU holds the numbers and the septets that were written, "Test passed" is true, sessions are closed |
| `amqp` | 3 messages, 1 of 7 bodies from the host, 1 break of each connection | printed in order, texts readably; all published messages arrive |

Why the bounds are enough to be interesting: three accepted requests let one be answered on
each thread while a third is added or drained; two descriptors separate "some left" from "none
left" in the loop; two clients and two servers are what `errors_via_ipc` has; with one
io_context thread every blocking call keeps everything else waiting, and a second browser is
there to be kept waiting; a third application is neither first nor last. The JPEG frames hold
an end-of-image pair inside a segment, a restart marker, a stuffed zero and a fill byte; the
second picture finds the first one in the buffer. The texts go through the place where eight
septets fill seven octets. Three messages let one be printed, one be under way and one be
lost; the bodies include every case of the dump. Two pairs of numbers with different sums tell a
client's own sum from any other. In `lookup` one client hangs for good, so that what is shown of
the other one does not rest on both ending; that `ares_gethostbyname()` may also fail at once is
left to the `resolver` run. Data is small where only equality matters (names are the requests
themselves).

Deadlock is checked except in `resolver`, the `lookup` runs and `amqp`: a callback that throws
inside the library can leave its lock held, a client whose `Resolve()` call threw hangs (which
is what `lookup_hang` shows), and a consumer waits for messages for ever. These stops belong to
the code.

### Fairness

Threads and processes that can go on do (weak fairness). Strong fairness is used where the
scheduler or the kernel chooses among several who wait: the caller an event loop or a server
serves next, the completion handler a free io_context thread runs next, the query c-ares
completes next. Not assumed: that a browser sends anything or reads its answer (except after
`Close()`, which sets a timeout of 30 s), that WpaSupplicant ever associates, that the client
of the ExecutionManager is told of an application that ended, that a server does not fail, that
a camera is plugged in, that a modem registers, that Ntpd finds a server, that a connection to
the broker holds. The single-threaded programs (`camera`, `cellular`, `wifi`, `exec_manager`)
have one weak fairness condition, that the thread goes on when a call has returned. In
`NameLookup` there is one condition per thread, and none says that a call has to throw because of
its name: a name in `LongName` may fit after all.

## 5. Findings

* `c-ares/resolver/src/resolver.cpp:37`: the host name is read from a node that may be erased.
* `c-ares/common/callable.h:103`: a refused name makes the client hang before it prints its
  error.
* `jwt/web_server/src/getdatahandler.cpp:60`: an unavailable token service ends the web server
  instead of producing the message that says so.

Observations that contradict no statement of the repository, and are modelled as they are:

* `errors_via_ipc/client_c/src/client.c:150`: a transport error is retried at the same server
  without limit; `RequestEnds` therefore speaks of servers that run.
* `c-ares`: a name of 129 to 256 characters, or a short one whose canonical name is that long, is
  accepted by `Resolve()` and does not fit `OnResolve()`: the call at `resolver.cpp:33` throws. On
  the poll thread this terminates the resolver, and every client it owes an answer waits for ever;
  `GoodClientsEnd` exempts this.
* `jwt`: a token longer than 5120 characters, which Beast's limit on headers lets through, has
  the same effect as an unavailable token service.
* `cellular/mbim_sms`: `main()` tests `ret < 0`, so a positive MBIM status from `WaitSimReady()`
  counts as success; a message the modem refuses still ends with `EXIT_SUCCESS`.
* `cellular/mbim_ntpd`: Ntpd may have put the clock right over another route that existed
  before; `PassedMeansSynced` says no more than that.
* `uvc_camera_stills`: a partial frame may be completed by the tail of an earlier one and saved;
  the exit status is that of closing the port and says nothing of the pictures; a stream that
  `CameraDisable()` did not end is reconfigured all the same; the results of `malloc()` are not
  looked at. A fill byte before a restart marker in entropy-coded data ends
  the scan's inner loop; no frame of the instance has one.
* `rabbitmq`: because of `memccpy()` the dump leaves out exactly the rows of a first byte equal to
  the previous row's and fifteen zeros, and shows repeated text rows. A queue that was bound but
  never consumed stays at the broker. The consumer has no timeout and no heartbeat: it waits
  for ever for a broker that falls silent. A port that is not set, or out of range, terminates
  the program.

Hazards that no property covers, because the code promises nothing there: the handle that
arrives with an empty name is not closed (`c-ares/resolver/src/resolver.cpp:175`), the endless
retry of the C client (`errors_via_ipc/client_c/src/client.c:150`), a browser
that stalls keeps its session (`jwt/web_server/src/webserver.cpp:66`), a `Connect()` that times
out leaves the network enabled (`wifi/wpa_supplicant_client/client/src/main.cpp:123`), rows of a
binary body that the dump hides (`rabbitmq/common/utils/utils.cpp:174`). Some are covered in part,
and their note in `PROJECT.json` says which part: an application that ends before it connects, a
client that fails half-way, a `STATUS` command that fails, partial frames.

## 6. Proofs

| Module | Proved, for every value of the constants |
|---|---|
| `ResolverProofs` | `IInv`, `TypeOK`, `AtMostOnce`, `NoLostAnswer`, `DrainedAtExit`, `NoLostWakeup`, `TimeoutDefined`, `NodeAlive`; `AnswersNameTheirHost` if no lookup fails synchronously; `ImplementsService`. Of the solution: `LookupInv`, that its behaviours are behaviours of the resolver (`Composition`) and of the service, `CallsMatchSteps`, `FinishedMeansAllAnswered` |
| `NumberSummationProofs` | `IInv`, `TypeOK`, `RepeatsGranted`, `DeniedOnlyAfterBothBusy`, `AtMostOncePerServer`, `ResultIsOwnSum`, `RetriesBoundedWhileUp` |
| `WebServerProofs` | `IInv`, `TypeOK`, `OneRequestAtATime`, `AtMostOneLateRequest`, `SessionReleased`, `DataOnlyWithToken` |
| `ExecutionManagerProofs` | `IInv`, `TypeOK`, `NotifiedByTheOneStarted`, `StartedInTurn`, `StoppedAfterWork`, `SuccessMeansStopped` |
| `WifiClientProofs` | `IInv`, `TypeOK`, `OnlyConfiguredNetwork`, `OnlineWhenSeen`, `DisconnectConfirmed` |
| `CameraProofs` | `IInv`, `TypeOK`, `NoBadAccess`, `CleanSwitch`, `SavedIsFrame` |
| `MbimClientProofs` | `IInv`, `TypeOK`, `PassedMeansSynced`, `OnlyWhenRegistered`, `SentAsWritten` |
| `AmqpProofs` | `IInv`, `TypeOK`, `InOrder`, `ShownAsRouted` |

Every invariant that a run checks is proved. The assumptions are the ASSUMEs on the constants
(sets of requests, positive bounds, command lines without repetitions, lengths that fit one
octet, JPEG pictures), which TLC also evaluates. Each proof goes through an inductive invariant:

* **Resolver.** None of the properties is inductive alone. `ListInv` says where a request's
  callback is (pending, or about to be submitted, as long as the node holds it), `AnswerInv`
  that it is answered, held, or taken by exactly one running `OnResolved()`, `ThreadInv` how
  far the two threads can be apart (nothing left in the list when the poll thread exits),
  `DescInv` that the descriptor loop has work. The refinement follows step by step from it.
* **NameLookup.** The equation of `CallsMatchSteps` says nothing of what a client's loop has
  done, so it is not inductive. `ClientInv` speaks of a living client alone: where its two
  threads can be (`PlaceInv`), that the empty handler is last (`QueueInv`), and that as many
  handlers wait as there are names queued and not logged (`CountInv`, the set `Expecting`).
  `AgreeInv` ties the loop to what the resolver has recorded, `CallInv` the two ends of a running
  `Resolve()` call, `OriginInv` requests to clients. A step of one client leaves the others
  alone because no two have a request in common (`OneOwner`), and a client that was killed is
  left out of all of it (`LivingStill`). `Composition` needs the invariant
  too: only then is the name a client passes a request. With it every theorem about the
  resolver holds in the solution.
* **NumberSummation.** `ClientInv` ties a request's repeats to the set of servers that refused
  it and says that the server it talks to has not had it yet; `ServerInv` ties a server's
  response to the numbers of the client it works for. The bound on retries uses a second
  invariant on `attempts` and repeats while both servers are up.
* **WebServer.** `SessionInv` says that at most one operation of a session is pending, that as
  many `shared_ptr`s are held as operations and shutdowns are pending, how many shutdowns go with
  which state of `Close()`, and that one request can be late only once; `TokenInv` that a token a
  request carries was issued before. `SessionReleased` is not inductive by itself: that the count
  reaches zero exactly when nothing is pending needs `SessionInv`.
* **ExecutionManager.** At each point of `main()`: earlier applications were heard and are past
  their notification, later ones do not exist. Hence only the current one can connect.
* **WifiClient.** Up to `SELECT_NETWORK` the network is disabled and not associated; at
  `SELECT_NETWORK` both properties are set.
* **Camera.** That an index is in the buffer follows from the guards of the scan only if the
  buffer is as long as `dataSize` (`BufferInv`), that the asserts hold only if `dataSize` comes
  from a YUYV profile (`ProfileInv`); `PortInv` says what is open when, and that it is in use or
  was refused. `SavedIsFrame` needs `FrameInv`: if the frame in the buffer is complete, the scan
  is at the first or second byte of one of its markers, or in entropy-coded data before the
  marker that ends it. So it never looks at what lies behind the frame, and ends where the
  picture does.
* **MbimClient.** `StageInv` says what a program has seen and opened at each label, `ClockInv`
  that the clock shows 2011 as long as the program was the last to set it. A right clock at the
  end was therefore set by Ntpd, afterwards. `SentAsWritten` rests on `PduInv` (what was sent is
  `Handed` of the message) and on lemmas about `SmsPdu`: a septet's bits are found again behind
  the packing (`UnpackPack`), digits behind the nibbles (`Nibbles`), each field of the PDU at its
  place (`Layout`), the service centre's number up to its filler (`ScaRead`), and the length
  counted beside them is the length written.
* **AmqpMessaging.** `FlowInv` says that what was routed is printed, under way or queued, in
  this order, and that only an end of it can be missing; `QueueInv` that nothing was
  routed before the bind and nothing is under way before the queue is consumed. `Dumped` says
  that what is shown is the dump of the body; that the dump of a text is readable is a lemma about
  `HexDump` (`TextReadable`): `oldchs` has zeros in fifteen columns, so a row without NULs is
  never taken for a repeated one.

Induction over numbers, where a lemma needs it, is the choice of a least counterexample
(`WFMin` with `NatLessThanWellFounded`), which needs no operator as a parameter.

Only model-checked: the liveness properties (`ShutdownCompletes`, `AnswersUnlessLeaked`,
`GoodClientsEnd`, `CallbackReturns`, `RequestEnds`, `AloneGetsSums`, `ConnectionAccepted`,
`ClosedIsReleased`, `ClientEnds`, `AliveIsStopped`, `ProgramEnds`, `NetworkLeft`, `CameraEnds`,
`SessionEnds`, `PublishedArrive`): fairness and ENABLED are outside the prover.

## 7. Not modelled

Kernel handles and memory, the contents of files and messages (other than PDUs, frames and
dumped bodies), formatting and logs, Boost,
c-ares, libjwt, the ExecutionManager component, WpaSupplicant and generated IPC code beyond
what is stated above. Security policies and init descriptions are declarative; the one rule
with state (the repeat limit of `errors_via_ipc`) is part of `NumberSummation`. The straight-line
examples have no state to interleave:

* `nkpp`: the server's objects keep constant names; the methods are table lookups whose exceptions
  become error codes.
* `sequence`: a writer sends all lengths in turn for ever, the policy refuses the long ones, a
  reader prints.
* `protobuf`, `grpc`: generated code around one message or one repeated synchronous call.
* `package_manager_utilities`: a launcher that makes one call after another and returns at the
  first failure.
* `boringssl`, `abseil`, `cpython`, `iperf_wifi`: calls of a library, one after the other.
