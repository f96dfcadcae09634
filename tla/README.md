# Formal model of the AgilityContest serial chronometer

TLA+ models, model-checking configurations and machine-checked proofs for the
program in this repository: a hub that joins an electronic chronometer, a
console, a web interface, a QR code reader and the AgilityContest server of a
dog agility contest. `src/` below stands for the repository's `src/` directory.

## The system

One process. `main()` starts up to five *manager* threads, each in a slot of
`sc_threads[]`, binds a UDP socket and serves commands one at a time. A manager
turns what its user or device says into a datagram `source command [argument]`,
sends it to that socket and blocks in `recv()` until it is answered. The main
thread applies the command to the shared status (`config->status`) with the
handler of `main_mgr.c`, then calls, in slot order, the handler that each
manager published for the command, and answers `OK` or an error.

| component | state | operations | correct when |
|---|---|---|---|
| main loop, `main.c` | slots, socket, request in hands, loop flag | create threads, bind, receive, dispatch, fan out, answer, end | every waiting manager is answered, once; commands reach every active manager, in order; it ends on exit and only then |
| main controller, `main_mgr.c` | `config->status` | one handler per command | counters are what the commands say |
| console, `console_mgr.c` | line buffer | read a line, send, print; handlers that print | every line gets its answer, end of input ends the program |
| serial and network chronometer, `serial_mgr.c`, `net_mgr.c` | entry points of a loaded module | load, open, poll the device; handlers that write to it | no handler runs before the module is there |
| web manager, `web_mgr.c` | input and output queues | poll the input queue, expire the output queue; handlers that queue messages for pages | every page shows the commands in order |
| queues, `sc_tools.c` | a linked list per queue, no lock | put, get, pick, size, expire | first in, first out; nothing lost, duplicated or used after free |
| web server, `web_server.c` | none; a thread per connection | readData, writeData, files | readData answers with the next message |
| browser page, `html/` | `lastID`; a chronometer, two countdowns, their timers | poll every 500 ms, parse, send commands; start, stop, count down | every command is shown once; the clock shows what the last command says |
| AgilityContest client, `ajax_mgr.c`, `ajax_json.c`, `ajax_curl.c` | session, event id; writes the status directly | connect, open session, wait for events, put events | program and server agree on faults, refusals, elimination |
| QR reader, `qrcode_mgr.c` | serial port | read a dorsal, send TURN | |
| canometro module, `modules/canometroweb.c` | last poll, a semaphore | poll, write, synchronise marks, over HTTP | one user of the device at a time; device and status agree; no call blocks for ever |
| digican module, `modules/digican.c` | serial port, counts of what it sent | read a line, write steps | the panel shows the marks of the status |
| generic and dummy modules | serial port | read and write lines | not modelled |
| license, ini file, options, log, sockets | | pure input and output | not modelled |

Components interact through the UDP socket (commands and answers), direct calls
of the main thread into handlers of the managers (fan-out), the shared status,
the two queues of the web interface, and HTTP (pages, AgilityContest server).

Hard behaviour: threads that start, fail and end while commands are dispatched;
handlers that fail half way through a fan-out; queues without locks; pages that
lose answers, arrive late or outlive their messages; a server whose events
arrive in batches while the same counters change locally; a device polled by one
thread and written to by another, with a toggle and relative steps as its only
commands; timers of the page that outlive the command that set them; a slow
device or server that holds up the main loop. `PROJECT.json` lists the hazards with
their source lines and the properties that guard against them; lesser ones are
told under "Not modelled, and why".

## Modules

**ChronoStatus** (pure operators). The fields of the status the commands touch
and the handlers of `main_mgr.c`, one operator per handler. An argument is a
record: missing, `+`, `-`, a number, or the three counts of DATA, with the value
`atoi()` would return. A number in place of a text argument stands for any text.
Integers are unbounded: no handler multiplies, and a counter would need two
thousand million commands to overflow.

**CommandBus** (state machine). The start-up of the threads, the managers as
clients, and the main loop with its fan-out, one action per slot visited, so
that managers start, fail, send and end in the middle of a fan-out.

| variable | in the code |
|---|---|
| `status` | `config->status` and `config->bright` |
| `idx`, `entries` | `sc_threads[n].index >= 0`, `sc_threads[n].entries != NULL` |
| `thr` | where each manager's thread is: created, entries published, module loaded, in its loop, blocked in `recv()`, ended |
| `line` | whether the console's request buffer holds a line, whether its input has ended |
| `sock` | datagrams queued in the main socket |
| `mpc`, `slot`, `cur`, `tok2`, `resp`, `alive`, `loop` | the locals of `main()`: position, `n`, the tokens, `tokens[2]`, `response`, `alive`, `loop` |
| `sent` | bound on the commands issued |
| `accepted`, `due`, `delivered` | history for the properties: number of accepted commands, who must see the current one, which commands the handlers of each manager took |

Points a reader may want to check against the source:

* `tokens[]` is shared by the handlers of one request, and the chronometer
  managers write a default argument into it that later handlers see (`tok2`).
* An unknown command reads `command_list[-1]`: `Receive` allows the three
  outcomes a build can have (error, nothing to call, a call through garbage).
* `stripos(buffer, "exit")` is the `exit` field of a request; requests that fail
  before the fan-out never reach that test.
* A local UDP send before the port is bound is refused: console and reader leave
  their loop, the others drop the command.
* A handler that talks to a device or a server may succeed or fail; it always
  returns (see fairness).
* The end of the console's input is sticky, as in the C library it is built with.

**SCQueue** (state machine). `queue_put()` from HTTP connection threads against
`queue_get()` in the web manager, one action per access to a shared word. The
list is as in the code: `last_out` is the newest item and `next` points to the
next older one.

**LossyMailbox** (abstract specification). What the input queue promises browsers:
a message of a connection is taken at most once and never behind a later one; it
may be lost. Messages are numbered per connection and `taken` lists them in the
order in which they were taken. SCQueue implements it (`AtMostOnceInOrder`): the
mapping numbers an item among those of its owner (`RankOf`) and lists the items
that gets have returned. It does not implement a FIFO, as `Fifo` shows.

**WebDisplay** (state machine). The output queue, expiry, the `readData` service
and the pages that poll it, with lost requests and answers, pages that open late
and close, and restarts of the program under pages that stay open (`Restart`: new
queue, indexes from 0, the pages' `lastID` as it was). A message is its index.
No lock protects the queue: `queue_put()` of the main thread and `queue_expire()`
of the web manager interleave word by word.

| variable, operator | in the code |
|---|---|
| `first_out`, `last_out`, `last_index` | the words of `output_queue` |
| `ppc`, `link` | the main thread inside `queue_put()`, `item->next` of the item in its hands |
| `epc` | the web manager between the two writes of `queue_get()` called by `queue_expire()` |
| `Queued` | the list from `last_out` down to `first_out`: only the main thread puts, so its indexes follow one another |
| `stale` | the messages put more than 15 seconds ago |
| `page`, `lastID`, `answer` | the pages, and what is on its way to them |
| `gone`, `cut`, `from`, `shown` | history: the messages removed, or lost in a removal; whether a put and a removal overlapped; `lastID` when the page met this run of the program; what it has shown |

A put that read `last_out` before the removal cleans it links its item to one that
is going: the item is lost, and if `last_out` is written after it was cleaned the
queue is *wedged* (`first_out` NULL, `last_out` set): no put sets `first_out` again,
and pages get nothing more until the program is restarted. `queue_pick()` is one
step: that it may walk over items being freed is not modelled.

**AjaxBridge** (state machine). The thread of `ajax_mgr.c` against the main
thread, around the status they share and the log of events they share with the
AgilityContest server. The server is external: a log that only grows, and the
marks the events leave, each counter overwritten unless the event says `-1`.

| variable | in the code |
|---|---|
| `status` | `config->status` |
| `log`, `srv` | external: the events of this ring, the marks of the dog in the ring |
| `session`, `license` | `status.sessionID` known, `license_options` |
| `apc`, `evtid`, `batch`, `cmds` | the server thread: position, `evtid`, `rows` still to be parsed, `cmds` still to be sent |
| `mpc`, `url` | the main thread: position, the event composed in `sc_puteventurl` |
| `nlocal` | bound on local commands |
| `behind`, `first`, `executed`, `alone` | history: the last local mark did not reach the server, where the session was opened, ids of executed events, no answer held two events |
| `refused`, `lag` | history: ids of events whose command was refused; a refused command with marks left the status behind, and no event has said all marks since (`Whole`) |

| action | in the code |
|---|---|
| `Select`, `AskPermissions`, `OpenSession` | the start of the thread; it ends if a query fails, but for the licence |
| `Refused` | the licence branch of the loop: message, then exit |
| `Fetch` | `ajax_wait_for_events()`; a failed or empty poll is a stuttering step |
| `ParseEvent` | one turn of the loop in `parse_events()` with `process_eventData()`: writes to the status, command built from the counters as they are now |
| `SendNext`, `ServeServer` | the command list: send, wait; the main thread executes |
| `SendRefused` | `send()` fails, or `recv()` does because the datagram was refused (before the socket is bound, as in CommandBus): the loop goes on with the next command; `evtid` has moved on, so the event is not asked for again |
| `ServeLocal`, `Compose`, `PutOk`, `PutFails` | a command of another manager, and `ajax_put_event()` called for it: text first, transfer later |

Between `Fetch` and the last `ServeServer` of a batch any local command may be
executed, and between `ServeLocal` and `Compose` any event may be parsed. The
bus itself is abstracted to the two kinds of command: CommandBus checks that
requests and answers pair up.

**Canometro** (state machine). `module_read()`, called for ever by the thread of
the network manager, against `module_write()`, called by its handlers in the main
thread, around the semaphore and the device. The device is external: a clock, a
start/stop input, a reset, and marks that judges also enter on it.

| variable | in the code |
|---|---|
| `status` | `config->status` |
| `crono` | external: what the device would answer to a query |
| `cw_data` | `cw_data.running`, `cw_data.tiempo` (its other fields are never read) |
| `sem` | the semaphore |
| `rpc`, `data`, `msg` | the network thread: position, the parsed answer, the command it sends and waits for |
| `mpc`, `cmd`, `cur` | the main thread: position, the command given to `module_write()`, `cur` of the loops of `synchronize_chrono()` |
| `lost`, `clean` | history: the semaphore was not given back; no transfer failed and nobody touched the device since the query of the synchronisation |
| `hung` | a transfer never ends |

A transfer is one step that arrives or does not, for `sendrec()` looks at no
result; a synchronisation is one step per transfer. Nor does `sendrec()` set a time
limit: `Hang` is a device that took the connection and never answers, after which
the thread in the transfer makes no further step and keeps what it holds. `strstr("uptime", data)` has
its arguments swapped and never finds anything, so the branch for newer devices
is dead code and not in the model. `WriteOther` collects the commands that change
nothing a poll would show.

**SharedDevice** (abstract specification). A device two threads use one at a time,
which the main thread may drop for good. Canometro implements it
(`OneUserAtATime`), with `Holder` as the refinement mapping.

**Digican** (state machine). `module_read()` in the thread of the serial manager,
with lines cut in two or read together, against `module_write()`, which turns
commands into steps and keeps the counts it has sent in `digican`. `panel` is the
external display; `apart` remembers that a write failed or the device was reset by
hand, neither of which the module can know; `Call` is the AgilityContest client
that writes the marks of another dog into the status.

**PageClock** (state machine). The page's chronometer and countdowns: commands
(`parseCommand`) and clicks on the buttons that are enabled (`Click`), and the
timers they leave behind, which in JavaScript run one at a time.

| variable | in the code |
|---|---|
| `running`, `paused` | the flags of `jquery-chronometer.js` |
| `timed`, `marked` | whether `startTime`, and `stopTime` with it, hold times of a command (RESET zeroes them, and the next `run_chrono()` puts the time of day there) |
| `ticks`, `resumes` | pending timeouts of `run_chrono()` and of `int_run()` |
| `c_llamada`, `c_reconocimiento` | the countdowns: interval set, count |
| `clock`, `buttons` | which kind of value `#Clock` shows; which buttons are enabled |
| `last`, `ended` | history for the properties |

**MCCommandBus**, **MCSCQueue**, **MCAjaxBridge**, **MCCanometro** and
**MCDigican** instantiate these for TLC; WebDisplay and PageClock need no
definitions of their own for that. **ChronoStatusProofs**, **CommandBusProofs**,
**SCQueueProofs**, **WebDisplayProofs**, **AjaxBridgeProofs**, **CanometroProofs**,
**DigicanProofs** and **PageClockProofs** hold lemmas and theorems.

Definitions whose name has an underscore and a suffix after the name of an action
(`FanOut_Retry`, `GetAdvance_Keep`, ...) are *mutants*: the action with a
plausible bug. They are not part of any specification; each shows that a
property would notice that bug.

## Runs

| run | instance | shows |
|---|---|---|
| `bus` | console, network chronometer, server, reader; good, bad and exit commands; 2 commands; fairness | `TypeOK`, `RequestAccounting` (a waiting manager has exactly one request outstanding), `FanOutComplete` (an answer means the handler of every due manager was called; whether it could do its work is another matter), `DeliveredInOrder`, `EveryRequestAnswered`, `ExitEndsProgram` |
| `bus_early` | console and chronometer | violates `ReadyWhenDispatched`: a handler runs before its module is loaded |
| `queue` | two connections, 4 messages | `TypeOK` (no NULL is followed), `NoUseAfterFree` and `AtMostOnceInOrder` (it implements LossyMailbox) hold even without locks |
| `queue_fifo` | one connection, 3 messages | violates `Fifo`: a get forgets all that was queued behind the item it takes |
| `display` | a page, 4 messages, two restarts, fairness | `TypeOK`, `PrefixUntilExpiry`, `SkipsOnlyRemoved`, `IntactUnlessCut` (between operations the queue has all that no expiry took; only a put that overlaps a removal wedges it), `EveryMessageShown` (a command that is put is shown by every open page, unless an expiry takes it first or the queue is wedged) |
| `ajax` | an operator's session, call, marks and reset, a local mark and reset; 4 events, 2 local commands, answers of up to 2 events; fairness | `TypeOK`, `ScoreAgrees` (once the thread has caught up the score is the server's, if one side marks and no refused command left it behind), `EventsOnce` (commands of events are executed once and in order, or refused and dropped), `EventsReachHub`, `UnlicensedExits` |
| `canometro` | 7 commands, 2 of them issued; 2 things that happen at the device; times up to 2; fairness | `TypeOK`, `LockAccounted` (the semaphore is with whoever uses the device, or free), `SyncExact`, `MarksConverge` (device and status come to agree whatever is lost on the way), `HandlerReturns` (both but for a lost semaphore or a transfer that never ends), `OneUserAtATime` |
| `canometro_lock` | the same | violates `FreeBetweenOperations`: a failed synchronisation keeps the semaphore |
| `canometro_toggle` | START by hand | violates `StartKeepsRunning`: a START stops a clock that has started since the last poll |
| `digican` | 7 commands and 2 dogs, 4 of them issued; 2 lines of the device | `TypeOK`, `CountsArePanel`, `MarksShown` |
| `page` | 7 commands or clicks, countdowns of 2 turns, fairness | `TypeOK`, `RunningClockTicks`, `IntermediateEnds`, `FinalShown` |
| `page_reset` | 3 commands | violates `ResetStops`: the clock runs again after a RESET |

The violations are disagreements between the code and its own comments or
tables; `PROJECT.json` quotes each of them under `findings`.

Bounds. `MaxRequests` bounds commands. Two in `bus` are enough for a request to
wait in the socket while another is fanned out, for one manager to be answered
while another is refused or starts, and for a command to follow an exit. That run
has no web manager and no serial chronometer; the theorems about the bus hold for
all of them. `MaxItems` 4 with two connections lets both put twice around a
get, which is what wedging, losing and recovering take. Pages share nothing but the
queue, and asking changes nothing in it, so one page is enough in `display`; the
theorems hold for any number. `MaxMessages` 4 lets it show a message, lose another to
an expiry, and repeat a third, or a put be cut by a removal and the next one find the
queue wedged; two restarts (`MaxRestarts`) let it meet programs whose indexes it is
ahead of. Four
events in `ajax` let a session be opened and three more events follow, split into
answers in every way, one of them this program's own coming back between two of
an operator; two local commands let one fail to reach the server and the next one
make up for it. Its instance has no marks of touches on their own: see below what
they do. In `canometro` two commands (`MaxOrders`) let one wait for the semaphore
behind a poll and change the status under the poll's comparison, two presses
(`MaxPresses`) let a judge mark during a synchronisation and the clock start or
stop between polls, and `MaxTime` 2 tells a time that moves from one that stands
still. In `digican` four commands or calls let marks be set, written, replaced by
those of another dog and written again, and two lines (`MaxLines`) can be joined
or cut. In `page` seven commands let three intermediate times overlap between a
start and a stop with commands to spare, and a countdown of two turns (`Seconds`)
can be interrupted or run out.
`CHECK_DEADLOCK FALSE` is said
where the system may really stop: the main loop blocks when nobody has more to
say (the command bound reached), and the program ends; a queue rests when every
message has been put and taken, or it is wedged; the log of the AgilityContest
server is bounded, and the bridge rests when it is full; both users of the
canometro stop when the semaphore is gone, and the digican and the page rest when
nobody presses anything more. Pages poll for ever, so the display run checks for
deadlock. No run uses symmetry.

Fairness. `CommandBus!FairSpec`: weak fairness of the main thread, of each
thread that is starting and of a console whose input has ended: operating system
threads that can run do run. It takes for granted that handlers return, which
the code does not ensure for the server (no total timeout) nor for the canometro:
`HandlerReturns` says that a lost semaphore and a transfer that never ends are all
that keeps them there, if waits for the semaphore are fair. Nobody is obliged to issue
commands. `WebDisplay!FairSpec`: a queue operation that has begun goes on, an open page keeps
polling (its timers), and
strong fairness of an answer and its arrival: of the requests repeated for ever,
not all are lost. `AjaxBridge!FairSpec`: weak fairness of the server thread and of
the main thread's steps once it has something in hands, and strong fairness of
`SendNext`: of the commands sent for ever some are not refused. It takes for granted
that the transfers of polls and puts end, for which the code limits the time to
connect only. As failed polls are
stuttering steps, fairness of `Fetch` says that of the polls repeated for ever
some bring what there is; a put may fail every time. Operators and local
managers need not do anything. `Canometro!FairSpec`: weak fairness of the two
threads while no transfer hangs (`Hang` may come at any transfer), strong
fairness of their waits for the semaphore (one that waits while it
is posted again and again gets it in the end; POSIX promises no more than that to
threads of equal priority, and with less the poller could starve the main loop)
and of `FreshQuery`: of the polls repeated for ever some are answered, with a time
that has moved. Transfers of a synchronisation may all fail. Digican has no
liveness property. `PageClock!FairSpec`: the browser's timers fire. Commands and
clicks need not come.

## Proofs

`ChronoStatusProofs` has what the others use: `MainApplyType` (the status stays a
status), `MainApplyEliminated` (the elimination mark stays 0 or 1, which lets a
toggle bring it about) and `ApplyCounts` (the shown fault count and the refusals
never go below zero unless a DATA asks for it).

`CommandBusProofs` proves four theorems for every configuration, every set of
commands the managers may send and every bound, from `BusAssumption` alone
(the constants have their types, and a command named exit contains the text
exit):

* `TypeCorrect`: `Spec => []TypeOK`. `TypeOK` is inductive by itself; `alive <=
  slot` during a fan-out is what bounds `alive`. `MainApplyType` shows that every
  handler of the main controller keeps the status a status.
* `RequestsAccounted`: `Spec => []RequestAccounting`. The invariant needs
  `StartUp`: until the socket is bound nothing is on it, and a console that
  typed a line then is gone, for its buffer would otherwise be taken for a
  request at the end of input. One lemma per kind of step: `SendStep`,
  `ReceiveStep`, `ReplyStep`, and `QuietStep` for all the others.
* `DeliveryInOrder`: `Spec => []DeliveredInOrder`, by `OlderAhead`: whatever the
  slots still to be visited have got is older than the command in hand.
* `FanOutIsComplete`: `Spec => []FanOutComplete`, by `Visited` (the due managers
  in slots already visited have the command, or their slot was withdrawn) and
  `Alive` with `SlotsKept` (after start-up a withdrawn index is not set again and
  published entries stay published).

`CanometroProofs` proves, for every set of commands and every bound, from
`CanometroAssumption`:

* `TypeCorrect` and `LockIsAccounted`: one invariant, since `sem \in {0, 1}` needs
  the accounting and the accounting the types; it adds that the elimination marks
  are 0 or 1 and that the semaphore is lost only when nobody holds it.
* `OneUser`: `Spec => SharedDevice`, the refinement step by step, from the same
  invariant: two holders would make the sum of `LockAccounted` exceed one.
* `SyncIsExact`, for commands that ask for no negative counts (`CountsSent`): while
  nothing is lost the counts `synchronize_chrono()` believes are the device's.

`DigicanProofs` proves `TypeCorrect` from `DigicanAssumption`, and, under its own
`CountsSent`, `CountsAreShown` and `WrittenMarksShown`. The invariant adds that the
status' counts and the module's own are not negative (else the panel, which does
not count below zero, would part from them) and that what was last written is
what the status has (`Sent`).

`PageClockProofs` proves `TypeCorrect` and `ClockTicks`, from `PageAssumption`. The
invariant adds that a paused clock has a timer that resumes it and that there are
no more such timers than commands. Flags and numbers are proved apart, since no
one backend does both.

`SCQueueProofs` proves, for any number of connections and messages, from
`QueueAssumption`:

* `TypeCorrect` (neither side follows a NULL pointer) and `NeverUsedAfterFree`. The
  reason that nothing goes wrong without a lock is `HeadInv`: the head of the list
  links to nothing, for a put that finds an item behind `last_out` links from the
  new item to the old one and never the other way. So the reader unlinks exactly
  the head, and what it holds has been *published* (its put is over), which keeps
  writers off it. `PutInv` says that a thread's item in hand is its own and its
  latest, `GetInv` what the reader holds at each of its steps, `FreedInv` that only
  published items are freed. Writers have no such guarantee: `last_out` may be an item
  already freed, and a new item is then linked behind it. Nobody follows that link
  in the input queue, but the message is lost.
* `ImplementsMailbox`: `Spec => AtMostOnceInOrder`, step by step; needs `OrderInv` (what
  was returned, what is about to be and the head are in the order in which their
  connection put them) and `Ranks` (an item's number among its owner's).

`WebDisplayProofs` proves, for any number of pages, messages and restarts, from
`DisplayAssumption`: `TypeCorrect`, `PrefixInOrder`, `SkipsOnlyTheRemoved` and
`QueueIntact`. The invariant has three cases for the queue's words: it is whole, an
interval that ends with the last message linked (`WholeInv`); it is between the two
writes of a removal (`ClearInv`); or it is empty, ready for the next message or wedged
(`EmptyInv`). In each, what a put in progress holds tells whether its message will be
lost. Of a page it says that its `lastID` stands no further than behind what it
showed last and that the queue has nothing in between (`ShownInv`), and that an
answer on its way is still the oldest message from `lastID` on, whatever was put or
removed since it was given (`AnswerInv`). `Linked` bounds what can have been seen, so
that a message published later is newer than all of it (`QueueMoves`). `Picks` says
what `queue_pick()` returns.

`AjaxBridgeProofs` proves, for any events of operators and any local commands, from
`BridgeAssumption`:

* `TypeCorrect`. `TypeOK` is not inductive: that `evtid` stays within the log when the
  session is opened needs that nothing has been fetched before (`BatchInv`).
* `EachEventOnce`: `Spec => []EventsOnce`, by `BatchInv` (the batch is the part of the
  log behind `evtid`), `LicenseInv` (without a licence nothing is fetched) and
  `OrderInv` (what was executed and then what waits to be sent are, in order, the
  events up to `evtid` that ask for a command, but for the refused ones), and `DropInv`
  (what was refused asked for a command, was not executed and precedes what waits).
* `ScoresAgree`: `Spec => []ScoreAgrees` under `MarksSent`. If only operators mark, there
  is a history of the server's scores, one per event of its log, such that status
  and command on its way amount to the score at `evtid` (`Followed`), but for the time
  in which a refused command has left the status behind (`lag`): an event that says all
  marks ends it (`WholeAgrees`). If only local
  managers mark, the event that is being put carries the marks of the status, and
  the server has them once it took it (`LocalInv`, `LastInv`). `MarksSent` asks for
  three things: no local DATA with negative counts; events set the elimination
  to 0 or 1 or leave it alone; and either no `datos` reports touches, or every
  `datos` and `llamada` reports both faults and touches. None can be dropped:
  with a negative count, an elimination of 2, or touches on their own TLC finds
  `ScoreAgrees` violated on small instances. The last is a flaw of the code, listed
  below.

Only model-checked: the liveness properties (`EveryRequestAnswered`,
`ExitEndsProgram`, `EveryMessageShown`, `EventsReachHub`, `UnlicensedExits`,
`MarksConverge`, `HandlerReturns`, `IntermediateEnds`, `FinalShown`), for fairness and
ENABLED are outside the prover's reach. Every invariant and refinement of a passing
run is stated by one of the theorems above.

## Not modelled, and why

Most of the lines of the repository's C sources and headers belong to libraries
kept with it (libwebsockets, libserialport, libcsoap, getopt, tiny-json); they are
external, and modelled only as the program uses them. Of the program's own code: texts, printing, logging and command help
(wording); `msg` and other arguments beyond the first; the licence, ini file and
command line (read once before any thread starts); the enumeration of ports and
the search for a device in the network; the generic and dummy modules, which pass
lines on; the Windows and macOS builds' differences; static pages and layout, time
values and their rounding.

Some disagreements are modelled but no run is spent on them:

* TURN without an argument reaches `atoi(NULL)` when no chronometer manager has
  filled in the default that `parser.c` promises.
* `alive` does not count the code reader in slot 4: as the only live manager its
  first command ends the program.
* The end of the console's input does not end the program: `exit` is written over
  the whole request, prefix included.
* A put that overlaps a get can leave `first_out` and `last_out` disagreeing, and
  the input queue empty for ever. A put that overlaps an expiry does the same to the
  output queue, and pages then get no more commands (`Wedged`).
* A command of the server that the local socket refuses is dropped, and its event is
  not asked for again: the score stays behind until an event that says all marks.
* A device or server that takes a connection and never answers holds up whoever
  called, and in the end the main loop: no transfer has a time limit, only connecting
  to the server has one.
* Expiring one message removes all, for the same reason as `Fifo`.
* A page opened after an expiry shows messages again, for its `lastID` counts what
  it parsed and not the index it parsed last; a page older than the program misses
  messages.
* Touches that the server reports on their own are counted twice: DATA stores the
  sum as faults while the stored touches stay. A batch with marks of one dog and
  the call of the next gives the next dog the marks.
* The canometro module's STATUS hides a start or stop from the poll, and a clock
  seen at zero and then stopped is never reported.
* FAULT of the digican module compares with the faults and steps to faults and
  touches, so it may send nothing; ELIM - shows the mark it should remove.
* Marks given on both sides at once are lost or counted twice: `ScoreAgrees` claims
  nothing then, for the code has no rule for who wins.
* HELP EXIT ends the program, for any datagram with the text exit does; an unknown
  command reads `command_list[-1]`; DATA with an argument without `:` crashes;
  a permission whose query fails is granted.
* A countdown started while the page's clock runs is not stopped by STOP and writes
  over the final time until it ends.

## Plan

Done: ChronoStatus, CommandBus, SCQueue with LossyMailbox, WebDisplay with restarts,
AjaxBridge, Canometro with SharedDevice, Digican, PageClock; proofs of the safety
properties of each.

1. **ScoreBoard** (abstract: the three counters a judge sees) and its refinement
   by ChronoStatus under faults split into faults and touches.
2. `queue_pick` word by word against the expiry that frees what it walks over.
3. **ThreadStartup**: slot 4 shared by reader and web server, slots that stay
   active after a failed start, the main loop left without clients.
4. Composition of the bus with bridge and score board; a server that does not
   answer.
5. Proofs for what 1 to 4 add: that each program counter's value bounds what a
   pick may be holding while an expiry frees items (2), and that the composition
   (4) keeps the invariants of its parts.
