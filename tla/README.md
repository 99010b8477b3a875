# docsis_monitor in TLA+

docsis_monitor watches one network interface in front of a DHCP and TFTP
server, counts the packets that cross it, judges every CMTS interface (every
gi-address) on its own, and sends traps and a mail when the plant's state
changes. This directory holds TLA+ models of it, the TLC configurations that
check them, and TLAPS proofs about the modules everything else rests on.

Paths such as `relays.rs:153` are under `src/src/` of the repository.

## The system

One thread does the work (`capture::run`); `main` starts it, `logfiles` has a
heartbeat thread of its own. There is no other concurrency inside the program:
what is concurrent is the plant, which goes on sending while the loop waits for
a relay; the machine's clock, which is `SystemTime` and may be set back; and other
instances of the program, which share `~/logs` with this one.

| component | state | operations | correct when |
|---|---|---|---|
| `counters` | one-second buckets, flows, totals | `add`, `window`, `by_flow`, `expire` (at the head of each) | the counts are exactly those of the last `window` seconds, in memory that does not grow with traffic |
| `relays` | a row per gi-address, the unrelayed row, the table of requests awaiting an answer, `swept_ms` | `request`, `reply`, `tftp_request`, `tftp_send`, `expire_pending`, `entry` | no request answered twice, answer times that are consistent and true, a bounded table |
| `alarm` | `Repeats.last` | `judge_relay`, `worst`, `should_send` | the verdict follows the numbers, a change is always said, a repeat only when it is due |
| `packet` | none | `read`, `classify`, `xid`, `giaddr` | a message is what its sender meant, whatever ports and tags carry it |
| `capture` | the loop: `next_report`, the deadline, all of the above | `run`, `report`, `progress`, `judge_each`, `should_tell` | silence is reported in time, only true silence is, every receiver gets the message |
| `adapt` | none | `suggest`, `as_config` | a suggested threshold survives the watch it was derived from |
| `email` | one SMTP dialogue | `send`, `compose` | a message is delivered to all recipients or known to have failed |
| `snmp` | none | `encode`, `send` | a receiver reads what was meant, at every size and number |
| `logfiles` | PID file, log, heartbeat | `start`, `write_pid`, the guard's `Drop`, `touch` | the PID file names the process that runs, is fresh only while it does, and is gone after it |
| `main` | how far start-up has come | settings, interface, capture, fork, log, capture, loop | failures are seen before the terminal is let go, and words reach somebody after it |
| `config` | settings | `load`, `check`, `usable`, `mail`, `idle_seconds` | what is accepted does what it says |
| `version` | none | the build stamp | (formatting only) |

How they interact: the loop reads a frame, `packet::read` classifies it, and the
loop hands it twice over, to `Counters::add` by flow and to one of the four
`Relays` operations by interface. Every `report_every` seconds it asks `Counters`
for the window, judges every row of `Relays` with `alarm`, asks `Repeats` whether
to say so, and if so calls `snmp::send` for each target and `email::send`. These
calls happen inside the loop that reads.

What is hard about it:

* **Lazy forgetting.** Nothing expires on its own. `Counters` expires at the head
  of each call; `Relays` sweeps its table at most once a second and only when a
  request with a transaction id arrives.
* **A clock that may go back.** Every difference is a `saturating_sub`, so a clock
  set back freezes silence, sweeps and reminders until it has caught up.
* **Answers in any order.** Duplicated, late, with another gi-address or none,
  with transaction ids that two interfaces share, or that one DHCPv4 boot uses for
  two exchanges.
* **Sends inside the loop.** While one waits, frames pile up unread until the socket is
  full and loses them, and time goes on towards the next report.
* **Memory before sending.** What is about to be said counts as said, whatever
  becomes of the sends.
* **Sizes at an edge.** A trap nests five lengths, each with two forms, and numbers
  whose first bit would be read as a sign.
* **Two processes, one terminal.** What is found out after the fork can no longer be
  said to whoever typed the command, and what was tried before it may have changed.
* **A file with a name.** The PID file is written, stamped and removed by name; whose
  it is by then nobody asks.
* **Nothing to wake on.** The failure the program exists for is silence, and on a
  silent plant only the read timeout makes the loop go round.

`PROJECT.json` lists these as hazards, each at the line where it bites, with the
properties that would catch it.

## The modules

| module | models | state and actions |
|---|---|---|
| `SlidingWindow` | the promise of `counters.rs` | packets and flows by age; `Packet`, `Pass`, `AskCounts`, `AskFlows` |
| `Counters` | `counters.rs` | `buckets`, `flows`, `total` as in the struct, `answer` and `listed` for the return values; `Add`, `ReadWindow`, `ByFlow`, each with its `Expire` |
| `Relays` | `relays.rs` | `rows` (`by_gi` and, at `NoGi`, `unrelayed`), `pending`, `sweptMs`; `Request`, `Reply`, `TftpRequest`, `TftpSend` |
| `Bulletin` | the promise of `Repeats` | what the reader believes and since when; `Tell`, `SayNothing` |
| `Judgement` | the judgements of `alarm.rs` | none: `JudgeRelay`, `Worst` |
| `Alarm` | the repeating of `alarm.rs` | `last`, and `judged`, the last call of `should_send` and its time, which the program does not keep and the promise is about; `ShouldSend` |
| `Adapt` | `adapt.rs`, and `PerRelay::idle_seconds` of `config.rs`, over `Relays` and `Judgement` | none of its own: `Suggested` and `AsConfig` read the rows of `Relays`, whose actions it takes; a watch may end in any state |
| `Packet` | `packet.rs` | none: `Read`, `Classify`, `XidOf`, `GiAddr` over records of header fields |
| `Exchange` | modems that boot, through `Packet` into `Relays` | the plant, beside what really happened (`boot`, `fetch`): `Ask`, `Answer`, `ReadFile`, `SendFile`, `AckFile`, and `Noise`, the traffic that is none of the program's business |
| `Monitor` | `capture.rs`, composing `Counters`, `Relays` and `Alarm` | `pc`, `nextReport`, `unsent`, `outcome`, and the socket (`wire`), when each interface spoke (`spoke`) and last got a request into it (`reached`), what each receiver was last sent (`given`), the clock's error (`back`) and how long sends have waited in all (`held`), which the program does not keep and the properties need; `ReadFrame`, `ReadWaits`, `NotDue`, `Report`, `Send`, `Stop`, and the plant's `Arrive` and `Overflow` |
| `Smtp` | `email.rs`, one send, and a mail relay | `at`, the place in the script that `send` is, `waiting` in `expect`, `result`; what is between the two is `lines` and `heard`. `Connect`, `Say`, `ReadLine`, `GiveUp`; the relay's are `Accept`, `Refuse`, `GoOn`, `HangUp` |
| `Message` | the promise of `email::send` | `result`, `taken`; `Take`, `Return` |
| `Snmp` | `snmp.rs`, and `build` of `capture.rs` | none: `Encode`, and for the receiver `Receive` |
| `Delivery` | the end of `report` in `capture.rs`: `Snmp` for each target, then `Smtp` | `trap`, `targets`, `datagram`; `SendTrap`, `BeginMail`, and the actions of `Smtp` |
| `Config` | `config.rs` | none: `Load`, `Parsed`, `Check`, `Usable`, `Mail` over JSON objects |
| `Startup` | `main.rs` and `logfiles.rs`, with `find` and `open` of `capture.rs` | per process `at`, the place in `Order` that `main` is, `forked`, `out`, `told`, `guard`, `beat`; shared `logs`, `pidFile`. One action per step of `main`, `Beat` for the thread; `Kill`, `Tick` and `Change` are the host's |
| `RelaysProofs`, `AlarmProofs`, `StartupProofs`, `CountersProofs`, `ExchangeProofs`, `MonitorProofs`, `DeliveryProofs` | | theorems about `Relays` with `Adapt`, `Alarm`, `Startup`, `Counters`, `Exchange`, `Monitor`, and `Smtp` and `Snmp` within `Delivery` |
| `Sums` | | lemmas about sums over finite sets and recursive functions, for the last four of these |
| `MC*` | | small plants for TLC |

The operations of `Counters`, `Relays` and `Alarm` are actions over the
component's own variables; each module adds a clock and an environment to be
checked alone, and `Monitor` and `Exchange` take the same actions through
`INSTANCE`. The bounds are in the environments' guards, never in the operations.

Abstractions, and why they lose nothing the properties see:

* A flow is a number. `Counters` uses flows only as map keys and, on a tie, in
  their derived order.
* `min_answered` is a fraction and the ratio is compared in integers. The code
  compares two `f64` quotients; the boundary itself, where the two could differ by
  rounding, is not modelled.
* In `Relays` the clock counts milliseconds with `Second` of them to a second, so
  that the second-granular `first_seen`, `last_request` and the millisecond
  `at_ms` are related as they are in the code, which reads the same clock twice.
  A second passing between the two reads of one frame is not modelled.
* In `Monitor` the clock counts seconds and the millisecond clock is the same one
  (`Second <- 1`); two reads that time out are one second. Only the two calls that
  wait, `rx.next()` and the sends, let time pass.
* A frame is a record of what its headers say. Addresses, lengths and bytes are
  left out, and so is truncation in the middle of a header; a body is there or it
  is empty. The fallback to the ports for an empty body (`PortDirection`) is
  modelled and no conversation of `Exchange` needs it.
* Counts are unbounded integers: at 64 bits the code's counters do not wrap in the
  life of a machine.
* A message to a receiver is one step that waits up to `MaxBlock` seconds and
  succeeds or fails. What happens inside is `Smtp`.
* The capture socket holds `Backlog` frames and loses what comes after them
  (`Overflow`). How many bytes it really holds is the kernel's business; the proofs are
  for any number. A request that is lost was sent (`spoke`) and is not known of
  (`reached`).
* What the loop decides on and what reaches somebody are two things. `Decided` is what
  `Repeats` remembers, set before any send; `given` is what a receiver was last sent by
  a send that returned no error. The properties about readers are about `given`, with
  the sends that failed (`Failed`) named as the exception.
* In `Smtp` a reply is its lines, a line its first digit and whether another follows.
  A relay that answers a command with the wrong class, with garbage or with bytes that
  are not text refuses it. It speaks when it is spoken to; lines nobody asked for are
  not modelled. What a message says (`compose`, `data`, `base64`) is left out.
* In `Adapt` what is left out is the sentence beside a suggestion, and with it the
  span, which goes into nothing else.
* In `Snmp` an octet has `Octet` values, 256 in the code and 16 in the run: the short
  form of a length, the sign bit, the digits of an arc and the width of a counter are
  all defined from it, so what happens at 128 and 2^32 happens at 8 and 2^16. The
  integers it encodes are naturals, as all the program passes are.
* In `Config` a JSON object is a function on its keys, and text is what `trim()` can
  tell of it. Ports, names and passwords are left out.
* In `Startup` the processes are told apart by the command that started them and by
  whether they are its child: `daemonize` is one step, after which the parent has
  returned 0. A heartbeat thread whose time has come runs before time goes on, which
  is what makes `HEARTBEAT` a bound; a machine too busy to schedule it for a minute is
  what a watchdog is told to allow for (`logfiles.rs:47-49`). The host changes at most
  once in a behaviour, and `changed` is what did (`able`, `pidFile` or `logs`), so that a
  property excepts no more than the change it is about; of what `~/logs` may be, what the program can
  tell apart is kept: not there, nothing can be opened in it, the log but not the PID
  file, or both; and the disk may fill up between creating the file and writing it.

## What the runs check

Bounds are small because the behaviours are: each one lets the case its
properties are about happen, which the mutants in `PROJECT.json` confirm (every
property is violated by a plausible slip in a modelled definition under the same
bounds).

| run | question and bounds |
|---|---|
| `counters` | Does lazy expiry give exactly the last `Window` seconds? Two kinds, two flows, a window of 3 in 7 seconds, steps of up to 4 (more than the window), two packets of each kind. `WindowIsExact` is refinement of `SlidingWindow`: what `window()` and `by_flow()` return is right whenever they are called and however long nothing was. `OneBucketPerSecond` is the memory bound that holds even when nothing but `add` is ever called; `FlowsAccountForWindow` relates the two structures. |
| `relays` | Every order of four packets from two interfaces and unrelayed clients, with two transaction ids that both may use and a table of one, under a clock that may be set back at any time. |
| `relays_steady` | The same under a clock that only advances, with one interface, a table of two and 9 ms (a `PendingFor` of 3 and sweeps every 2, so that entries age past the limit, wait for a sweep, and are swept). The run is of `MCAdapt`: any of its states may be the end of an adaptation run, with a floor of 1, a ceiling of 5 and a headroom of 2, so that suggestions meet the floor, the room and the ceiling. `SuggestionHasRoom`: once an interface has broken a silence, the block suggested does not have it called quiet for that silence; `SuggestionsOnlyLoosen`: a longer watch takes nothing back. |
| `late_answers` | (violation) below. |
| `alarm` | Every sequence of judgements at any clock readings 0 to 5, with `ResendAfter` 2. `DecisionIsCurrent`: what was decided last is what was judged last. `ReaderIsTold` is refinement of `Bulletin`: changes are told at once, reminders neither early nor, since `judged` carries its time, left out. `JudgementIsMonotone` takes all counts 0 to 5 and steps as large, which crosses both the count of requests judged (3 here, 5 in the code) and the ratio 3/4. |
| `exchange` | Two modems boot: a relayed DHCPv4 one that asks once and is served from port 69 throughout, a DHCPv6 one that asks up to twice and whose transfer moves to a port of its own, amid frames that carry the ports and bytes of a request and are none (`Noise`: not UDP, later fragments, not IP, too many headers); each frame plain or with two VLAN tags and eight extension headers, over 3 ms. Answers come to each message sent, in any order, early or late, with or without the gi-address. |
| `monitor` | Two interfaces allowed 2 and 3 seconds of silence, up to five requests in the first 3 of 8 seconds, and any number more that are lost because the socket holds two, a report every 2, two sends that wait up to 2 seconds each (as long as the shorter allowance, so that requests are overtaken in the socket) and may fail, and a clock set back at any time by up to 2 seconds in one go or two. Silence is passed on in time, later by no more than the clock was set back and the sends have waited (`SilenceToldInTime`): it is what was last decided, and every receiver has been sent it but those whose send failed. A report of quiet is true, unless the interface's requests are unread or lost, and complete but for what clock and sends hide (`QuietIsTrue`). And the window, of 2 seconds, is as small as seconds that happen twice allow (`WindowStaysSmall`): with the clock set back by one second in all, four buckets are reached and are the bound, and the fifth packet would exceed it if it were given a bucket of its own while the clock is behind; a clock that only advances cannot show that. |
| `monitor_busy` | Requests, replies and TFTP on one interface, allowed 3 seconds of silence, while two sends may each wait a second and fail and the clock is set back by one, over 12 seconds, of which traffic arrives in the first 3 (time for requests to go unanswered, to be answered after the report, and for silence), as an ordinary run and as an adaptation run of 5 seconds. The ordinary run: no receiver is left with an older state than the last one judged, unless its turn is still to come or its send failed (`ReadersAreCurrent`), every receiver is tried, the two sets of counts agree, and silence is passed on in the end. The adaptation run: nobody is told, `Repeats` is left alone, and it ends. |
| `delivery` | The sends of one report. First a trap for each of two communities, of 6 and of 8 octets, which may fail: some seventy traps that differ in a text of 0 to 40 octets, which takes the message, the PDU, the list and the binding through both forms of length one after the other, or in a count or an uptime around every power of two that matters and beyond the largest (`ReadsAsSaid`). Then one mail for two recipients, with a password, through a relay that may refuse any command, answer in one to four lines and in pieces (three), fall silent for longer than `Step` (2), and hang up with what it said lost, kept, or cut within a line. It is one send of `Message` (`SmtpIsOneSend`): sent means taken for all, and it is never taken for some; only after the message itself can failed mean taken (`DoubtOnlyAtTheEnd`); and `send` returns (`SendEnds`). |
| `startup` | Two commands, typed in any order and one over the other, each in the background, in the foreground, with `--check` or with a file of its own, on 18 disks (no file, good files, each way a file is refused, a bad one before a good one), over the four kinds of `~/logs`, able to capture or not, killed at any point, while the host changes once, for two heartbeats. Who the PID file names and when it is fresh (`OnlyTheKilledStayNamed`, `RunnerIsNamed`, `FreshMeansAlive`), what the command returns (`InabilityIsTold`), who can read what follows (`SomebodyCanRead`), and whether a mail section that is accepted mails (`MailIsWhole`). |
| `outage_judged`, `failed_send` | (violations) below. |

Deadlock is checked except where a behaviour ends: the packets of the `relays`
runs and the messages and milliseconds of the `exchange` runs are used up, and an
adaptation run, an SMTP conversation and the commands of `startup` stop by design. In `monitor` the loop never stops, and TLC checks so.

`Exchange` has no sweep and no full table (its `PendingFor` is beyond its clock),
because these are what the runs of `Relays` are about; what it adds is the truth to
compare with.

A send that waits holds the reading and the reports, and its wait has no bound in the
code. So `SilenceToldInTime` and `QuietIsTrue` are stated with what has been waited,
`held`, as they are with what the clock was set back, `back`: when neither happens they
are exact, one report interval for the one and no allowance at all for the other. Both
are sums over the whole behaviour: a delay that is over still counts, so the bounds only
get looser. A send that fails delays nothing and is no news either: `SilenceToldInTime`
and `SilenceIsTold` promise that each receiver is tried with what is true, and that only
its own failed send can keep it from a receiver. That nobody may have heard, and that the
next report does not try again, is `failed_send` below.

### Fairness

`Spec` of `Monitor` has `WF_vars(Loop)`. The loop is a thread of its own and every
call it makes returns: `rx.next()` after `READ_TIMEOUT` (500 ms, `capture.rs:59`),
a trap at once, a mail when the resolver or the relay gives up. That last one is
the assumption: `email.rs:105` connects with the operating system's timeout and
gives each read its own, so a send is finite only if the relay is not endlessly
slow. Nothing is assumed of the plant, which may be silent from the start, nor of
the clock beyond that a read which times out takes time.

`DeliverySpec` has `WF` of `Report`, the same thread, and of the clock of its reads,
which goes on. The relay owes nothing. The timeout starts anew with whatever arrives,
so `SendEnds` holds because a relay sends finitely many pieces (`MaxPieces`); that is
the form the assumption above takes there.

`Startup` has no fairness and needs none: what matters about it is what it must never
do. What it waits for, the plant, is the business of `Monitor`.

### Where the code differs from what is said of it

Each of these is a run that TLC ends with a counterexample.

* `late_answers`: `reply` times whatever it finds, and only requests sweep, so with
  no request in between an answer of any lateness is timed. `relays.rs:346-347` says
  nobody is waiting on it any more.
* `outage_judged`: interfaces are judged on totals since start-up, so a good past
  hides an outage that fills the window. `counters.rs:4-6` says the window is judged.
* `failed_send`: what failed to be sent counts as said. `README.md:136-138` and
  `email.rs:25-26` say the next window tries again.

More that the modules show, by their text or by a run with another constant or with an
exception taken out of a property, and that no run is spent on:

* A flow that keeps talking is listed with every packet since it was first heard:
  `Counters!OnFlow` only adds, and `KeptFlows` keeps or drops a flow whole.
  `counters.rs:47` says "over the same window". `WindowIsExact` is about which flows
  are listed and the counts of the window, both of which are exact.
* With the table full, `Relays!Await` does not replace the first attempt of a retry,
  although that needs no room; `relays.rs:138-141` says that a retry replaces it.
* `STEP` bounds a read and not a step: `Smtp!ReadLine` and every piece the relay sends
  set `idle` to 0, and `Connect` has no clock at all. `email.rs:36` says "How long any
  one step of the conversation may take."
* A DHCPv4 boot keeps its transaction id, so a second OFFER settles the REQUEST and its
  own ACK is not timed: `exchange` with no modem `Patient` breaks
  `AnswerTimesAreTrue`. `README.md:53-55` says the gap is the server's response time.
* `~/logs` is looked at before the fork and tried after it. When it cannot be written
  to, the command has returned 0 and the error goes to `/dev/null`: `SomebodyCanRead`
  without its exception for a process that failed so is violated (its other exception is a
  `~/logs` that somebody deleted, which is nobody's promise). `logfiles.rs:79-81` says that this is an error "rather
  than a silent fall back".
* Of two instances, the one that ends first removes the PID file of the other, and the
  one that goes on stamps the file that names the other, killed or not: `RunnerIsNamed`
  and `FreshMeansAlive` without `disturbed` fail. `logfiles.rs:172` says "What a fresh
  timestamp proves is that the process exists".
* `Config!Check` refuses a mail section without recipients (`config.rs:335`), while
  `config.rs:79` says "No server or no recipients means no mail" and `config.rs:238-239` "Empty means no mail, which is how the whole feature is
  switched off without deleting the section"; what does switch it off is an empty server.
* `Config!Parsed` drops a misspelt key inside a section in silence: only keys of the
  file itself land in `extra`, which is printed. `config.rs:22-27` says "anything not
  recognised is printed at startup".
* A report made right after a send that waited can call an interface quiet whose requests
  are in the socket and not read yet, because one frame is read between two looks at the
  clock; or whose requests the socket had no room for during the send, which nothing in
  the program can tell from silence. `QuietIsTrue` without `Hidden` fails on both.
  `README.md:34-35` says that quiet is "nothing has arrived from that CMTS for longer than
  it is allowed to be silent".
* TFTP is counted only while one end has port 69. `packet.rs:288` says "This server keeps
  port 69 for the whole transfer"; `packet.rs:23-28` says "only the request goes there --
  the transfer itself moves to an ephemeral port on both ends". Of such a transfer nothing
  but the request is counted, and "tftp answers" stays at 0: `CountsAreTrue` with all of
  `fetch` in place of `SeenSends` fails for the modem in `Movers`.
* A request is by `packet.rs:67-68` "Anything going TO a server port" and an answer
  "Anything coming FROM a server port"; `Packet!Direction` asks the message and uses ports
  only when there is none (`packet.rs:226-262`), which is what makes `CountsAreTrue` hold
  where a relay uses one port both ways. And a TFTP read is by `packet.rs:71-72` "a read
  request, and nothing else", while `Packet!TftpKind` has write requests as well
  (`packet.rs:299`).
* `Suggestion.span` ends at the last request, while `adapt.rs:33` says "the last" packet.

## What is proved

For every plant, table limit, sweep interval and (where not said otherwise) clock.
The assumptions are the named ones of the modules, `RelaysAssumption` to
`StartupAssumption`: the markers for "none" are not among the values they mark, the
numbers are naturals, lists are sequences, and the set of kinds of packets is finite.
`Monitor` states those of its parts once more (`PartsAssumption`), because the prover does
not take over the assumptions of a module that is instantiated, and so does `Exchange`
(`MarkersAssumption`: the markers of `Packet` and `Relays` are no addresses, ids or
kinds). What the traps may hold is `DeliveryAssumption`: any texts and naturals, and
object identifiers that BER can write (`ObjectIds`: the first arc is 0, 1 or 2, and the
second is less than 40 unless the first is 2), as those of `snmp.rs` are.

`RelaysProofs`, any clock (`Spec`):

* `TypeCorrect`, `PendingAlwaysBounded`, `AnswersAlwaysEarned`, `TimesAlwaysAddUp`.
  The inductive invariant is `IInv`, the conjunction of the four. They need each
  other: whether a reply earns its row an answer rests on how many requests are
  waiting, `AnswersEarned` counts the waiting ones as well as the answered, and the
  cardinalities are defined only because `PendingBounded` has the table finite.
  `AwaitIs` (what a request does to the table: sweep, limit, insertion) and
  `SettledIs` (what a reply does) are the lemmas that carry it; the row lemmas
  (`EntryKeeps`, `AskingIs`, `RepliedIs`, `TimedIs`) say what each operation leaves
  alone.

`RelaysProofs`, a clock that only advances (`SteadySpec`):

* `PendingAlwaysFresh` and `AnswerTimesAlwaysBounded`, from `Fresh`, which adds to
  `PendingFresh` that the last sweep is not in the future. Together they say exactly
  how far the lazy sweep stretches `PENDING_FOR_MS`, which `late_answers` shows to be
  without limit.

* `GapAlwaysFitsSpan`, from `Spans`: the stamps of a row are in order, and a row that no
  packet has stamped yet, which only the unrelayed one can be, has no last request.

`Sums` is what the prover lacks about `SumFunctionOnSet` of the community modules: that a
fold over a finite set takes out any one element, hence how a sum grows, changes, skips
zeros and is renamed. Induction over data is done there, and in the modules that use it,
by the least counterexample: a set of naturals that is not empty has a smallest member,
and at that one the step from the member before fails. `RecursionExists` is for what is
defined by recursion on something that gets smaller (`Recursion`): there is such a
function, so that the CHOOSE in its definition is one.

`CountersProofs`, any traffic, window and steps of the clock:

* `CountersTyped`, `OneBucketAlways`, `FlowsAlwaysAccount`. `IInv` has the buckets sorted by
  second (`Sorted`) and within one window of each other (`Narrow`, since `add` expires
  before it appends), which makes them no more than `Window`, by the pigeonhole principle;
  and `Accounted`. That the flows account for the window is not inductive: expire drops
  any number of the oldest buckets and of flows, so `Covers` says it of the packets since
  every second. `Backed`, each flow's last second has a bucket with a packet of a kind
  the flow has, is the property's first half.
* `WindowIsAlwaysExact`: `Counters` implements `SlidingWindow`. Each packet that the
  promise has by age is one in a bucket of that age (`Recent`), buckets that are stale and
  still there have no age any more, and what `window` and `by_flow` return after expiring
  is what the promise answers.

`AlarmProofs`:

* `TypeCorrect`, `DecisionAlwaysCurrent` and `RepeatsAlwaysSpaced`, any clock.
* `RepeatsImplementsBulletin`: the initial states map to initial states and every
  step to a step of `Bulletin` or a stutter. Having said nothing yet maps to having
  said that the plant works, which is why `IInv` has to relate `last` to `judged`.
* `JudgementAlwaysMonotone`, from `JudgementMonotone`, which holds for all naturals
  and not only for the range the run tries.

`RelaysProofs` about `Adapt`, any clock (`Spec`), on top of the same `IInv`:

* `SuggestionsAlwaysLoosen`. `StepStores` says what all operations have in common:
  one row is stored, with its evidence as it was or with one request more. From it,
  `RowMoves`, and that `Judge` is monotone in both the requests and the gap.
* `SuggestionsAlwaysHaveRoom`, which needs one invariant more, `Counted`: a row with a
  last request has had at least one. Then the request that breaks a silence is at
  least the second, so there is a suggestion, and the gap is in it.

`StartupProofs`, for any number of commands over one `~/logs` and any settings files:

* Every property of the `startup` run. `IInv` has one part for each promise. `Owned`
  gives `NamesTheLiving`: whoever is named by the file and alive holds the guard that
  will remove it. It also has every guard past the fork, so that the pid in the file is
  the one that stays, which `Sole` rests on. `Sole`
  gives `NamesTheRunner` and `FreshnessIsLife`: undisturbed there is one guard, and its
  heartbeat and the file's stamp are `Heartbeat` apart; a rival counts as a disturbance
  and the proof of `PidWritten` is where that is used. `Tried` gives `TellsInability`:
  whoever is past the probe can capture, unless the right to was taken away since.
  `Readable` gives `IsReadable`, with the two exceptions `SomebodyCanRead` makes: words go
  nowhere only `Between` the fork and the log, a place the property does not name and the
  induction has to. `Checked` gives `MailsInWhole`: what `load` returns satisfies
  `Check`, and nothing later changes it.
* `WhoStamps` lists where a stamp can come from, and is all `FreshnessIsLife` needs
  beside the invariant.

`ExchangeProofs`, for any number of modems behind any interfaces, any tags and extension
headers, asking and being answered in any order and any number of times:

* `CountsAlwaysTrue`, for servers that keep port 69 and that do not. The frames come first:
  `Packet`'s answer to every frame that a modem or a server of the plant can send is that
  frame's kind, id and gi-address, and to the rest of the traffic, that it is none of its
  business. Then a
  step is, for each field of a row, the same `d[F]` added to one row and to what really
  happened to one modem (`Steps`), and `CInv` says of each field where the sums agree: row
  by row for the requests (`TrueByRow`), over all rows for the replies, whose gi-address
  the server chooses (`TrueInAll`), and in the unrelayed row for TFTP (`TrueUnrelayed`).
* `AnswerTimesAlwaysTrue`, from `TInv`: the table holds just the last messages of the
  modems that are waiting, each with its time, and nobody owes a patient modem an answer
  that it is not waiting for (`PatientOwed`). It is proved under `OneIdPerExchange`: a
  modem that is not `Patient` has a new id for each exchange. A DHCPv4 client keeps its id
  from the DISCOVER to the REQUEST, and one that repeats its DISCOVER can be sent two
  OFFERs, the second of which settles the REQUEST; that is the divergence listed above,
  and `exchange` meets the hypothesis with one modem of each sort.

`MonitorProofs`, for every plant, any receivers, allowances and report interval, a clock
set back at any time and sends that wait however long:

* `PartsTyped`, `ReadersAlwaysCurrent`, `EveryReceiverAlwaysTried`, `SilenceAlwaysToldInTime`
  and `QuietIsAlwaysTrue`. `IInv` follows a request from the plant to the reader.
  `UnreadIsRecent`: what waits in the socket has waited only while a send did, since the
  loop reads until nothing is left before time passes. `RowsKnow`: once it is read, the row
  says when its interface spoke, but for `back` and `held`. `ReportsOnTime`: the next report
  is due within one interval of the last, and was made when every interface, if none was
  found quiet, had spoken recently; `was` is what sends had waited by then, so that the
  waiting since then is what can still delay it. `RoundIsWhole` has every receiver either
  tried or still to try, between two messages as within one, and `EachKnows` what each has
  been sent: what was decided is what was judged, and whoever has been tried without a
  failure was sent just that. `SameKnowledge` and `NotedIs` say that traffic, lost or not,
  and the clock leave this alone; `QuietIsPassedOn` is the last link to the reader.
* `CountsAlwaysAgree`, from `CInv`. `RowsAgree` is the first half of the property;
  `BucketsAgree` says of all buckets, the stale ones too, what the property says of a
  window, because a window is a part of them. `RowCounts` is what the four operations of
  `Relays` have in common: one more in one field of one row.
* `WindowAlwaysSmall`, from `WInv`. With a clock set back buckets are neither sorted nor
  narrow. But a bucket made when the clock had been set back by `b` in all has a key, its
  second plus twice `b`, and keys ascend through the sequence; there are
  `Window + 2 * back` of them between the cutoff and now. The program keeps no keys, so
  the invariant says that there are some (`KeysFit`).

`DeliveryProofs`, for any recipients, with and without a password, and any relay:

* `DialogueTyped`, `DoubtOnlyEverAtTheEnd`, and `DialogueIsOneSend`: every step of the
  dialogue is a step of `Message` or a stutter. `IInv` needs `OneAnswer`, what is under
  way is the one answer to the command the client is at, never the rest of another;
  `AnswerIsHonest`, a line with the digit wanted is only there when the relay has granted
  the command, and only the last line ends an answer; hence `EnvelopeIsComplete`, the
  client is past a recipient only if the relay has accepted it, and `TakenOnce`.

* `EncodedIsRead` and, from it, `TrapsReadAsSaid`: what a receiver reads in a datagram is
  what was said, for any community, any texts and numbers of any size and any object
  identifiers. The encoder and the decoder undo each other one layer at a time. The digits
  of a number, which is a length, an integer or an arc, are read back as that number
  (`DigitsAre`, `NumberIs`); a length, the short or the long form, is followed by whatever
  follows it (`LengthIs`, `HeadingIs`); a piece and what comes after it is read as that
  piece and what comes after it (`ItemsOfTLV`), hence pieces that are joined are read as
  those pieces (`ItemsOfJoined`); and so are arcs, of which the first two share a number
  (`OidIs`). Then a variable binding, the list of them, the PDU and the message are read
  level by level (`LevelsAre`). The theorem is about sequences of numbers: that each of
  them fits an octet, the first one of the long form of a length among them, is not in it.
  In the code that would take a text too long for memory.

Every invariant and action property of the runs is a theorem. Model-checked only is
liveness (`SilenceIsTold`, `RunEnds`, `SendEnds`), which the prover does not do under
fairness.

## What is not modelled

* `version` and the build: no behaviour to check.
* The text of reports and mails, and of the block an adaptation run writes down
  (`write_suggestions`); the numbers in it are `Adapt`'s and `Counters`'.
* A clock that jumps forward. Every interface has then been silent for the length of the
  jump as far as the program can tell, and is called quiet; it has no other clock and
  its documents promise nothing.
* How fast the loop goes round when reading fails at once, on an interface that is gone
  (`capture.rs:188`): in `Monitor` a read that fails takes time, as one that times out.
* Relayed DHCPv6, whose bytes at the transaction id's place are something else. The
  source puts it outside what it is for (`packet.rs:116-118`).
* Later IPv6 fragments, which are read as though they began with a UDP header: what is
  then read depends on bytes that `Packet` abstracts from.

## Plan

Done, in this order, because each rests on the one before and the first four are
where the program's judgement is made: `SlidingWindow` and `Counters`; `Relays`;
`Bulletin`, `Judgement` and `Alarm`; `Monitor`; `Packet` and `Exchange`; `AlarmProofs`
and `RelaysProofs`; `Adapt` and its proofs; `Smtp`; `Config` and `Startup`; `Snmp`,
`Message` and `Delivery`; the clock of `Monitor` set back; `StartupProofs`.

Then the proofs about `Smtp`, `Counters` and `Monitor`, `Sums` before the last two, and
`GapFitsSpan`; then those about `Exchange` and `Snmp`.

Left is one property: an interface taken out of service, whose row stays quiet for ever
and hides the others' `unanswered` behind it (`relays.rs:185`).
