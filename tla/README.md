# A verification project for UTN

UTN is the software of a shelf of optical access cards (optical Ethernet
switches, FSA and EPON cards with optical network units behind them), its
management agent and its web interface: about 51,700 lines of C and C++ under
`src/software`. This directory holds TLA+ models of the parts where order,
concurrency, loss and restarts matter, the TLC configurations that check them,
and TLAPS proofs of what holds for every size of shelf, ring or browser crowd.

## 1. Inventory

Paths are relative to `src/software`.

| Component | Code | State | Operations | Talks to |
|---|---|---|---|---|
| Agent main loop | `EmsAgent/main.c` | `loop_count`, `sem_deadlock`, descriptors of both pipes, the SNMP pipe and two UDP ports | one `select` of 100 ms per pass; every 3 passes `check_data_transmit`, every 5 the semaphore check, `check_cardUP` and `check_cardAlarms`, every 8 `check_backstate`, every 1800 `clearRefreshClient`; the LCD | everything below |
| Command path | `Web/cgi/Comm.cpp`, `common/pipe_comm.c` (SNMP), `main.c` | a System V semaphore, two FIFOs | `send_cmd`; read, `ProcessMsg`, answer; repair of a stuck semaphore | CGI programs <-> agent |
| Request handlers | `EmsAgent/message_proc.c` (some hundred commands) | none of its own; dynamic and configuration databases | translate a request into a 485 exchange, answer, then update a database | 485 bus, SQLite |
| Card management | `EmsAgent/card_mgmt.c`, `alarm_proc.c` | `cardData`, `cardTOcount`, ONU lists, tables `Card`, `Alarm`, configuration | `check_cardUP`, `check_cardAlarms`, `GetCardInfo`, `configFE8Card`, `UpdateOnuList`, `UpdateEPOnuList` | 485 bus, databases, refresh flags |
| 485 bus | `common/serial_comm.c` | the receive buffer of the port | `msg485_sendwaitrsp`, `msg485_receive` | cards, backplane |
| Refresh of pages | `EmsAgent/refresh_check.c`, `Web/cgi/CRefreshCheck.cpp`, scripts in `Web/html` | a list of clients with flags | `getRefreshState`, `setRefreshState`, `setRefreshState_Topo`, `clearRefreshClient` | browsers, card management |
| Fans and backplane | `EmsAgent/back_mgmt.c` | `shelfCfg`, `fan_control`, `fan_state`, `fan_states`, `flag_fail`, `check_fanfail_delay`, file `shelf.conf` | `initShelfConfig`, `SetShelf`, `fan_ctl`, `check_backstate` | backplane over the 485 bus |
| Alarm uplink | `FSA/proc_alarm.c` (a thread of the FSA card) | input states of the ONUs, a ring and a socket per alarm server | `check_alarm`, `alarm2Net`, `send_alarmdata` | ONUs, two TCP servers |
| FSA library | `FSA/fsalib.c`, `fsa_alarm.c` | response queue, ONU topology, alarm queue, all shared by threads | `send_fifomsg_waitrsp`, `handle_fifomsg`, `processONUTopo`, `getAlarm` | FPGA FIFO |
| FSA card program | `FSA/main.c`, `message_proc.c`, `data_pipe.c` | pipe tables, configuration file | dispatch of 485 requests, two-way data pipe | library, 485 bus, UDP |
| Configuration files | `common/iniFile.c` | ini files, a temporary name `.b` | open, get, set, save (write, unlink, link, unlink) | agent, FSA, CGI |
| Video switch service | `EmsAgent/proc_svc_switch.c`, `data_transmit.c` | switch table | one UDP request per switch | video server |
| Switch card | `EmsAgent/sw_ctrl.c` | registers | SPI transfers | |
| Encoder, decoder | `encode/`, `decode/` | | answer service messages | |
| Web | `Web/cgi` (about 60 classes), `Web/html`, `Web/js` | session files, browser pages | ask the agent for one thing after the other, build HTML from the answers; read and change `snmpd.conf` | command path, files |
| Database, log, vendored | `database/`, `common/logger.c`, `CppSQLite3`, test programs | | | |

What is hard in this system:

* **Concurrency.** CGI processes share one semaphore and two FIFOs with a
  single-threaded agent that also repairs the semaphore; browsers poll
  concurrently; the FSA library is called by several threads.
* **Loss, delay, duplication.** The 485 bus carries one request at a time and
  has timeouts of tens of milliseconds; late answers are received by the next
  exchange. `send_cmd` waits five seconds. Alarm servers come and go.
* **Crashes.** CGI processes are killed by the web server; the agent and the
  backplane restart independently; configuration files are replaced by three
  system calls; an ONU loses its settings when it starts, and the card that restores
  them is in the middle of a request.
* **Two copies of one fact.** Cache and table of cards, online and offline
  alarms, pages and table, configuration and commanded fans, inputs and what a
  server was told, the tree of ONUs in the card and in the database, settings in a
  card, in memory and in a table.
* **Everybody's idea of a message.** Page, agent and card each fix the length of what
  they send and expect, and how long it may take, in code of their own.

The properties that make each component correct are in section 3 for the
modelled ones. `PROJECT.json` lists the hazards line by line, with the properties
that would catch each going wrong, or why none does.

## 2. The models and the code

Ten families, each a specification, an `MC` module with definitions for TLC, and, for most
of them, a `...Proofs` module (those of `RefreshCheck` are in `BusRequestsProofs`, those of
`FanControl` and `IniFile` in `ShelfProofs`):

    browser     RefreshCheck, PageRequests     sessions, pages and what they ask
       |        IniFile                        files that pages and programs share
    CGI         CmdPipe, CommandService        semaphore and FIFOs
       |        AgentCommands                  the cases of ProcessMsg
    agent       CardMgmt, CardSettings         cards found and missed; their settings
       |        FanControl                     fans
       |        AgentRequests, BusRequests     the 485 bus and its deadlines
    FSA card    OnuTree                        which ONUs there are
       |        OnuPrograms, OnuFifo           what they are told
    ONU         AlarmUplink                    their inputs, told to servers

`BusRequests` composes: it extends `PageRequests` (which extends `AgentCommands`, which
extends `AgentRequests`) and `OnuPrograms`, so that the pages, the agent and the card are
checked against each other. The others meet at narrow interfaces, where each states what it
takes of its neighbour: card management calls `setRefreshState` (variable `dirty` of
`CardMgmt`; the whole protocol is `RefreshCheck`), `check_backstate` and `check_cardUP` run
from the loop whose command side is `CmdPipe`, the outcomes of an exchange on the bus are
`Outcome` in `CardMgmt`, `Outcomes` in `FanControl` and the disjuncts of `Exchange` in
`CardSettings`, and the agent's half of `OnuTree` is the part of `CardMgmt` that concerns
the ONUs of one card.

Operators named like an action with a word added (`AcquireAnyway`,
`RetryPastZero`, ...) are that action with a plausible bug. No specification uses
them; each shows that a property would notice that bug. Variables marked
"history" are written and never read by the system's steps.

### CmdPipe, CommandService

`comm::send_cmd` step by step: `Open`, `Acquire`/`Retry` (50 attempts at a
non-blocking `semop`), `Write`, `Read` (accepts any single whole answer, restarts
its wait on a wrong length), `Timeout`, `Release`. The agent's pass is
`IdlePass`, `OtherInput` or `Take`, then `ServeOther` or `Answer`, then `Check`
and, if the semaphore is to be set, `Reset`: reading and setting are separate
steps because two system calls are. `Kill` removes a CGI process anywhere in a
call; without `SEM_UNDO` the semaphore stays taken. `Timeout` distinguishes a
late answer (bounded by `MaxLate`) from one that will never come. Timing enters
in one place: `Slack` bounds how many idle passes (100 ms each) a live client may
sit on a step it could take; without it the agent's count of checks, which
stands for seconds, would mean nothing. Several requests at once in the FIFO are
discarded by length, as in the code.

`CommandService` is what a caller may expect: commands execute one at a time, a
call that succeeds has had its own command executed exactly once, one that fails
has had none. The refinement maps a client to "executed" as soon as its answer is
in the FIFO or in its hands.

### CardMgmt

`check_cardUP` is `StartUp`, then per slot `SkipListed`, `ProbeMissed`,
`ProbeFound` or `ProbeNoDb`, then `Follow` for the exchanges that configure or
list the card, and `Announce` (`setRefreshState`). `check_cardAlarms` is
`StartAlarms`, per slot `SkipAbsent`, `PollAnswered`, `PollMissed`, `Remove` or
`RemoveNoDb`, then `EndChecks`. Between the checks the agent serves `C_CARD_GET`
(`CardGet`), which shares `GetCardInfo` and its write into `cardData`. `Outcome`
is `msg485_sendwaitrsp`: own answer, none, late, refused, or the answer of an
earlier request, because only the destination address is compared. Cards are
plugged, pulled, replaced and raise alarms at any moment. The content of
configuration and of alarms by card type is abstracted; what remains is which
card they are from and which slot they are filed under.

### RefreshCheck

`GetRefreshState`, `SetRefreshState` and `ClearRefreshClient` are the list
operations of the agent; a page loads, asks every second, is told, reloads
(`frame_view.html`), closes, or is suspended by its browser. `AskInVain` is a
call that fails after or before the agent has served it, or an HTTP request
without an answer, after which the script stops asking. The uninitialised `ret` that
`CRefreshCheck` prints after a failed call is a choice between "wait" and
"reload". `IdOf` is the nine-digit prefix of the session number; it need not be
injective. `excused` records the pages the agent cannot know about: those whose
client had no entry when the change happened, and those whose answer was lost.

### AlarmUplink

A pass of the thread: `Report`*, `Scan`, per ONU `CheckOnu`, `CheckIo`*,
`CheckIoEnd`, then `Idling` or `Working`, `Connect`, `SelectError` or
`SelectReturns`, `Timer`, and per server `Send`, `SendGivesUp` or `SendFails`,
`PassEnd`. Rings keep their indexes modulo `QSize`; the test for a full ring is
`tail - head` in `int`, as compiled. `tag` is the connection timer with its
meanings (0 none, 1 connected, `ChkPoint..TimedOut` connecting, counting down
from `WaitTime` after a failure). The network chooses which connections succeed,
what `select` reports, and how every `send` ends.

### FanControl

A bit mask is a set of fans. `CheckBackState` is one whole `check_backstate`:
reading, regulation on a changed temperature (first command), the displayed
states, and after the delay the search for fans that do not do what they were told
(second command). `Restart` is the agent's `initShelfConfig`, `Reset` the
backplane's restart with fans of its own choice, `SetShelf` the operator's
request. A command goes through, is not heard, or is obeyed while its answer is
lost. A temperature is a byte: `-1` reads 255, since `char` has no sign on the
PowerPC target. A sound fan follows a command within `Settle` passes, less than
`FailDelay`, which is what the constant 5 in the code is for. A late answer of
the backplane taken by the next exchange has a wrong length, so it is
"unanswered" for `fan_ctl` and a pass without effect for `GetBack`.

### IniFile

`iniFileOpen` and `iniFileSave` of `iniFile.c`, and the same done by hand to
`snmpd.conf` in `CSnmpconfig.cpp`: `way` says which. A directory has two names, the
file's and the temporary one, which is the same for all programs; files are inodes with
content. A request is a sequence of changes, each a load and a save: `Stat` (some callers),
`Open` (creates an empty file if there is none) or `OpenSnmpd`, `Read`, `Create`, `Flush`,
`Unlink`, then `Link` and `UnlinkTmp`, or `Rename`. `FlushFull` is a write the full disk
refuses, which nobody looks at; `Kill` may come between any two calls. The history `state`
says whether something has disturbed the file since the last whole save: nothing (`calm`),
one kill since which nobody has opened it (`killed`), anything else (`torn`).

### OnuTree

Two threads of an FSA card and the agent. `handle_onulist` is `ReadSys`, `Check` (the three
readings of the FPGA agree, `skip_onulist_err`), `Nodes` per ONU and `NodesDone`
(`processONUNodes`), `Topo` and `Tell` (`processONUTopo` and its alarms).
`handle_fifomsg` is `SnSeen`, `NameSeen`, `Raise`. Both call `Gen` (`gen_fsa_alarm`),
whose queue drops the oldest alarm when full and leaves repetitions out by `reduce_flag`.
The agent is `Poll`, `Take` or `TakeLost` (the answer to `GET_ALARMS`), `ReadList`,
`WriteList` or `ListLost` (`UpdateOnuList`), `CardUp`. Outside, `Fibres` and `Renumber`
change the tree, `OtherAlarm` fills the queue, `Restart` starts the card's program again.
The history `loss` says what was lost since the agent last read the list, `overtaken` which
ONUs have come again between the change of their name by `handle_fifomsg` and its alarm:
`ONUNameUpdatedFlag` then says that a name is known which has just been cleared.

### OnuPrograms, OnuFifo

`OnuPrograms` gives for each request about an ONU the messages over the fibre that
`fsalib.c` sends for it: what each reads, sets, clears, writes back as it was, whether its
answer is waited for. Only `setONUStorm` depends on the value asked for: it writes the
threshold together with switching the control on and not otherwise. `OnuFifo` carries the
programs out. The main thread is `Call`, `Send`, `WriteFifo`, `Take`, `Timeout` (three times
100 ms), `Store` (`updateONU...CfgInDB`). `WriteFifo` is the write in the loop of
`send_fifomsg_waitrsp` that the device takes (`sent`); one it does not take changes nothing, since
the loop then neither waits nor counts the try. Elsewhere a failed write ends the request
(`Send`). `handle_fifomsg` is
`Deliver` and, when an ONU says that it has started, `Restore` (`downloadONUCfg`, which
nobody waits for). The ONU is `Answer`, `Reset`, `SwitchOff`, `SwitchOn`, `Unheard`,
`Count`; `Lose` loses a message. A register is a set of fields of one bit, enough to see a
field that somebody else's write changes; reading a counter clears it. A message carries
`tag`: whether it belongs to the message the main thread waits for now, so that a mixed-up
answer is seen.

### CardSettings

The settings of FE8 and FSA600 cards are in the card, in the agent's memory and in tables.
Each handler of `ProcessMsg` that changes them, and `configFE8Card`,
`configFSA600AndRMT` for a card just found, is a sequence of steps, each told whether it
depends on the earlier ones having succeeded; that order differs from handler to handler
and is what the module is about. A step is `Skip`, `Exchange` (`Heard`, `Unheard`,
`Mixed`: a late answer taken for that of the next), `Memory`, `Reply`, `Database` or
`DatabaseFails`; `End` ends the job. `Pull`, `Insert` and `Restart` come between any two
steps, `Notice` and `Discover` between two jobs. The histories `wanted` (what pages
were told), `untrue` and `synced` say for which parts the copies are meant to agree.

### AgentRequests, AgentCommands, PageRequests, BusRequests

`AgentRequests` has one definition for each function of `message_proc.c` that makes a
request: its code, its deadline, the lengths of answers it accepts. `AgentCommands` has one
for each command `ProcessMsg` knows: the body it accepts, the request it makes or that it
asks no card, the body of its answer. `PageRequests` has, for each action or flag of each
class of `Web/cgi` that asks the agent for something, the sequence of commands with the
bodies it sends and the lengths it expects. Bodies are told apart by their packed length.

`BusRequests` puts them on a bus, in ticks of 20 ms. The agent waits for a page
(`Page`, `Serve`, `NoPage`) and every fifth loop looks for or polls the card (`Check`);
sending drops what has arrived (`Send`), then it waits (`Take`, `Timeout`). The FSA card
takes one request after the other out of its buffer (`Start`) and answers when its work is
done (`Finish`); how long that is, `Work` gets from the programs of `OnuPrograms` and from
what the ONU is like: prompt, switched off, or flaky (answers when asked for the third
time). Another card answers at once (`OtherAnswers`). `Tick` lets time pass when nobody has
anything to do at once. The history `calm` is false from the moment something happens that
is known not to fit until everything that came of it is over (`Settle`).

## 3. Runs

Each run is one question; a run that is about what must happen in the end has fairness
(below). All runs check deadlock but three: in `fifo`, `settings` and `bus` the requests to
come are finite (`CHECK_DEADLOCK FALSE` in their configurations), so the system may have
nothing left to do.

| Run | Instance | Shows |
|---|---|---|
| `pipe_exclusive` | 3 clients (symmetric), 2 calls told apart, 1 idle pass of slack, no fault | no needless repair of the semaphore; refinement of `CommandService`: calls one at a time, each with its own answer |
| `pipe_recover` | 2 clients, 1 killed, 1 late answer | `SafeUntilFault`: exclusion and own answers up to the first fault; the semaphore of a killed client is freed; every call returns |
| `cards_safe` | 2 slots (one the agent's own, probed as the Gigabit switch), types FE8, EPN, GE8, 2 plugs, 1 bus fault, 1 database failure, 1 click | table and alarms and page agree; types are right; alarms are filed under the right card; offline means gone |
| `cards_live` | 3 slots, 1 plug, types FE8, FSA, GE8 | cards are found and missed, the page catches up, alarms arrive |
| `refresh` | 2 sessions with ids of their own, 1 view, 2 changes, 1 lost call, 1 suspended browser | a change stays flagged until told; only idle clients are purged; a stale page is reloaded |
| `uplink` | 1 ONU with 2 inputs, 2 servers, rings of 3, 2 changing reports | sockets are timed, a server that missed nothing knows all, everything is reported, and the thread comes to rest |
| `fans` | 2 fans, an automatic and a manual configuration, two temperatures, one each of: change of temperature, change of configuration, restart of agent, of backplane, lost command, broken fan | what is shown was seen; the wanted fans are those the configuration calls for; no working fan is called failed; in the end fans do what they should or are shown as failed |
| `ini_save` | 2 programs, one that looks for the file first, 5 inodes, 1 key, 3 requests, 1 kill, 1 full disk | the file is what was last saved; a kill loses no more than the change under way |
| `tree` | 2 ONUs, 6 layouts of two fibres, a queue of 2, 1 alarm per answer, 1 event | once all events are told, the table is the tree; and that happens |
| `fifo` | 15 sequences of up to 3 requests, 2 events (lost message, late answer, ONU off, failed statement), any write not taken, 1 counted byte | every answer is that of its message; the settings that are written reach ONU and table; no count is made twice; every request ends, or the device takes nothing any more |
| `settings` | 2 ports of an FE8 card, an FSA600 card with its remote unit, 2 values, 3 requests, 1 pull, 1 fault | tables have what pages were told; card, memory and table agree |
| `bus` | every page by itself, and pages that ask long things of the FSA card against others; ONUs prompt, off and flaky | in calm every page gets its own answers, of the lengths it takes, and the card answers every poll; what comes from an idle card is the answer; a card declared gone is found again |

The type invariants (`TypeOK`) of eight modules are proved (section 4); that of `OnuFifo`
holds on the instance of `fifo`. None is in a run. Every property of the table is refuted by a plausible bug in the code's model
(`PROJECT.json`, mutants).

### Why these bounds are enough

* *CmdPipe.* The semaphore and the FIFOs treat clients alike, two clients can
  conflict and a third one can profit. A call number modulo 2 tells this call's
  answer from the last one's. `DeadlockLimit` keeps its real value; `SemTries`
  only has to be more than one.
* *CardMgmt.* All tests concern one slot and its neighbour in the scan; two slots
  make the scan wrap, three let `check_cardUP` stop after two silent slots with one
  left. Two plugs give a card replaced by another. Faults and database failures
  come one at a time; the theorems hold for any number.
* *RefreshCheck.* `Idle` and `Gap` of 1 are the closest race between poll and
  purge. Two changes give one before and one after a question. Views do not meet except in
  the purge, and `ChangeIsFlagged` is proved for any number of them.
* *AlarmUplink.* Three places is the smallest ring that is neither always full
  nor always empty, and two reports of two inputs fill it. Timers keep their order `1 <
  ChkPoint < TimedOut` and the idle time their ratio to them.
* *FanControl.* Fans do not influence each other except through the one command
  they share, which two fans show. The temperatures are below and at the upper thresholds;
  the frost and the third configuration are in the configurations of section 6, and the
  theorems hold for any.
* *IniFile.* Two programs are enough to overlap; five inodes are what two programs and two
  names can hold and one more. The theorems hold for any number of programs, keys and kills.
* *OnuTree.* Two ONUs make every kind of topology the code tells apart (ring, ring open in
  one direction, near and far end, dark). A queue of two overflows. `MaxError` is 1 so that
  a doubted ring is doubted once; `TreeFollows` is proved for any values.
* *OnuFifo.* The sequences pair the requests that share registers, tables or types of
  answers; requests that share none cannot disturb each other, since the ONU keeps nothing
  else. Two events reach each message of each request, and the same message twice.
* *CardSettings.* Ports do not influence each other except in `C_CARD_SET`, which two show.
  Three requests let a first one be undone, a second one fail and a third one follow. The
  theorems hold for any ports, values and numbers of requests and faults.
* *BusRequests.* One request of a page at a time is on the bus, and a late answer meets at
  most the requests that follow it within 300 ms per message; two pages and the polls
  provide them. Lists have one entry where their length depends on it.

### Fairness

* `CmdPipe`: the agent's loop never blocks (its `select` has 100 ms) and a client
  in a call goes on with it. Nobody need start a call. `QuietSpec` adds that
  other inputs fall silent in the end; without it the repair can be starved (see
  section 6).
* `CardMgmt`: the agent's loop runs; the browser's `Refresh` is strongly fair
  since its request waits in the FIFO until the agent is back in `select`.
  Nothing is assumed of cards.
* `RefreshCheck`: an open page asks again and reloads when told.
* `AlarmUplink`: the thread runs. Nothing is assumed of the network.
* `FanControl`: the main loop goes round, and a sound fan follows its command.
* `OnuTree`: both threads run, messages of ONUs that are there arrive, the agent polls;
  nothing changes and nothing is lost unless it happens to.
* `OnuFifo`: both threads run, and what is not lost arrives: once its messages are taken,
  the main thread's wait is bounded by its three timeouts, whatever the ONU does. Nothing
  obliges the device to take a message (`WriteFifo` has no fairness), so `RequestEnds`
  allows a thread that writes for ever.
* `BusRequests`: time does not stop, and what can be done at once is done. Nothing is
  assumed of pages or ONUs.

## 4. Proofs

TLAPS checks every theorem for all values of the constants that satisfy the named
assumptions, which TLC evaluates on each run. `BusRequestsProofs` and `ShelfProofs` each
extend two specifications that share no variable; so that they can, `IniFile` calls what
other modules call `Init`, `Next`, `Spec` and `TypeOK` `IniInit`, `IniNext`, `IniSpec` and
`IniTypeOK`.

| Theorem | Property | Argument |
|---|---|---|
| `CmdPipeProofs!TypeCorrect` | `TypeOK` | inductive |
| `CmdPipeProofs!SafeUntilFaultHolds` | `SafeUntilFault` | `IInv`: while faultless the path is in one of the states of `Protocol`: `Free` (semaphore 1, everything empty) or `InCall(c)` for exactly one client, whose step says where its one message is: nowhere, request FIFO, agent, answer FIFO, or in its hands. Exclusion alone is not inductive: an answer must never lie in the FIFO when nobody waits |
| `CmdPipeProofs!ImplementsService` | `ServiceSpec` | `Spec /\ []Faultless => ServiceSpec`, step by step from `IInv` |
| `CmdPipeProofs!BreakOnlyOnDeadlockHolds`, `PunctualImplements` | `BreakOnlyOnDeadlock`, `ServiceSpec` | `ASSUME Punctual`: no kills, no late answers, `Slack < CheckEvery` and `DeadlockLimit >= 2` (5 and 2 in `main.c`). `PInv`: the semaphore of one call is looked at no more than once before the agent takes its request and once after it, and taking it starts the count again; once looked at, the idle passes the client has left end before the next look (`Counts`). So the agent never breaks a semaphore, and the path implements `CommandService` without assuming so. With a kill it is false: `pipe_stale_count` (section 6) |
| `CardMgmtProofs!TypeCorrect`, `ListingHolds`, `AlarmsMatchTableHolds`, `PageFreshHolds` | same names | the table is the listed cards; card numbers in `cardData` belong to their slots; the page invariant needs that every change of the table sets `dirty` or is still to be announced |
| `CardMgmtProofs!RightCardHolds`, `TypesTrueHolds`, `OfflineMeansGoneHolds` | same names | `BusInv`: what is still on the bus took a fault and names a card and its type truly (`BusTrue`), so without faults the answer is the asked card's, and with them `GetCardInfo`, which compares numbers, still learns the right type; a poll that a card in place has missed was a fault, or the card was put there unnoticed (`MissesTrue`), so two such polls in a row are two faults |
| `BusRequestsProofs!TypeCorrect`, `OnlyIdleRemovedHolds` | `TypeOK`, `OnlyIdleRemoved` of `RefreshCheck` | the idle time of a client that asks stays within `Gap` |
| `BusRequestsProofs!ChangeIsFlaggedHolds` | `ChangeIsFlagged` | `ASSUME Injective`: without it one session uses up another's flags |
| `AlarmUplinkProofs!TypeCorrect`, `SocketTimedHolds` | same names | indexes stay in their ring; a socket is opened together with its timer and closed together with it |
| `AlarmUplinkProofs!ServerKnowsHolds` | `ServerKnows` | what a server has after the alarms in its ring are sent (`Sees`) changes only with an appended alarm; one that is sent moves from the ring to the server and a cleared ring makes the server one that has missed alarms (`lost`). Indexes modulo `QSize` are computed by cases; between two scans no input is half reported (`AtRest`) |
| `ShelfProofs!TypeCorrect`, `ShownIsSeenHolds`, `ObeysUnlessRefusedHolds` | same names | obedience needs the thresholds' order (`low < high`) and the hysteresis to be re-applied at every change of configuration or temperature |
| `ShelfProofs!NoFalseFailureHolds` | `NoFalseFailure` | `FailInv`: up to the one fault the backplane drives the wanted fans and they turn when next looked at (`Follows`); while no fan has missed before (`Clear`) the fault is forgiven, and the command sent at the first miss puts it right before the second. Needs `Settle < FailDelay` |
| `ShelfProofs!IniTypeCorrect`, `FileIsLastSavedHolds`, `KillLosesNothingHolds` | `IniTypeOK` and same names | `IInv`: a program nothing has overlapped is the only busy one (`Lone`); its step says what is under which name (`InHand`); while the file is calm it is what was last saved and the temporary name is either gone or a different file (`CalmDisk`). `FileIsLastSaved` is not inductive alone: it needs that the second file is not the first one under another name when it is emptied |
| `OnuTreeProofs!TypeCorrect`, `TreeFollowsHolds` | same names | `IInv`: `reduce_flag` is only set while an alarm that makes the agent read the list is in the queue, or a full queue has lost it (`FlagTrue`); a round of `handle_onulist` goes on only if a map has changed, and tells only what has the agent read the list (`RoundTrue`); so every change of the list is read or will be told |
| `OnuTreeProofs!CalmIsTrueHolds` | `CalmIsTrue` | `CInv`: at every step of a round the list has on line whoever was on the fibres when they were last believed, but for those in `todo` (`OnlineTrue`); their network states are those of these maps, since what `processONUTopo` gives an ONU that is there does not depend on what it had (`NetOfOn`, `NetTrue`); and the names that count as known are right (`NameTrue`), as an ONU is exchanged only while it is off line. `TreeFollows` carries this to the table |
| `OnuFifoProofs!TypeCorrect`, `OwnAnswerHolds` | `TypeOK`, `OwnAnswer` | first every program of `OnuPrograms` is checked against what the invariants need of it (`Sound`): what is written back has been read by the message before, a counter that is read has been selected by the message before, no message writes what an earlier one has set. Then `AInv`: while an own answer is still possible (`CleanOwn`), nothing of the awaited type is on the fibre but the message waited for and its one answer |
| `OnuFifoProofs!NothingCountedTwiceHolds` | `NothingCountedTwice` | `EInv`: an own answer says that its message has been carried out and nothing else is on its way (`Echo`). `SInv`: every byte is in a counter of the ONU, in a sum, or in the one message between them (`Sums`), so an answer lost takes it along but none is added twice. Until the device has taken the message that reads a counter, nothing of it is about (`Unsent`) |
| `OnuFifoProofs!SettingsKeptHolds`, `TablesTrueHolds` | `SettingsKept`, `TablesTrue` | `VInv`: a field the request has set already, or does not touch, has its wanted value once all that is on the fibre has been carried out, whatever of the rest is lost (`Sure`); what the main thread has read to write it back is what was wanted (`GotTrue`); a row is changed only after the whole program was answered (`TablesKept`). When the fibre is empty that is the property. The threshold is wanted from a request only if the control is switched on, as only then is it written |
| `CardSettingsProofs!TypeCorrect`, `RowsRightHolds`, `SameEverywhereHolds` | same names | `IInv` speaks of the steps a job has still to take: each is one of its handler (`JobOK`); nothing touches a unit after its row is saved, and it is saved with the value it was told (`Order`); a unit no step fills any more has its value in memory (`Filled`), one whose row is still to be saved is still to be told or has been (`Told`), and one already saved has in its row what the page asked for (`SavedOK`). Units a job does not concern stay in step (`SyncedOK`), and rows have what pages were told but for those this job has saved (`RowsMid`), which `End` puts right. Both properties speak of the time between two jobs, where nothing is left to do, and neither says anything of the middle of one, where they may fail |
| `BusRequestsProofs!IdleMeansOwnHolds` | `IdleMeansOwn` | `Inv`: if the card was idle when the request was sent, all that is on the wire, in its buffer or in its hands belongs to that request, since sending has emptied the wire and another card has been waited for. The types are kept as weak as this needs; any pages may be asked for together |
| `BusRequestsProofs!CalmIsRightHolds` | `CalmIsRight` | first, page by page, what may be asked is `Good`: the agent takes its body, and the length of what an FSA card answers is one that the agent and the page take (`AllGood`). Then, program by program, none of `OnuPrograms` waits for more than nine messages or goes on after more than its first is given up (`Brief`), so what is asked of an ONU that answers, or is off, is done within its deadline (`WorkInTime`). Then `CalmInv`: while all is calm the one request is in the buffer of the card, in its hands with less left to do than there is time, or answered on the wire, and else nothing is on its way |

Only model-checked:

* all liveness: fairness and `ENABLED` are beyond the prover. Every other property of the runs is
  stated by a theorem.

No module declares a `RECURSIVE` operator, so none is closed to the prover.

## 5. What is not modelled, and why

*String handling and layout*: the byte framing of the bus (`BusRequests` and `CardMgmt` take
whole frames; a cut or shifted frame is not seen), the ini parser, HTML, languages and
scripts.

*Parts that hold no state or order of their own*: `sw_ctrl.c` (register transfers), the log,
the LCD, the video switch (one UDP request at a time), the encoder and decoder boxes (they
start an external player), vendored code and manual test programs. `data_pipe.c` copies bytes
between a UART and a UDP port.

*Code that is not built*: `data_transmit.c` does not compile; the MTT commands name members
that `msg.h` declares twice (1022-1117) or not at all (`message_proc.c:6030`);
`C_ENCODE_CTRL` and the `C_ONU_GETLIST` of `CTopoView` are commented out; `CResetPerf`,
`CResetFE8Perf` and `CGetPerfFe8` are dispatched by no line of `CgiMain.cpp`.

*Left out of modelled components*:

* CmdPipe: `check_data_transmit`; bytes of a message written in more than one piece.
* CardMgmt: the paging of the EPON list, the alarm baselines of FE8 and GE8 cards. A
  database that does not open in the middle of `check_cardAlarms` ends the check of all
  slots (`alarm_proc.c:654`), the model goes on with the next slot; the list of ONUs
  asked for after a poll, with the flags it sets for the topology pages (`709`, `969`),
  is not a step of its own. After an insert that fails, `card_mgmt.c:1369` formats an
  `int` with `%s`, which is taken for a log line.
* CardSettings: the admin state of a card apart from that of its ports; the memory of FSA600
  and remote units and requests with a `setFlag` for only some fields; `C_FSA600_RESET` and
  `C_FSA600_RESETRMT`; names; a card exchanged for one of another type before it is missed;
  restarts of the remote unit alone.
* BusRequests: `UpdateOnuList` as an exchange that follows a poll, the probe that takes slots
  in turn, late answers of cards other than the FSA card and what those cards check of a body,
  `C_CARD_RESET` of the FSA card. The agent's work with the database is taken to fit in a tick.
  Where the agent does not look at a length, other cards are taken to send the right one.
* OnuFifo: the requests about the card itself (`C_CARD_GET`, `C_CARD_SET`, `C_FSA_GET`,
  `C_FSA_SET`), `resetPortCount`, `getPortCount`, `setONUID`, `sendRSData`; requests
  that set only some fields. Settings to be restored that the device does not take count
  as lost on the fibre (`Lose`); the registers of the bandwidth that `buildFEPortSetCmd`
  writes for some values only are part of the one field `port`. A card whose FPGA takes
  no writes is not in `BusRequests`: the times there are of one that does.
* OnuTree: which ONU a ring alarm names, the alarm table, the DSN.
* IniFile: an `fopen` that fails, two files longer than a buffer written at once, a loss of
  power, which keeps less than a kill.
* Web: session files and their locks, pages that only read the database.

## 6. Where the code does not do what it says

Each row is a property of its module that TLC refutes under the configuration named here,
`tlc -continue -config X.cfg MCmodule` where it has more than one. The properties of the
passing runs exclude exactly these cases, by name.

| Configuration | Property | What happens |
|---|---|---|
| `pipe_misaligned` | `AnswersRealign` | the answer left in the FIFO by a killed client is taken by the next call, and every later one is shifted (`Comm.cpp:86`, `100`) |
| `pipe_recover` with `SPECIFICATION FairSpec` | `SemaphoreRecovers` | any input sets `sem_deadlock` to 0 (`main.c:273`), so steady traffic on another descriptor keeps a dead client's semaphore taken |
| `pipe_stale_count` | `BreakOnlyOnDeadlock` | the count survives the repair it led to (`main.c:333`), and the next holder is robbed at the first check |
| `cards_doubts` | `AnsweredMeansListed` | a removed card asked for by an old page is in the cache (`message_proc.c:154`), is therefore not probed, and never listed (`card_mgmt.c:1304`) |
| `cards_doubts` | `ResponseIsOwn` | only the destination is compared (`serial_comm.c:552`): the late answer of a card is filed under the next |
| `cards_hang` | `AgentYields` | `UpdateEPOnuList` repeats until answered (`alarm_proc.c:300`): an EPN card pulled meanwhile hangs the agent, although `card_mgmt.c:1324` promises to yield |
| `refresh_doubts` | `NewClientIsCurrent` | a change between loading a page and its first question is lost (`refresh_check.c:59`) |
| `refresh_doubts` | `OwnFlagsOnly` | `substr(0,9)` cuts off the address that makes session numbers differ (`CRefreshCheck.cpp:37`) |
| `uplink_doubts` | `HeldLongEnough` | `ChgCount` counts per ONU (`proc_alarm.c:282`), so a fresh change is raised with an old one |
| `uplink_doubts` | `DiscardsOldest` | a full ring with `head` not 0 loses all its alarms instead of the oldest (`proc_alarm.c:309`, `312`) |
| `fans_doubts` | `Obeys` | a refused `SetShelf` has already changed `fan_control` (`back_mgmt.c:181`) |
| `fans_doubts` | `FailureIsAlarmed` | the fan is marked failed before the alarm table is open (`back_mgmt.c:492`) |
| `fans_abandoned` | `TurnsWhenMended` | a fan shown as failed is skipped (`back_mgmt.c:479`), also after it was repaired and the backplane restarted |
| `ini_doubts` | `NeverVanishes` | two saves share the temporary name: the second one's `unlink` takes the file the first has just put there, and its own second file is gone (`iniFile.c:376`) |
| `ini_doubts` | `SettingsSurvive` | after a kill between `unlink` and `link` the next reader finds no file and creates an empty one |
| `tree_doubts` | `NumberTrue` | both threads write `node_sn`; an alarm with a number that has been overwritten meanwhile is the last one told |
| `tree_doubts` | `RestartIsHarmless` | ONUs that went while the card restarted are missed by nobody and stay on line in the table |
| `tree_doubts` | `NamedIsKnown` | the flag is set after the alarm and outside the lock (`fsalib.c:974`): an ONU that went and came in between has no name, and is never asked again if the query of its coming is lost. The proof of `CalmIsTrue` failed at this step; TLC then found it with four changes of the fibres |
| `tree` with `MaxError = 2`, `MaxEvents = 3` and only `INVARIANT SameErrorEnsured` | `SameErrorEnsured` | an error is believed after fewer equal readings than the comment says (`fsalib.c:853`; the count goes on from an earlier error, `746`) |
| `fifo_doubts` | `NothingSpoilt` | `setONUStorm` and `setONUPortMirror` write registers with other settings and do not keep those |
| `fifo_doubts` | `LateIsHarmless` | the answer to a message given up is taken for that of the next of its type and written back (`fsalib.c:341`) |
| `fifo` with `Scripts <- Perf`, `MaxEvents = 0` and only `PROPERTY TxComplete` | `TxComplete` | what was sent with high priority is not counted: the low-priority register is read twice (`fsalib.c:4061`, against the comment in 4060) |
| `fifo` with only `PROPERTY ThreeTries` | `ThreeTries` | a write that fails is tried again at once and not counted (`fsalib.c:328-351`): while the device takes nothing, the request never ends |
| `fifo` with only `PROPERTY ThresholdSet` | `ThresholdSet` | with the control switched off the threshold is not written and success is returned all the same (`fsalib.c:2887-2902`) |
| `settings_doubts` | `DownKept` | the row of an FSA600 card gets the upstream setting twice |
| `settings_doubts` | `PortsComeBack` | a slot that never had a row in `FE8Card`, which only `C_CARD_SET` writes, is not configured when its card comes back; nor is a card exchanged before it was missed |
| `bus_doubts` | `PresentIsListed` | a request about a flaky ONU takes the card longer than two polls: it is declared gone |
| `bus_doubts` | `AlwaysOwn` | only address and length are compared: the empty answer to one command is taken for that of the next |

Met while reading, and without a property of their own:

* Resetting a counter is allowed 20 ms by the agent (`message_proc.c:2558`); its eight
  messages to the ONU take eight looks of 20 ms. The page shows an error though it was done.
* `GetOnuList` compares with `n` entries what the card sends as a count and `n` entries
  (`message_proc.c:505`), so it always fails, and its error code is told as the count (4715).
* `CCardChg` returns an undefined value when an action matches no branch; the agent answers
  `C_SW_GETALLMC` with a length of 4 whatever it found.
* Forms that are several commands are carried out in part when a later one fails.
* The agent opens the dynamic database with no busy timeout while pages hold read locks on it;
  `CFsaCard` holds one across its commands to the agent.

## 7. What is left

1. `SerialFrame`: `msg485_receive` on a byte stream, in place of whole frames in
   `BusRequests` and `CardMgmt`.
2. `Sessions` (session files and their locks) and pages that read the database while the agent
   changes it; `DataPipe`; `SvcSwitch`.
3. The paging of EPON lists with their database; the alarm baselines by card type.
4. Proofs: none of the runs' safety properties is without one. `OnuTree`, `CardSettings` and
   `CardMgmt` have no abstract specification of their own yet, as `CmdPipe` has.
