# TLA+ models of zenux-services

zenux-services are the services of ZERA's measuring devices (COM5003,
MT310s2, MT581s2, ...).  They run on the ARM side of the device and stand
between the hardware (FPGA, DSP, I2C) and the measuring modules of
zera-classes, which are processes of their own and talk SCPI over protobuf
and TCP to the services.

This directory holds TLA+ modules for the services' logic, configurations
that model-check them with TLC, and theorems checked by TLAPS.

## 1. The system

Each service is one process with one Qt event loop.  A command, a disconnect,
a timer or a signal from the hardware is handled to the end before the next
one.  So nothing inside a service runs concurrently; what runs concurrently is
other processes (clients, the resource manager), the FPGA, the DSP, the micro
controllers and the people who plug devices, and every handler relies on state
that earlier handlers, of other clients, have left behind.  What persists is in
EEPROMs, the flash of a micro controller, a cache file and the memory of the
DSP.

| Component | State | Operations | Interacts with | Modelled |
|---|---|---|---|---|
| sec1000d: channels | per channel occupied / client id; hash client -> channels; hash peer -> clients | SET, FREE, START, STOP, disconnect | clients, FPGA registers | yes |
| sec1000d: interrupts | FPGA interrupt registers, notification values, pipe | signal handler, pipe reader, INTACK | FPGA, PCBServer | yes |
| PCBServer (zenux-service-common) | clients waiting for a notifier, registration list, subscribers per delegate | REGISTER, UNREGISTER, RELEASE, disconnect, value changes | sec1000d, mt310s2d, com5003d | yes |
| zdsp1d: clients | three collections of clients, interrupt id counter, super client | first command, disconnect, RELEASE, DSP interrupt | DSP, clients | yes |
| zdsp1d: command lists | lists of each client, two banks in the DSP, selector | CYCLIST, INTLIST, SET, CLALL | DSP (runs in parallel) | partly |
| zdsp1d: variables | section and name hash of each client, global variables | VARLIST, SET, READ, WRITE | command lists, DSP memory | yes |
| zdsp1d: compiler, access to variables | none | commands to opcodes; read and write of values | DSP device node | partly |
| client libraries (zenux-service-interfaces) | connections by address, clients by uuid, message numbers | connect, release, send, receive | all services | yes |
| resource manager client | connection, resource catalog, ident | connect, register resources | external resource manager | yes |
| start-up (mt310s2d, com5003d, sec1000d, zdsp1d) | state machine, pending resources, retry timer, flash file, heart beat wait, DSP | configuration, program the controller, boot the DSP, connect with retries, register | everything below | yes |
| clamps | status mask, clamp by channel, catalog; ranges in the lists of two channels | plug, unplug, read EEPROM, write type | senses, adjustment | yes |
| hot-pluggable controllers | controllers by channel, running boot loader stops | plug, unplug, stop of the boot loader | I2C | partly |
| asynchronous controller I/O | queue of tasks, heart beat wait | enqueue, finish, time out | I2C | yes |
| adjustment | nodes, coefficients, states, header, checksum, EEPROM, cache file | set, compute, import, export, reset, read | EEPROM, permission | yes |
| sense, source, fout, ... interfaces | selected range, mode, catalogs, authorization | SCPI get and set | micro controller, adjustment | partly |
| SCPI trees | none | dispatch | clients | partly |
| settings / XML | constants | parse | | no |
| i2ceeprom | none | read, write by page | adjustment | partly |
| source-control, log services, boot services | none to speak of | | | no |

### What is hard

* **Many clients, one connection.**  The proxy opens one connection per process
  and address and shares it among clients; a service knows peers and client
  ids, and both come and go: with the connection, or one client at a time.
* **State that outlives its owner**: hash entries, latched interrupt bits,
  programs in the DSP, interrupt ids that are used again, subscriptions of
  clients that are gone.
* **Hardware in between**: an interrupt between read and write of a register,
  many signals for one byte in the pipe, a DSP that has not taken the command
  before, a range change that the micro controller answers later.
* **One for all**: MEMORY:SET of one client compiles the lists and moves the
  variables of all of them; it can fail because of another client's list.
* **Order**: registrations are paired by arrival, interrupts come in batches,
  delayed answers come after later ones, a notification passes an answer.
* **Plugs**: people plug and unplug devices between any two of the accesses
  the service makes because somebody has plugged something; accesses fail.
* **Things written in part**: an EEPROM, a flash, a program in the DSP.
* **Two sides of one agreement**: what a client interface sends, how it
  converts the answer, and what the service takes and gives.
* **Borders**: all channels occupied, id counter at its end, batch too long,
  variables growing towards each other, operands of 16 bits, retries used up.

PROJECT.json lists each of these at its line under "hazards".

### What makes the components correct

* channels: a grant is kept until given back; nothing is lost; a channel never
  changes hands while occupied; free channels do not measure;
* notifications: who registers is the one who is told, and only for what it
  asked; each interrupt reaches the owner; no bit stays latched untold; who has
  registered and read knows the value;
* connections: a client is told the truth about its connection, answers find
  the command they belong to, nothing refers to who is gone;
* commands: every method of an interface has a node in each service it is meant
  for, in a form the node takes, and a failure is told as one;
* DSP clients: collections agree, no deleted client is reached, batches are
  delivered complete and in order, the DSP always gets its acknowledge;
* command lists: the DSP only ever runs two lists that belong together, and
  never a bank that is being written, unless uploads have just failed;
* variables: what a running program uses does not overlap; a module reads back
  what it wrote; the program works on the words the module means;
* start-up: a service takes clients when it can serve them, and a start ends;
* plugs: status mask, clamps, ranges and catalog agree; a channel is at one
  stage on its way to a controller; controllers come and go announced; in the
  end the service knows what is plugged;
* measuring: what clients are told about range, mode and channels is what the
  hardware has; the authorization to adjust follows the jumper;
* adjustment: what was acknowledged is what the next start reads; data of
  another device are not taken for one's own before an export stores them as such.

## 2. Modules

| Module | Models | Checked by | Proofs |
|---|---|---|---|
| Lists | lists that lose entries, with the entries that stay in their order | (in its users) | |
| ChannelOwnership | abstract: what sec1000d promises about channels | | |
| SecResource | sec1000d: SecMainAndChannelInterface, SecChannel (ownership) | MCSecResource | SecServerProofs |
| SecNotify | PCBServer, NotificationValue: one-parameter registration | (in SecServer) | |
| SecServer | SecResource + SecNotify + FPGA, signal, pipe | MCSecServer | SecServerProofs |
| ZdspClients | ZDspClientContainer and the commands that change it, DSP interrupts | MCZdspClients | ZdspClientsProofs |
| CmdListSwitch | abstract: what an upload promises | | |
| DspUpload | uploadCommandLists, sendCommand2Dsp, and the DSP's side | MCDspUpload | DspUploadProofs |
| DspInternals | dspapi: the DSP's own variables, sections, offsets, for both DSP types | (in DspMemory) | |
| DspCompiler | DspVarResolver, DspCmdCompiler: names, parameters, operands | (in DspMemory) | |
| DspVarGroup | DspVarGroupClientInterface and DspVarDeviceNodeInOut: values to and from the DSP | (in DspMemory) | |
| DspMemory | VARLIST, CYCLIST, INTLIST, SET, CLALL: addresses, compilation, the program | MCDspMemory | |
| HotPlug | mt310s2d: critical status interrupt, cClampInterface, cClamp (ranges), HotPluggableControllerContainer, I2cCtlBootloaderStopper | MCHotPlug | HotPlugProofs |
| Proxy | Zera::Proxy: connections shared by clients | (in ServiceClients) | ServiceClientsProofs |
| Subscriptions | ScpiDelegate, NotificationString: registration with notification ids | (in ServiceClients) | |
| ServiceCommands | the commands of the client interfaces and how answers are converted | (in ServiceClients) | |
| ServiceTree | the SCPI nodes of all services, forms and kinds of answers | (in ServiceClients) | |
| ClientMessages | the message each method of the interfaces sends, against ServiceTree | (in ServiceClients) | |
| ServiceClients | Proxy + Subscriptions + ClientMessages + message numbers, synchronous and delayed answers | MCServiceClients | ServiceClientsProofs |
| ServiceStartup | state machines of com5003d, mt310s2d, sec1000d, zdsp1d; RMConnection, cResource; flash update, heart beat wait; boot of the DSP | MCServiceStartup | ServiceStartupProofs |
| Sense | range, mode, catalogs, availability, authorization of mt310s2d and com5003d | MCSense | SenseProofs |
| AdjustmentMemory | EEPROM, AdjustmentEepromReadWrite, cache file | (in Adjustment) | |
| Adjustment | adjustment data of device and clamps: SCPI, XML, export, import, state | MCAdjustment | AdjustmentProofs |

### SecResource

`m_bSet`, `m_ClientId` are the members of SecChannel, `m_ClientECalcHash` and
`m_peerClientsHash` those of SecMainAndChannelInterface.  `SetChannels` is
scpiSetChannels: the first n free channels or "busy"; it overwrites the hash
entry of the client and appends the client to the list of its peer.
`FreeChannelsFromAClient` frees what the entry names, without removing it.
`Disconnect` is onProtobufDisconnect: freeChannelsForThisPeer goes through the
list and gives up at the first client without entry (`ClientsFreedWith`).
`granted` is a history variable: what a client was told it owns.  Text
arguments that are out of range are answered without any change and are left
out.

`SecSpec` lets every client send everything.  `PoliteSpec` adds the protocol of
the measuring modules: ask when you have nothing, free and operate what you
were given.

### SecNotify and SecServer

A NotificationValue is the set of its bits that are 1.  SERVER:REGISTER puts
the client at the end of `m_notifierRegisterNext`; the query that follows
emits a signal and the first one waiting is registered
(`OnEstablishNewNotifier`).  Clients of sec1000d register interrupt registers
only, and those have a notifier.  UNREGISTER, RELEASE and a disconnect remove
the entries of a client or a peer: `Keep` is the list that is left, in its
order.  `SetValues` and `IrqsSent` are NotificationValue::setValue and
onNotifierChanged.

SecServer composes both.  `HwInterrupt` sets a bit and puts a byte into the
pipe (SigHandler), unless the pipe is full.  `SECIntHandler` reads one byte,
then the registers of all channels.  INTACK is two steps,
`ResetInterruptRead` and `ResetInterruptWrite`, because the FPGA can set a bit
in between; it is the only handler that is split.  `prepared` and `told` are
history variables.

### ZdspClients

The container is one record, because some handlers change it twice (create
the client on its first command, then delete it when its SET fails).
`program` holds the interrupt ids compiled into the DSP's program and, as
history, for which client.  `buffer` is CTRLCMDPAR: the DSP does not post again
before CTRLACK.  `HandleDspInterrupt` is the handler with both loops;
`MayCrash` stands for dereferencing a null pointer, which may or may not end
the service.  Lists that lose entries are chosen from `Kept` of module Lists, the
sequences that have the other entries in the same order: the proofs can reason
about it.

The telnet console is a client without a peer.  An interrupt for it, its own or
one of a program that outlived its client, goes to the null peer
(`OnlyTelnetCrashes`).  `OrderlySpec` creates no client when the id counter is
at its end; `ZdspSpec` does, and the client that gets an id in use is refused
(`Unserved`).

### DspUpload and CmdListSwitch

`step` is the device access the handler makes next, so that the DSP can move
in between; a handler still excludes other handlers (`step = "idle"` in the
guards of `BeginUpload`, `BeginOther`).  Each access may fail.  `bank` holds,
for each list of each bank, the number of the upload it comes from; a write
that fails leaves `Torn`.  The DSP takes a command when the interrupt is
requested (`DspTake`) and changes over when it is done (`DspFinish`); that
side is derived from how the service uses it: InProgress, CmdDone, command 7.

`SyncedSpec` assumes of the applications that they send no command before the
DSP has done the one before: the comment at zdspserver.cpp:443 leaves this to
them, and without it a second command overwrites the first one's parameters.
Under this assumption the branch "busy" of sendCommand2Dsp is never taken.

Nothing is assumed of failures.  The selector is flipped before the writes and
not flipped back when one fails, so that the next upload writes into the bank
the DSP runs.  `failures` is history: how many uploads, the last ones in a row,
have failed.  `ActiveBankIsWrittenAfterFailure` says that the running bank is
written exactly when this number is odd.  CmdListSwitch, the abstract
specification, has a step for it, `Overwritten`, that may leave anything in the
lists that run; otherwise both lists are of one upload and are exchanged in one
step (`SwitchTo`), until the first failure and again when an upload has succeeded.

### DspInternals, DspCompiler, DspVarGroup and DspMemory

DspInternals is the table of the variables the DSP has itself and of its
memory sections, for both types of DSP the service knows.  `LayoutWorks`
states what the rest relies on: sections do not overlap, and offsets from the
bases fit into 16 bits.  TLC evaluates it for both tables.

DspCompiler says what a name means to a client (`GetDspVar`: its own variable,
the last of the name, or else the DSP's) and how a command becomes words: up to
three operands of 16 bits, or one of 32, relative to the base that
USERMEMOFFSET or DSPMEMOFFSET has set.  A command is its class, its parameters
and whether the client's interrupt id is put in (`modify`).

DspVarGroup follows the text of MEMORY:WRITE and MEMORY:READ through both
sides, the module's variable group and the service's DspVarDeviceNodeInOut.  A
word keeps the type it was written as.

DspMemory composes them.  `m_userMemSection[c]` is the variable list a client
sent last, with the addresses of the last compilation; `m_varHash[c]` what its
names mean.  The two are the same objects unless a list was refused
(`actualized`).  `CompileAll` folds `CompileClient` over the clients in the
order they came, and `CalcVarAddress` over the variables of each: the three
pointers and the table of global variables run through.  It stops at the first
client that does not compile, and a SET that fails deletes the client that sent
it, although the addresses of those before have moved.  An empty command list
is not compiled: what it was compiled to before goes into the program again
(`leftover`).  `loaded` is history: what the last SET that succeeded was about.

`WrittenIsRead` is an invariant over a write and a read that could be made in
each state: no module needs to be modelled for it.  `RunsWhatWasSent` executes
the program as the DSP would as far as bases and operands go.  Both leave out
clients that have changed something since the last SET; clients that send a
program send no list that is refused.  The upload is one step here.

A global variable is placed where the pointer of the globals is, and then the
pointer moves down by the size of the variable.  So the room it has lies below
its address and its words lie above: a variable of several words runs into the
aligned segment, when it is the first one, or into the global variable placed
before it (`Overruns`).  `VariablesDisjoint` and `WrittenIsRead` except these words
and nothing else.

### HotPlug

`pc` is the I2C access the service makes next: read and reset the critical
status, read the mask of devices, then the accesses to the EEPROMs and to the
controllers, and, once, enabling the interrupt at the end of the setup
(`starting`).  `Plug` and `Unplug` may come before each of them.  The loops of
actualizeClampStatus and startActualizeEmobControllers over the channels are
one step each: what is done for a channel depends on this channel and the mask
only.  Other handlers - the boot loader's timer (`OnAppStartWaitFinished`),
SCPI commands (`WriteType`, `ReadVersions`) - run when `pc = "idle"`.

`plugged`, `flash`, `inBoot` are the world; `critStatus` and `irqOn` the micro
controller, of which the code only shows that it latches the bit and raises a
signal.  Whether a bit that is latched already raises one more is left open
(`Raise`, `EnableClampInterrupt`).  `m_clampHash` maps a channel to its clamp's
type and to whether it once got a secondary channel (m_sChannelNameSecondary is
never cleared); `ranges` holds the types whose ranges are in the lists of a
clamp's first and secondary channel; `catalog` is m_notifierClampChannelList.
The clamp catalog's query computes the same value again and is left out.

An access fails by `Fault`; in a round of accesses at most one does
(`FaultAt`).  `lost` and `unnoticed` are history: an access failed and nobody
tries again; a device took the place of another between two masks, which
therefore look the same.  `ComesUpToDate` excepts both.

### Proxy

One client object per measuring module, one `NetPeer` per address, shared.
The two ends of a connection learn of its loss separately: `m_peerState` is
what the process sees, `serverSees` what the service still holds.  `told` is
the last signal a client emitted, `startRequested` whether
startConnectionSmart was called for it: a client that joins an open connection
is told only when it asks.  A peer is deleted by the event loop after its last
client has gone (`deletedLater`, `DeletePeer`).

### Subscriptions

`m_subscriberVector` and `m_sValue` are the members of ScpiDelegate and
NotificationString.  A client is in a list once, with the flag of its first
registration.  `NotifyAllSubscribers` is the assignment of a NotificationString,
`ForceTrigger` tells a value that has not changed.

### ServiceCommands, ServiceTree and ClientMessages

Three tables and the functions over them, translated from the interfaces.
ServiceCommands lists, for the interfaces to the PCB services, the DSP and the
SEC, each private method with the enumerator it puts under its message number,
and `Conversion`, what receiveAnswer makes of the answer.  ServiceTree lists
the nodes of the four services with their command codes, and per code the
forms it takes (query, parameter, several, none) and the kinds of answers it
may give.  ClientMessages lists the node and the form each method sends, and
joins the three: `IsServed`.

`Exceptions` names the pairs of call and answer of which the module learns
something else in this code:

* readData sends a query without the parameters the service wants: always nak;
* getStatus answers an unsigned number that does not always fit into an int;
* accumulator values that were not polled yet are empty and read as 0;
* a memory read that fails in the service is told as done;
* a text behind a failed activation of a controller's interface is told as done.

### ServiceClients

Proxy, Subscriptions and ClientMessages together with the queues of each
connection, the message numbers (`m_nMsgNr`, never 0, counted modulo
`MsgNrLimit`), and what the service does with a command: answer at once, or
hand it to the controller and answer when that is done (`delayed`, `CmdDone`),
so that a later command is answered first and a notification passes an answer.
The only controller in the repository that needs this is the one of the tests,
testlib/micro-controller-io/testi2cctrlranges.cpp; the code that waits for it is
in the services.
`heard` is what a module knows that follows the protocol: register, then read;
read again after a notification without value.  Such a module waits for the
answers it is owed before it registers again.

### ServiceStartup

One module for the four services; `kind` says which.  A QStateMachine takes one
posted signal at a time; `Posting` drops what no transition of the active state
waits for, and `Transition` runs the handler of the state it enters.  The
handlers that program the controller and set up the server are steps of their
own, because the process may die within.  com5003d flashes its relay controller
when a flash file is there, which is removed when the controller has been
started with it; then it waits for the heartbeat.  com5003d and mt310s2d connect
to the resource manager, with a limited number of retries, and register a
resource per frequency output.  zdsp1d resets and boots the DSP, unless a
debugger does.  `Crash` and `Restart` leave files, flash and DSP as they are.

### Sense

`strings` are the NotificationStrings, `rangeCode`, `measMode`, `sourceOn` and
`permission` what the micro controller has, `subscribers`, `told` and `outdated`
the clients.  `device` is com5003d, mt310s2d, or mt310s2d with a controller that
answers range changes later.  Initially the controller has what the last run of
the service set.  Three variables are history.  `unsure` holds the channels
whose range string the code leaves behind: a failed access, the mode of
com5003d, one reference range for all channels, a clamp that takes the selected
range along.  `fresh` holds ranges of clamps plugged since the mode was set,
which are available in any mode.  `left` says that somebody unregistered or
disconnected since the last registration: the timer that polls the
authorization then stops, whoever it was.

### AdjustmentMemory and Adjustment

An image of adjustment data is identified by a stamp; a header (size and
checksum) is the image it was made for.  A write that breaks off leaves the new
header before data that are no image.  `ReadData` looks at the buffer of
AdjustmentEepromReadWrite, then at the cache file, then at the chip.

Adjustment has one action per command on the device's ranges, on those of a
clamp and on the XML documents.  Of a range's items it keeps one node and one
coefficient for gain and phase, which share their permission, and the flags
"adjusted" of gain and offset; answers are not modelled.  An XML document of
several clamps is one step per clamp, each of which computes and exports.
`owner` is a ghost: for each range the device that its data were made for.
Images carry it along, so it is kept through export, EEPROM, cache, restart and
import; only new data change it: nodes that are computed leave a range whose it
was, defaults and a document with the device's serial number make it the
device's.  exportAdjData writes all ranges under the device's serial number,
whosever their data are.  `restamped` is a second ghost: an acknowledged export has
done this while a range had data of another device.  The device that stores them so
takes them for its own when it reads them, and `ForeignDataIsTold` can only be said
of the time before.  It takes no permission: SENSE:RESET:ADJUSTMENT checks none,
and exports as soon as a d.c. clamp is plugged, whose offset may always be
written.  `stored` is the last image that an export reported as written, unless a
later access has spoilt it.

## 3. Runs

| Run | Bounds | Shows |
|---|---|---|
| SecPolite | 3 clients, 1 peer, 3 channels | grants kept, no leak; implements ChannelOwnership |
| SecServer | 2 clients, 1 peer, 2 channels, 1 bit, pipe of 2 | registrations stay right, nothing latched untold, one wake-up serves all, interrupts reach their owner |
| ZdspClients | 2 proxies and telnet, 2 interrupt ids, batches up to 3 with 2 parameters | collections agree, clients are connected, only telnet crashes the service, delivery of batches, always acknowledged |
| DspUpload | 4 uploads, each access may fail | writes the active bank after an odd number of failures only; otherwise lists belong together; what is acknowledged gets to run unless the device failed |
| DspMemory | 2 clients, 7 requests, 3 variable lists, 5 command lists; the real sections behind a workspace of 9 words | variables lie apart but for words that a long global variable overruns, what is written is read there, the program works on the words the module means |
| HotPlug | 2 plugs, 3 kinds of devices, 2 clamp types, 2 pluggings, 1 failing access | bookkeepings agree, no range of a lost clamp, controllers announced, comes up to date |
| ServiceClients | 2 clients of one service, 2 connections, 2 texts, 2 message numbers, 1 message per direction | signals are true, answers find their command, no orphaned subscription, who has read knows, every call is served, every command is answered |
| ServiceStartup | 4 services, 3 outputs, 3 attempts, 2 restarts | serves what is registered, an update is not forgotten, one attempt at a time, a start ends |
| Sense | 2 channels, 1 delayed change per channel, 1 failing access, 1 change of the jumper, 3 commands | announced is set, availability follows the mode, who has read knows, authorization is followed |
| Adjustment | 1 range, 2 sockets, 2 clamp types, 3 images, 1 failing access, 5 commands | acknowledged is read back, foreign data are told until they are stored as own, a clamp stays what it is stored as |
| SecTwoPeers (violation) | 2 clients, 2 peers, 2 channels | a disconnect frees somebody else's channels |
| DspMemInternals (violation) | 1 client, as DspMemory | a variable of the DSP that a client lists is not reached any more |

Why the bounds are enough.  Ownership hazards need a client that has freed, a
client that got its channels, and a third one that finds the rest: three of
each, and the proofs remove the bound.  Interrupt hazards show with two
channels (one hides the other) and one bit; the pipe of two bytes overflows
with the third signal.  Two interrupt ids and three clients: an id is used
again while a program still has it.  Only the proxies set command lists of their
own choice (`WithLists`); telnet meets interrupts through programs that stay.
Batches of three are one longer than the limit of the instance.  Four uploads
use each bank twice, and let one or two of them fail before others succeed.  Two clients suffice for variables, as one compilation
treats clients one after the other; seven requests let both send lists, compile,
change and compile again, and the workspace is so small that the lists do not
always fit.  One of the two global variables has two words: when its client is the
first to compile it overruns the aligned variable of the other client, otherwise the
global variable of one word.  In HotPlug each of two plugs can be filled, or one
of them twice, with any number of emptyings in between; one byte in the pipe
stands for many, because SIGIOs merge anyway.  In ServiceClients one client
registers while the other changes the range; with two message numbers every
third command uses one again.  Two connections let one be lost while its successor
is open.  Three outputs are acknowledged in any order, with a refusal before,
between and after.  Two ranges with the same code, one of them of a clamp, are
what makes a range string ambiguous.  Three images tell apart what is in the
chip, in the cache and in the buffer; sockets are alike (symmetry).

CHECK_DEADLOCK is off where a system may really stop: clients may have gone
for good (sec1000d), a service may have crashed or exited, uploads, commands or
images are used up, an application waits for a command that the device has
refused, or nobody plugs or does anything any more.

Fairness.  SecServer: `SF(SECIntHandler)`, since the event loop polls the pipe
in every round, and `WF(ResetInterruptWrite)`: handlers end.  ZdspClients: WF
of the interrupt handler, for the same reason.  DspUpload: a handler runs to
its end, and the DSP works.  HotPlug: WF of the handler's steps and of the boot
loader's timer (event loop), and WF of `ReadVersions`: the measuring modules
read a value when they are notified of it.  ServiceClients: both event loops
handle what has arrived, a connection is answered or refused, the end of one is
noticed at the other side, the controller does its commands.  ServiceStartup:
the event loop and its timers run, a connection is answered or refused, and the
resource manager replies; the controller's heartbeat is not assumed, because
there is a timeout.  Sense: the polling timer, while it runs.  No fairness is
assumed of clients, people, faults or the arrival of interrupts.

### Disagreements found

PROJECT.json "findings" quotes the line each run refutes.

* SecTwoPeers: freeing does not remove the hash entry of the client.  With one
  peer for all clients no harm comes from it, as the proofs show; with two
  peers it takes channels away from others.
* DspMemInternals: the client's copy of a variable of the DSP has address 0 and
  hides the real one.

### Hazards without a property

* pcbserver.cpp:230: RELEASE removes the notifications of a client
  (`RegistrationsMatch`), not its channels.  They come back when the whole process
  goes away.
* secmainandchannelinterface.cpp:148: SET after SET, START after FREE.
  `PoliteSpec` has no client that does this.
* secchannel.cpp:373: a bit set between the read and the write of INTACK is
  overwritten.  It is in no register and no value then, which are what the
  properties speak of.
* pcbserver.cpp:143: a registration on a query that has no notifier.
* zdspclientcontainer.cpp:169: ids start again at 1 after the last client has
  gone, while the DSP's program stays.
* zdspclientcontainer.cpp:30: the counter wraps onto the id of a living client.
* zdspserver.cpp:320: a SET fails because of another client's list, and the
  addresses of the clients before have moved.
* zdspclient.cpp:48: a refused variable list has replaced the section already.
* mt310s2d.cpp:240: a bit that is latched when the interrupt gets enabled.

The models contain each of these, but for the queries without notifier; nothing in
the repository says what should happen instead, so no property does.  Some
properties except a part of the hazard they are listed for, by name: `failures`,
`Overruns`, `restamped`, `left`, `fresh`, `unsure`, `stored = Nothing`.  The notes
in PROJECT.json say which part.

Of these the global variables of several words come closest to a disagreement: the
comment at src/zdsp1d/lib/dspapi.cpp:319 draws the globals below the aligned segment.
But the test createGlobalVariablesMultipleClients
(src/zdsp1d/tests/test_regression_dsp_var.cpp:402) compares with a dump in which
GLOBAL_VAR_COMMON, two words at 0x09EFFE, has its second word at the address of
CLIENT1_GLOBAL_VAR1.

## 4. Proofs

**SecServerProofs**, first about SecResource, for any numbers of channels, clients and peers:

* `SecTypeCorrect`, `SecNoTakeover`, `SecEveryClientIsFreed` for `SecSpec`.
  The last one rests on: who is in a peer's list has a hash entry, because
  SET writes both and nothing removes either.
* `SecHolderIsOwner`, `SecNoLeak`, `SecOccupiedHasLivePeer`,
  `SecFreeIsStopped`, `SecImplementsOwnership` for `PoliteSpec`, assuming that
  all clients share one peer (`SharedPeer`).  The invariants are not inductive
  alone: `PoliteInv` adds that a channel that is occupied is in the hash entry
  of the client that holds it, that the entry of a client which holds channels
  is what it holds, and that this client is in the list of its peer.

The same module about SecServer, for any channels, clients, bits and size of the pipe, under
`SharedPeer`: `SecRegistrationsMatch`, `SecLatchedIsTold`, `SecNothingUnseen`.
Every step of the server is a step of `PoliteNext` or leaves the channels alone
(`ServerIsPolite`), so `PoliteInv` is there for free.  `ServerInv` adds:
a channel that can be started has an owner who listens and was told of all that
is latched (`PreparedIsHeard`), what runs was prepared (`RunningIsPrepared`), and
with an empty pipe every register is part of the value, counting an acknowledge
on its way as done (`NothingUnread`): otherwise the step between its read and its
write would break `NothingUnseen`.

**ZdspClientsProofs**, for any proxies, peers, limits and batches:
`ZdspTypeCorrect`, `ZdspContainersAgree`, `ZdspClientsAreConnected` for `ZdspSpec`,
together inductive; `ZdspOnlyTelnetCrashes` for `OrderlySpec`, because a client
that is refused for its id is a null pointer, too.  It needs that no id above the
counter is in use (`Counted`).
`ZdspBatchReachesClients`, for `ZdspSpec`, which `OrderlySpec` of the run restricts,
compares positions: the messages to a client are mapped to its entries of the batch,
onto all of them, with the same parameter and in the same order.  The map is the one
the second loop walks by (`SentAs`), moved by the message for the super client; only
the handler sends messages.

**DspUploadProofs**, for any number of uploads: `UploadTypeCorrect`,
`UploadWritesActiveBankAfterFailure`, `UploadImplementsSwitch`.  `HandshakeInv` says
where service and DSP can be in the handshake at a time; `BankInv` says how the
selector and the bank that runs are related, by the parity of `failures` and by
where the upload is, and that both lists of the selected bank are complete from the
end of the writes until the DSP changes over.  No number of failures is excluded.

**HotPlugProofs**, for any channels, devices, types, numbers of plugs and of
failing accesses: type correctness and all safety properties of the run, and
further the action property `DropsOnlyUnplugged`.  `Inv` adds two facts to them.
A clamp whose secondary channel is in the catalog knows that it has one
(`SecondaryIsKnown`), otherwise it would leave it there; and the ranges of a
secondary channel are of a type that brings them (`SecondaryRangesFit`),
otherwise removing the ranges of the present type would leave some.

**ServiceClientsProofs**, for any clients, services, peers, notifiers, texts and
message numbers.  About Proxy: `ProxyTypeCorrect`, `SignalsAreTrue`,
`PeersLiveAsLongAsNeeded`, `ConnectionsAreShared`.  `ProxyInv` adds that a peer
not yet constructed has no client (`UnusedPeersAreFree`) and that a client that is
not in the hash has been told nothing and has asked for nothing
(`AbsentClientsAreBlank`).  About ServiceClients:

* `ClientsUseProxy`: it implements ProxySpec, so that all of the above holds for
  it, too (`ClientsHearTheTruth` says so of the signals).
* `ClientsTypeCorrect`: what is in the queues, the list of delayed commands and
  the lists of the interfaces is of the kind its reader takes.
* `NoOrphansAlways`.  `OrphansInv` adds that a RELEASE is among the messages to
  the service only for clients that have left their peer, and that the peers the
  service sees have been open.  It speaks of positions in queues: what is served
  is the first message, what is sent comes last.
* `AnswersAlwaysFindTheirCommand`.  `AnswersInv` regards all messages, up, down
  and delayed, as one family of queues (`Traffic`): no number is in it twice
  (`NumbersOnce`), and each numbered message meets the enumerator of its call
  (`Expected`), of a client that has existed.  A number taken from the list with
  its answer is then in no other message, a number that starts again is free
  because nothing in transit has it, and answers are moved, never copied.  The
  lemmas about such queues (`FirstTaken`, `LastPut`, `UnnumberedPut`,
  `NumbersMoved`) are stated for any messages with numbers.
* `UpToDateAlways`.  It needs the order within the queues, in two invariants.
  `TidyInv` says whose the messages are: what is on its way over a connection, what
  is delayed and who is subscribed belongs to clients of that peer
  (`MessagesBelong`, `SubscribersBelong`); a RELEASE is the only command without a
  number and only setRange waits for the controller (`CommandsNumbered`); a module
  that is not connected yet, or not there any more, wants and knows nothing
  (`BlankUntilConnected`); nothing is unread from a peer that is not open
  (`NothingUnread`).  `FollowingInv` says of each connected client and notifier, by
  the messages up and down and the list of subscribers, which of two states they are
  in.  `Followed`: the client wants the notifier and nothing on its way ends that;
  before it is a subscriber it knows nothing, is told nothing, and its registration
  is ahead of its reads; afterwards the last of what it will be told of the
  notifier, or else what it knows, is the present text or none.  `Unfollowed`: it
  does not want it; what there still is of a former registration has an
  UNREGISTER or its answer behind it, so that it is spent when the module
  registers again.  Without the second an old notification could arrive after the
  new registration.  The answers of delayed commands pass others without harm
  because they are not about the text.  The lemmas `Followed_...` and
  `Unfollowed_...` state this for any two lists of messages to which some are
  appended (`Extends`) or whose first one is taken (`Advances`).

**SenseProofs**, for any channels, ranges, codes, clamps, clients and
registrations: `SenseTypeCorrect` and the three safety properties of the run,
`AvailabilityAlways`, `WhoHasReadKnowsAlways`, `AnnouncedIsSetAlways`.  `ListsKept` adds
that the catalog a client reads is the list the ranges are in (`CatalogIsList`) and
that changes wait only with a controller that answers later (`OnlyDelayedWaits`).
`WhoHasReadKnowsAlways` rests on an action property of every step, `TellsNews`: it
tells each subscriber for whom something reads differently afterwards, by another
string or by another availability.

**AdjustmentProofs**, for any ranges, clamps, serial numbers, documents, exports and
failing accesses: `AdjTypeCorrect`, `AckedIsReadBackAlways`,
`ForeignDataIsToldAlways`, `ListedAsStoredAlways`.  `AdjInv` says of chip,
cache and reading object, of the device and of each clamp: every header and body is
an image that was exported or the chip had at first, a body fits its header or is
torn (`Chips`), and an acknowledged image is header, body and what a valid object
has read (`HasStored`).  `ForeignInv` adds that while data of another device are in use and were not
restamped, they are all of one device, which is also the one whatever can still be
read is of (`ReadIsOf`): otherwise a later read would clear the report.  `ClampInv` adds that the image stored last
is of the type of a listed clamp.

**ServiceStartupProofs**, for any services, outputs, attempts and restarts:
`StartupTypeCorrect`, `StartupServesWhatIsRegistered`,
`StartupUpdateIsNotForgotten`, `StartupOneAttemptAtATime`.  `Inv` adds: the signal
that starts an attempt is posted at most once, where it is waited for and when the
retry timer has stopped (`SetUpComesOnce`); attempts are left until the first has
failed (`AttemptsAreLeft`); and what has not been acknowledged is on the list
exactly while the service registers (`RegisteringIsAState`).

The constants are restricted only by the ASSUMEs of the modules, which TLC
evaluates for each instance.

Only model-checked:

* liveness (`InterruptReachesOwner`, `DspIsAcknowledged`, `AcceptedIsExecuted`,
  `ComesUpToDate`, `CommandsAreAnswered`, `StartEnds`, `AuthorizationIsFollowed`),
  which TLAPS cannot prove under fairness;
* DspMemory (`VariablesDisjoint`, `WrittenIsRead`, `RunsWhatWasSent`), whose layout
  is a fold over sequences: it would need induction over data.  Nor does
  `VariablesDisjoint` hold for every value of the constants: a command may name
  UWSPACE, which is all of the workspace.  A theorem would have to assume away what the code
  allows;
* `CallsAreServed`, which is about tables of constants: its run looks at every
  entry, and there is nothing to generalize.

Induction over data is out of reach as a schema, because the library's theorems
take an operator as parameter.  Where an argument by induction is short it is made
about sets: SenseProofs finds the first position with a property as the least
element of a nonempty set (`LeastPosition`), and ServiceClientsProofs the last
message about a notifier (`LargestPosition`), from the well-foundedness of strict
inclusion among finite sets.

## 5. Plan

The modules above follow the plan that the first version of this file had:
client side, notifications with ids, start-up, adjustment data, then the proofs
about what had only been checked.  Two modules of it were merged into others:
the controller's queue of tasks and the heart beat wait are in ServiceClients,
Sense and ServiceStartup, where their effects show.

Left, in this order:

1. the layout of DspMemory described by positions instead of folds, and a proof
   that variables lie apart but for what `Overruns` names;
2. `SecConfig`: the fields of the configuration register of a channel, and the
   interrupt registers of eight channels in one word;
3. the write form of SYSTEM:DSP:COMMAND:STAT in DspUpload;
4. ServiceClients with two services, one of them restarting.

## 6. Not modelled

* Floating point computations: adjustment polynomials, DSP results.
* Parsing and formatting of SCPI texts: abbreviations, spelling of parameters.
* XML settings, which become constants.
* The DSP compiler's table of commands and its extra checks, which only log.
* The write form of SYSTEM:DSP:COMMAND:STAT, which puts any value into DSPACK.
* The configuration register of the SEC beyond its node and answers.
* I2C multiplexer and blocks of an EEPROM: an access fails or breaks off.
* Source control (a command line tool around one generator), log services
  (collectors nothing depends on), boot services (one loop around a transfer).
* Widths of integers except for interrupt ids, message numbers and the operands
  of DSP commands.
