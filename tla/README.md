# Specifications of NetworkHelper

NetworkHelper moves files between two machines that may both be behind a NAT.
The program `network_helper` runs as a sender or as a receiver; a rendezvous
server, `holepoked`, introduces them; the bytes travel over a vendored and
modified UDT 4. These are TLA+ specifications of that code, the TLC
configurations that check them on small instances, and TLAPS proofs of what
matters most for instances of any size.

    tlc -config MCTransfer_resume.cfg MCTransfer     # a run
    tlapm TransferProofs.tla                         # the proofs of a module

## 1. The system

```
  sender process                     holepoked                receiver process
  NetworkSender::startSend  --REGISTER/HEARTBEAT-->          NetworkReceiver::startReceive
    holepoke::Sender        <----- id, CONNECT ---- map        holepoke::Receiver
       |  takeSocket                                              |  takeSocket
       |            <-------- HELLO (UDP, both ways) -------->    |
    UDT::bind/listen/accept <===== UDT connection ======>  UDT::connect
    sendThread (one per receiver)  header, offset, files, end time
    statusThread, inputThread                            statusThread, inputThread
```

A sender is started with files. `startSend` runs a `holepoke::Sender`, which gets
an id from the server and shows it to the user; the user passes it on; a
`holepoke::Receiver` that is given the id asks the server for the sender's
addresses; the server tells each of the other; both send HELLOs until one is
heard, which opens the NATs. The UDP socket is then handed to UDT. The receiver
connects, the sender accepts and starts a `sendThread`, then goes back to a new
`holepoke::Sender` for the next receiver.

| part | state | operations | talks to |
|---|---|---|---|
| `holepoked` | `idToAddressMap`, in memory | REGISTER, HEARTBEAT, CONNECT, HELLO; a restart empties it | datagrams to and from endpoints |
| `holepoke::FiniteStateMachine` | transition table, current state | `addTransition`, `run` | calls the routines of its subclass |
| `holepoke::Sender` | id, the peer's two addresses, `is_connected`, `connected_locally` | `connectToReceiver`: seven routines, each sends, then waits in select for 3 s | server, peer; delegate `gotID` |
| `holepoke::Receiver` | the id to look up, the same | `connectToSender`: five routines | server, peer |
| `startReceive` | offset, file index, the `fstream` and its buffer, the directory | header, offset, one `recvfile` per file, end time; `stop` on stdin calls `exit` from another thread | UDT connection; disk |
| `sendThread` | offset and file index | header, offset, one `sendfile` per file, end time | UDT connection; files |
| accept loop, status and input threads of the sender | `send_sockets`, `max_speed`, `send_finished`, shared without a lock | accept, erase, walk, `max_speed`, `stop` | each other |
| UDT stream (`CUDT`) | send and receive buffers, loss lists, sequence numbers, timers | data, ACK, ACK2, NAK, EXP, keep-alive, shutdown | the channel; the congestion control |
| loss lists, `CACKWindow`, `CSndUList` | circular arrays of linked intervals, a ring, a heap | insert, remove, report; store, acknowledge; update, pop, remove | `CUDT`; the worker of `CSndQueue` |
| UDT sockets (`CUDTUnited`) | the tables of sockets, accept queues, the garbage collector | socket, bind, listen, accept, connect, close | `CUDT` |
| `ZUDTCC` | window, period, loss epoch | `onACK`, `onLoss`, `onTimeout` | `CUDT` calls it |

What is hard, and would hardly be reached by a test:

* *Rendezvous.* Datagrams are lost, duplicated and reordered; responses of type
  CONNECT and HEARTBEAT carry no id and no transaction number; every wait races
  a timeout; a NAT maps a socket to a new address in the middle of it all; the
  server restarts without its map; several receivers ask for one sender.
* *Transfer.* The two ends compute separately, from the same offset, in which
  file and at which byte to go on. A transfer may be stopped by `exit` while
  another thread writes, by a crash, or by a break of the connection, at any byte
  and again and again; what `recvfile` took may still be in an `fstream`'s
  buffer.
* *Sender process.* Four kinds of thread share a `std::list` without a lock.
* *UDT.* Sequence numbers wrap; loss lists are circular arrays of intervals; the
  EXP timer declares things lost while their ACK is on its way; sockets are made
  by one thread, accepted and closed by others and collected by a fourth, each of
  which looks at tables under a lock and acts on what it saw after the unlock.

`PROJECT.json` lists every component with what is modelled of it, and the
hazards at the lines where they bite.

## 2. The modules

| module | what it is |
|---|---|
| `HolepokeFsm` | the transition tables of `Sender::Sender` and `Receiver::Receiver` and the lookup of `FiniteStateMachine::run` |
| `Holepoke` | holepoked, any number of `Sender` and `Receiver` objects, and the datagrams between them |
| `Introduction` | the abstract specification: who was introduced, who has knocked, who was met |
| `Transfer` | the transfer of files by `sendThread` and `startReceive`, over any number of attempts on one directory |
| `SendThreads` | the threads of one `NetworkSender` and the list of sockets they share without a lock |
| `Stream` | the abstract specification of one direction of a UDT connection |
| `UdtStream` | one direction of a UDT connection: both `CUDT`s with their buffers, loss lists and timers, the sending queue and its worker, and a network that loses, repeats and reorders |
| `SeqNo` | `CSeqNo`: sequence numbers on a circle |
| `LossSet` | the abstract specification of a loss list: a set of numbers in a window |
| `SndLossList`, `RcvLossList` | the loss lists of both ends, on their arrays, with numbers that wrap |
| `SndUList` | the heap of the sending queue and the worker that waits for its first socket |
| `AckQueue` | the abstract specification of the ring: the latest ACKs in the order they were sent |
| `AckWindow` | `CACKWindow`, the ring of ACKs that wait for their ACK2, with ACK numbers that wrap |
| `ZudtCC` | `ZUDTCC`: when the rate is decreased and how far, and the limit of `max_speed` |
| `UdtSockets` | `CUDTUnited` in a process that listens: handshakes, `accept`, `close`, the garbage collector, the end of the multiplexer |
| `MCHolepoke`, `MCTransfer`, `MCSendThreads`, `MCUdtStream`, `MCUdtSockets` | instances for TLC |
| `MCUdtParts` | one instance for `SndLossList`, `RcvLossList`, `SndUList`, `AckWindow` and `ZudtCC`, of which a behaviour exercises one |
| `HolepokeProofs` | the inductive invariant of `Holepoke`, the theorems that follow from it, and that it implements `Introduction` |
| `TransferProofs` | the inductive invariant of `Transfer` and the theorems that follow from it |
| `SendThreadsProofs` | the inductive invariant of `SendThreads` and the theorems that follow from it |
| `UdtStreamProofs` | the inductive invariant of `UdtStream`, the theorems that follow from it, and that it implements `Stream` |
| `SeqNoProofs` | what the operators of `SeqNo` compute, within a window, wherever on the circle it lies |
| `LossListProofs` | the inductive invariant of `RcvLossList`, and that it implements `LossSet` |
| `UdtPartsProofs` | the inductive invariants of `AckWindow`, `SndUList` and `ZudtCC`, the theorems that follow from them, and that `AckWindow` implements `AckQueue` |
| `UdtSocketsProofs` | the inductive invariant of `UdtSockets` and the theorems that follow from it |

Some definitions stand, under a longer name, in front of others (`RegisterTwice`
before `Register`, `OpenFileUncut` before `OpenFile`). They are slips a programmer
might make in that place. No specification uses them; `PROJECT.json` names, under
`mutants`, the property that each of them breaks.

### Holepoke

*State.* `st[e]` is `FiniteStateMachine::_state` of an endpoint; `blocked[e]`
says that the routine of that state has sent and sits in
`ProtoBufRecvFromWithTimeout`. The other variables are the members of the same
name (`identifier` = `Sender::_identifier`, `senderID`, `peer` =
`_peerAddress` and `_peerLocalAddress`, `link` = `is_connected` and
`connected_locally`) and the server's `idToAddressMap`. `announced` holds the ids
that a user has seen, `issuedTo` is a history variable: the source address of
the REGISTER that an id was made for; `unsent` is another: what the server tried
to send to a sender in vain.

*Network.* Three sets of datagrams that only grow. Reading does not remove: a
datagram that is never read was lost, one that is read twice was duplicated, and
any order of reading is an order of arrival. Every datagram that leaves a network
behind a NAT carries any of the addresses in `Public[e]`, so that mappings may
change at any time. A private address is reached from inside only, with the
private address as the source.

*Actions.* Each routine is two steps: what it sends before it blocks
(`AskServerToAssignID`, `UpdateAddress`, `WaitForPeerAddress`,
`LookupAddressForID`, `ConnectToPeer`), and what it returns when something
arrives (`GotID`, `GotHeartbeatResponse`, `GotPeerAddress`, `GotPeerResponse`)
or nothing does (`Timeout`). The returned event goes through the table at once
(`Return`), as in `run`; a pair that is not in the table is the state
`noTransition`, which stands for the `std::logic_error`. `SendFails` is a `sendto`
that fails, which makes the routine throw. The server handles one datagram in a
step (`Register`, `Heartbeat`, `Connect`); `Restart` empties its map. `Connect`
sends two messages, the news to the sender and the answer to the receiver. If
the first `sendto` fails, the server logs that and answers the receiver all the
same (holepoked.cc:257 to 260 and 286); then the news is in `unsent`. An answer
that cannot be sent to who asked is like one that is lost.
`SenderDelegate::gotID` and the user who passes the id on are `announced` and
`ConnectToSender`, which also allows for an id that never existed.

*Left out.* The encoding of messages and addresses; the HELLO to the server that
opens the port, which the server ignores; the number of bytes of an address.
Routines skip what does not come from the server or from the peer without any
trace, so that skipping is no step. The wait of `select` has no length in the
model: a timeout may come at any moment.

*Assumptions.* `AddressesDisjoint`: no two endpoints share an address. In the
world, two private networks may use the same ones; the code does not guard
against that (see the hazards). `Register` picks an id that was never given out,
which is what `uuid_generate` is used for.

### Transfer

*State.* A byte is its position in the concatenation of all files, which is how
the code counts, too. The UDT stream is what was put in and not yet taken out:
the positions `taken+1 .. sent`. `content[i]` is the file on disk, what `fstream`
still buffers included; `flushed` says how much of it would survive `exit`.
`present` is the set of files that exist. `rcv` and `snd` are program counters.
`windows` says for which system the receiver was built; it never changes, and
every run and theorem covers both values. `gapped` and `short` are history: the
files that a resumption on Windows has emptied, and those that could not be
created or written out without anybody noticing.

*Actions.* `Begin(t)` starts a receiver with the offset `t` from the command
line, with its connection and its `sendThread`; it may be called again when the
last receiver is gone, on the same directory. `RecvOffset` and `SendOffset`
contain the loop that both ends run over `file_sizes` (`StartsAt`); if it runs
behind the array, the outcome is open: the loop over the files does nothing, or
the process dies. `OpenFile` is what `startReceive` does between two calls of
`recvfile`: whether the file exists, `truncate`, or the creation of an empty
file. On Linux and the Mac the file that is resumed is cut and goes on being
used; on Windows it is cut, closed, and opened again with `ios::out`, which
empties it (network_receiver.cpp:242 to 254), so that `recvfile`, which seeks to
the offset, leaves a gap of zeros in front (`Position`, `Truncated`).
`CannotOpen` is a file that can be neither opened nor created: `recvfile` fails,
unless it expects nothing, when it returns before it looks at the file
(core.cpp:1384). `CloseFile` may lose what the `fstream` has not written out:
nobody looks at the stream after `close`. `Stop` is `exit` in the input thread,
or a kill. `BreakNow` loses an arbitrary end of what is in the stream; what had
arrived can still be read.

*Constants.* `Offsets` is what the user may pass, negative and too large offsets
included. `FilesMayFail` and `NetMayBreak` switch faults off for the liveness run.

*The contract.* A receiver cannot know what a user has on disk. `OnDisk(t)` says
that the first `t` bytes are there, each at its place in its file, and nothing
else: it does not ask for an empty file. `trusted` remembers that every attempt
so far was started with such an offset. The safety properties are about users
who keep that contract, and name what even they cannot rely on: `DiskIsPrefix`
and `RetryIsSafe` the file that is resumed on Windows (`gapped`), and
`FinishedIsExact` (`Settled`) in addition the files in `short` and empty files
that the offset skips. The finding `transfer_missing` is about one who does not, in the
way the code seems to allow for.

*Assumptions.* The files of the sender do not change or shrink while it runs. A
file that exists can be opened for reading and writing, or not at all, and one
that was opened can be cut. The directory is written by one receiver at a time.
UDT is a reliable stream in order until it breaks; `UdtStream` is shown to be
one (`ImplementsStream`), in blocks instead of bytes. The two modules are not
composed yet.

### SendThreads

*State.* Connections are numbered in the order of their `accept`, and
`send_sockets` is the set of the numbers in the list: elements join at the back
only, so that the list is always in ascending order. `thread[t]` is where the
`sendThread` created for connection `t` is, `socket_it[t]` its iterator;
`status_it` and `input_it` are the iterators of `statusThread` and
`setMaxSpeed`. `usable[c]` is whether UDT still knows the socket, and
`bandwidth[c]` what `ZUDTCC` has for `UDT_MAXBW`; both are kept as long as the
socket is in the list, as nobody can look at them afterwards.

*Actions.* One operation on the list is one step: `Accept` (push_back and the
creation of the thread), `Pick` (`end()` and one back), `Finish` (erase),
`StatusBegin` and `StatusNext`, `SetMaxSpeed` (the division) and `SetBW` (one
socket). `Listen` sets the bandwidth of the listening socket, which the accepted
one inherits; after hole punching there is a new listening socket every time.
`Break` is UDT closing a broken socket behind the back of its owner.

*The end of the process.* `startSend` and `inputThread` are the program counters
of the two threads that may end it, and `send_finished` is what both write.
`StopCommand` sets the flag, `ClearAndExit` clears the list, `Exit` ends the
process, and between them every other thread goes on (network_sender.cpp:550 to
552). `LeaveLoop` and `ClearAndReturn` are the same for `startSend`, with a second
between them (287 to 297). A `startSend` that waits in `accept` may still put a
connection into the cleared list. `Cleared` says that the list was cleared; the
threads of the connections that were in it use iterators to erased elements
next, or find the list empty.

*What C++ leaves undefined.* An iterator to an erased element that is used ends
in `process = "undefined"`, from where there are no steps, of which no other
state is kept (`Gone`), and every property says nothing more; the null pointer
that `setMaxSpeed` gets of a socket that UDT has closed ends in `"segv"`. Two
calls that change the list at the same instant belong to the first kind as well
(see the hazards).

*History.* `calm` says that so far no connection was accepted before the last
thread had picked its element: the condition under which the code is right.
`parts` is the number of shares that the speed was divided into last.

*Left out.* What the status prints; the time of the second in which `startSend`
sleeps.

### UdtStream

*State.* Variables that stand for one member of `CUDT`, `CSndBuffer` or
`CRcvBuffer` name it in their comment. The first sequence number is 1, so that
the k-th block is sent under the number k. `ring` is the circular list of blocks
of the send buffer, `lastBlock`, `currBlock` and `firstBlock` its three pointers,
counted without wrapping (`Place` is where they point). `unit` is the array of
slots of the receive buffer; `startPos` and `lastAckPos` wrap as in the code. A
loss list is the set of numbers in it. `scheduled` says that the socket is in the
heap of `CSndUList`, and `wakes` who is about to put it there. `worker` and
`packet` are the local state of `CSndQueue::worker`: from `pop` on it holds the
lock of the heap (`"lost"`), and later only a packet that points into the send
buffer (`"send"`).

*Actions of the sender.* `Put` is the application's `send`; it and the thread
that receives wake the worker in a step of their own (`Update`), for which they
wait for the lock of the heap. `PopLost` takes the first lost number off the loss
list, `Retransmit` looks up its place under the AckLock, unless an ACK came in
between, and `PopNew` packs a new block if the window allows it; `SendTo` reads
the block that is at that place by then. `RecvLiteAck`, `RecvAck`, `RecvNak` and
`Exp` are the branches of `processCtrl` and `checkTimers`; both checks for
"attack or bug" are there (`Accuse`). An ACK2 may be left out, as the code does
within one SYN interval.

*Actions of the receiver.* `RecvData` is `processData` with the NAK that it sends
at once; `SendAck`, `SendLiteAck` and `SendNak` are the cases of `sendCtrl`;
`RecvAck2` moves `m_iRcvLastAckAck`; `Get` is a turn of the loop in `readBuffer`.
When one of the timers fires is left open.

*Network.* A set of packets of each kind. `Received` keeps the packet or removes
it, so that it may come again; `Lose` removes it; and the sets are not ordered.
The room is bounded (`DataRoom`, `AckRoom`, `ControlRoom`): what is sent to a full
network displaces something, which is a loss. `Lite` is the window of a lite ACK,
which carries none.

*Left out.* Sequence numbers that wrap; the loss lists, where that matters most,
are shown to be sets in spite of it (`SndLossList`, `RcvLossList`). The congestion
window, which `ZUDTCC`
never sets below 16, more than the windows here. The growth of the list of blocks
when it is full, time to live and messages, and blocks of which the application
reads a part. How long timers are, and which of the lost numbers fit into one
NAK and are due. A sender that meets a number it never sent has put what stands
in front of it in the NAK into its loss list before it breaks; as it is broken
then, that is not shown. The other direction of the same connection is
independent, but for the EXP timer and the socket's place in the heap, which they
share.

### SeqNo, SndLossList, RcvLossList

*State.* `list` and `rcvList` are the objects with their arrays `data1`, `data2`,
`next` (and `prior` at the receiver), `head`, `tail` where there is one, and
`length`; -1 is `Unset`, as in the code. A number's place in the array is its
distance from the head, so that a list wanders round the array while the numbers
go round the circle. `answer` and `rcvAnswer` are what the last call returned. The
variables beside them (`sndLastDataAck`, `sndLastAck`, `sndCurr`, `rcvLastAck`,
`rcvCurr`) are the members of `CUDT` by which it decides what to call a list with:
a list is not driven by arbitrary calls but by the ones that `processCtrl`,
`checkTimers`, `packData`, `processData` and the drop request make.

*Loops.* The two loops over the receiver's list, of `remove` of a range and of
`getLossArray`, take one step a turn: `rcvCall` is the call that is under way
and how far it has come (`BeginDrop`, `DropOne`, `DropLast`; `BeginReport`,
`ReportOne`, `EndReport`), and no other call begins meanwhile, as one thread only
works on the list. `before` (the list when the call began) and `named` (what
the report names so far) are history. `DropForEver` is the loop that does not
end (section 5). What a node holds in `m_piNext` and `m_piPrior` after it was
given back is forgotten, which the code never reads.

*Promise.* `LossSet` has the set of the lost numbers, its length and its first
number, and says of every call which numbers it adds or takes and what it
answers. `ImplementsLossSet` and `RcvImplementsLossSet` map the arrays to the set
of the numbers in the nodes in use; a call that has not returned has not changed
the set yet (`Known`). The one place where the code does less than its name says
is `CRcvLossList::remove` of a range that wraps: it stops before the largest
number (list.cpp:647), and `NextOfRange` does the same.

### SndUList

`heap` and `lastEntry` are the array, `heapLoc` and `timeStamp` the `CSNode`s. A
call holds the lock of the list to its end: its first step is what it does before
the loop that restores the order, and every turn of the loop is a step (`GoUp`,
`GoDown`), with `call` for where it is and for the socket that is inserted
afterwards. The worker's look at the first time (`due`) and its `pop` are two
calls, and the lock is free between them. `fromInside` and `firstLeft`
are history variables for the two things in which the code does less than one
would think: `remove_` lets the socket that takes the place of another go down
but not up, and a worker that waited for a socket that was closed sends for the
next one early. The array of 4096 places never grows, because `update` and `pop`
call `insert_`, which does not look at its length; that it suffices is assumed.

### AckWindow

The ring with its head and tail, and the number of the next ACK. `AckQueue` is
the queue of the latest ACKs, one fewer than there are places; an ACK2 takes away
everything up to the ACK it names, and the oldest makes room for a new one.

### ZudtCC

*State.* The members of `ZUDTCC` that have to do with decreases, with `period`
(`m_dPktSndPeriod`) in parts of a microsecond; `param` and `limit` are the
parameter block and what it holds; `asked` is a `setBW` that is half done, during
which the block is freed memory or not yet written (`Readable`: it may read as
anything). `sinceCut` counts the packets sent since the last decrease,
`epochPeriod` is the period that the epoch began with; both are history.

*Actions.* `Send` is `setSndCurrSeqNo`; `OnACK` lowers the period by any amount
and applies the limit; `BeginEpoch`, `CutAgain` and `CountReport` are the branches
of `onLoss`. `Window` bounds how far behind the last packet a report may begin.

*Left out.* How much an ACK lowers the period, which depends on measured rates;
the congestion window; slow start, which `init` turns off.

### UdtSockets

*State.* `sockets` and `dead` are `m_Sockets` and `m_ClosedSockets`, `queued` the
listener's queue, `peerRec` the record of peers, `refCount` the users of the
multiplexer. Socket 0 is the listener; numbers grow in the order in which
sockets are made, whereas the program's go down, so that "first" in a set of
sockets is the newest (`IsFirst`). `worker` is where the thread of the `CRcvQueue`
is in `newConnection`, `acceptor` where a thread is in `accept`, `pending` which
calls of `close` are half done, `mux` whether the multiplexer is open, its
threads are being joined, or it is gone.

*Actions.* A step is what a thread does under one lock. The clients are calls of
`connect`: their requests come at any time and any number of times, also after
the client has given up, and `answers` keeps every answer for ever. `Round` is a
round of the collector with any part of what it may take; a round keeps
`m_ControlLock`, also while it waits for the worker (`JoinWorker`), and every
other step that needs that lock has the guard `ControlLockIsFree`.

*History and assumptions.* `acceptor.late` says that the call began to wait after
the broadcast of `close`. `InUse` is the second of grace: a call that got a
pointer to a socket before it was closed is over before the collector deletes
it. Of two clients at one address the keys in `m_PeerRec` differ; the key is
computed in an int, where the upper bits of the socket's number do not fit, so
that it does not tell clients at different addresses apart, and the code compares
the addresses as well.

*Left out.* Rendezvous connections, sockets that do not block, `cleanup`, epoll,
and `m_pAcceptSockets`, which is written but never read. Want of memory in
`newConnection` refuses the request before the socket is made
(`RefuseConnection`); from there on memory suffices: the way back from a `connect`
or an `insert` that throws (`ERR_ROLLBACK`), which leaves the multiplexer's count
of users raised and the socket in no table, is not modelled, and `TablesAgree`
and `EverythingIsRemoved` do not speak of it. The cookie, of which
`CUDT::listen` keeps no record, is something a client has before its request.

## 3. The runs

The bounds are in the configurations; the numbers of states are distinct ones.

| run | instance | question | states |
|---|---|---|---|
| `holepoke_pair` | one sender, one receiver, two ids, `sendto` may fail | the inductive invariant `IInv`, that every step but for one pair finds its entry in the tables (`OnlyMissingTransition`), that a connection is final, and, under fairness, `AttemptEnds`: at most five waits, then it is over | 294 k |
| `holepoke_senders` | two senders, one receiver, two ids | `PeerIsPartner`, `ConnectedMet`: nobody is connected to a stranger, or without both having knocked; `ImplementsIntroduction` | 330 k |
| `holepoke_roaming` | one sender with two public addresses, one receiver without a NAT, `sendto` may fail | `MapIsHonest`, `BothTold` | 2.73 M |
| `holepoke_transition` | one sender, one receiver | finding: `MachineRunsToStop` is violated | |
| `holepoke_invalid` | one sender, one receiver, everything answered | finding: `InvalidIDIsReported` is violated | |
| `transfer_resume` | files of 1, 0 and 2 bytes, offsets -1..3, three attempts, both ways of resuming, all faults, fair | `IInv`, `DiskIsPrefix`, `FinishedIsExact`, `RetryIsSafe`, `NeverBothWaiting`, `AttemptEnds` | 535 k |
| `transfer_missing` | the same, one attempt, no faults | finding: `ExpectsWhatIsSent` is violated | |
| `send_threads` | three connections, speeds 2, 7 and -3, hole punching | `IInv`, `OwnConnection`, `NeverEmpty`, `LeftOutByTwins`, `LimitKept` | 3.34 M |
| `udt_stream` | four blocks, two in the send buffer, three places, three slots; one packet of each kind on its way, or two ACKs | `IInv`, `ImplementsStream`, `NeverAccused`, `ReleasedIsReceived`, `LossListIsExact`, `LossesAreScheduled` | 883 k |
| `udt_stream_arrives` | two blocks, two slots, the connection may break, fair | `EverythingArrives` | 109 k |
| `udt_parts` | the five parts, one in each behaviour: a circle of 14 numbers, windows of 4 and 5 in arrays of 5, reports of 2 entries; six sockets in the heap, two times; a ring of four places and five ACK numbers; a report at most 2 packets old, periods up to 9 µs, one limit | `SndImplementsLossSet`, `RcvImplementsLossSet`, `ReportFits`, `HeapIsOrdered`, `NeverEarly`, `ImplementsAckQueue`, `EpochsAreFresh`, `RateHalvedAtMost`, `RateLimited` | 1.15 M |
| `udt_sockets` | two clients at two addresses with one key, a queue of one, two connections, fair | `Agreement`, `TablesAgree`, `NobodySleeps`, `EverythingIsRemoved` | 446 k |

`TypeOK` is a part of `IInv` and of `TablesAgree` and has no run of its own; of the
modules in `udt_parts` it is proved or, for the sender's loss list, a part of
what the other property says. `ImplementsIntroduction` is checked with two
senders; that two receivers ask for one sender, the other way to confuse it, is
covered by its proof.

*Why these bounds.* A property of the rendezvous is about two partners and,
where a stranger matters, about one more of either kind; two ids let a sender
lose its id in a restart and get another one. Sets of datagrams need no bound,
as there are finitely many different ones. In a transfer, two bytes are the
least that has a first, a middle and a last position to stop at, and the file in
front makes it one that is reached by skipping; the empty file between them ends
at an offset with the file before it, which is the edge of the loop that skips;
offsets from -1 to the total are all there are between an error and the end of
the array; three attempts give a file that is resumed after it was resumed.
Three connections are two that may take each other's element and one that stands
by; a speed of 7 leaves a remainder whether two or three share it, 2 divides among
two, among three to nothing, and -3 not at all.
Four blocks through a ring of three places give the first place to another block
while a packet may still point to it, and lead both positions of a receive
buffer of three slots around its end; with one slot always empty, two blocks may
be there with a gap before them. Two ACKs are the least that can overtake each
other, or arrive after the ACK2 of the other; they are let on their way only
when nothing else is (`TwoAcksAlone`), which makes the instance three times
smaller. The proofs need no such bound. For `EverythingArrives` two blocks are
enough to lose one of them, the ACK, or the wake-up, and two slots to fill the
buffer, so that only the window of 2 that is offered without room lets the
sender go on.

In `udt_parts` the circle is small enough for numbers to wrap in every position
of a window and for windows to wrap in the arrays; `SeqNoTH` = 6 is more than a
window, as in the program. Windows of 4 and 5 hold two intervals with
a gap, which can be split, joined, or cut at either end; a report of two entries
is too short for them. Six sockets are the least for which a socket that takes
the place of another in the heap may belong further up (it comes from the other
subtree, one level below); after that has happened, lists of more than four
sockets are not followed further (`SmallOnceCut`). Five ACK numbers for three
ACKs in the ring: a number comes round while an old ACK2 with it may be late. The
congestion control begins two numbers before the wrap and is not followed beyond
a third of the circle after it (`WrapOnce`); reports two packets old and at most 5
cuts, of which every second counts, reach all the branches. In `udt_sockets` two
connections and a queue of one are the least with which a request is refused, a
broken connection is replaced by a new one of the same client, and a socket is
taken from the queue while another waits to be queued; the two clients have one
key and are told apart by their addresses only.

*Deadlock.* `Holepoke` never stops: the server may always restart. `Transfer`
stops when the receiver is gone, its `sendThread` is done, and the number of
attempts is used up; its configurations switch the check off for that reason,
and the states where both ends wait for each other are the subject of
`NeverBothWaiting` and `AttemptEnds` instead. `SendThreads` ends with its
process. `UdtStream` ends when all has been read and acknowledged and the
network is empty, or when it is broken; that it does not stop before is
`EverythingArrives`. `UdtSockets` ends with the multiplexer, in `"crashed"`, or in
the deadlock that section 5 describes, and `EverythingIsRemoved` says that there
is no other end. The parts of `udt_parts` stop at their bounds.

*Symmetry* is used in the runs without liveness properties: endpoints of one
kind, and ids, are interchangeable.

*Fairness.* `Holepoke!FairSpec`: `connectToReceiver` and `connectToSender` run in
a thread of their own, and `select` returns after three seconds at the latest, so
that some step of a machine that can run is taken (weak fairness of `Routine(e)`).
Nothing is assumed of the server and the network. `ReliableSpec`, under which
`InvalidIDIsReported` still fails, adds a server that works and an answer that is
not late for ever. `Transfer!FairSpec`: threads that can run do, and the EXP timer
of UDT notices a peer that died (weak fairness of `PeerDies`). A break of the
network, a stop and a new attempt are never forced. `UdtStream!FairSpec`: the
threads that can run do, and the timers of ACK and EXP expire. An ACK or a NAK
that arrives puts the EXP timer off, so that what is assumed is that the timer
expires or one of them is received for the last time. Of the network: the packet
that the receiver waits for, the ACK that says so, and its ACK2 are received in
the end if they are sent again and again (strong fairness; for the ACK, which
may arrive while its thread waits for a lock, as an implication between
"infinitely often in the network" and "infinitely often received"). A lite ACK
does not count, as the code sends one only after 64 packets. Nothing is assumed
of NAKs: the EXP timer alone must do. A single packet that the network repeats
for ever, and nothing else, is excluded by these conditions.
`UdtSockets!FairSpec`: a thread inside a call goes on when it can, the collector
has a round every second that takes what it may, and a worker that is told to end
ends. A socket that is closing leaves the worker's list (`Unlist`) by strong
fairness, as the worker has to be between two packets for it; the code checks
the timers after every packet it reads. That the application calls `accept` or
`close`, and that requests come, is not assumed.

## 4. What is proved

All theorems hold for any number of endpoints, ids, addresses, files, sizes,
offsets, attempts, connections and blocks, and for buffers and windows of any size.
The assumptions are those on the constants, which every run evaluates.

*Holepoke* (`HolepokeProofs`). `IInv` is `TypeOK`, the safety properties, and
what makes them inductive. The idea: as old datagrams may be read at any time,
each datagram in flight must be as truthful as the states it may be read in.
`RequestsHonest` says that a request carries addresses of its sender, and a
heartbeat an id that was made for him; `ResponsesHonest` that a REGISTER
response goes to whom the id was made for, and a CONNECT response from partner
to partner; `HellosHonest` that greetings pass between partners. These hold for
ever because `issuedTo`, `senderID` and the owner of an address never change
once they are set (`IdleIsFresh`, `KnownIsIssued`: a receiver gets its id once,
and the id was issued before). `ConnectingKnocks` links the program counter to
the HELLO that was sent, `AnswersTellBoth` the two datagrams that the server
sends for one CONNECT, or has failed to send (`unsent`). From `IInv`: `Typing`,
`MapSafety`, `IntroductionSafety`, `ConnectionSafety`, `BothAreTold`, and, as
action properties, `ConnectionFinality` and `TablesAreCompleteButForOne`:
whichever step leads a machine to `noTransition`, it is a sender's that has read
a CONNECT response in `updateAddress`.

`Implementation` is the refinement: `Spec =>
Introductions!Spec` under the mapping of `Holepoke`: a pair is introduced when
the receiver holds an id that was made for the sender, has knocked when there is
a HELLO between any of their addresses, and an endpoint has met the owner of its
peer's address when `link` is set. The only steps that show are
`ConnectToSender` (Introduce), `ConnectToPeer` (Knock) and `GotPeerResponse`,
which is Meet.

*Transfer* (`TransferProofs`). `IInv` adds four facts to the properties:
`InOrder` (the files in front of the current one are settled, and the offset is
not behind the current one), `InStep` (`taken`, the place in the file and what
`recvfile` waits for agree: stream and file are at the same byte, on Windows
behind a gap where a file was resumed),
`FlushedEnough` (what is only in the buffer begins behind the offset, so that a
stop cannot take away what the attempt was told to skip), and `AllSent`
(`sendThread` waits for the end time only when everything was put into the
stream). From it: `Typing`, `NoCorruption`, `Completeness`, `Repeatability` and
`Agreement`. All of them hold for both builds, with the exceptions that the
properties name; without them they hold for Linux and the Mac when files can be
created and written, but for the empty file at the offset. The arithmetic of
files is in the lemmas `EndFacts`, `StartFacts`,
`InsideStarts`, `TruncatedFacts` and `SubSeqFacts`.

*SendThreads* (`SendThreadsProofs`). Two arguments. Counting (`Counted`): the
list has, until it is cleared, as many elements as there are threads that have
not ended, so that a thread that must pick finds one (`ThreadsFindSockets`),
whoever took what. With `ErasedByItsThread` a pigeonhole argument gives
`LeftOut`: when no thread has yet to pick, an element that nobody serves has a
double, two threads that hold the same one. Order (`PicksNext`): while it is
calm, the only thread that has to pick belongs to the last element, hence
`Ownership`. After the list was cleared both arguments end; `LastAlone` says
what is left: at most one element, the last connection, with a thread that
serves it or can only pick it. `SharesGiven`, what the walk of `setMaxSpeed`
leaves behind it, gives `Limiting`, which is about speeds that were divided,
that is, among more than one socket.

*UdtStream* (`UdtStreamProofs`). `IInv` has one part per piece of state.
`SenderInOrder`: pointers and sequence numbers agree, and what is not released
is at its place. `PacketInPlace`: the packet of the worker points to the place of
its block, even when the AckLock is long released. `ReceiverInOrder`: the numbers
from the first unread one on, as many as there are slots, each have a slot of
their own, which holds the block or, if it is in the loss list or was not sent
yet, nothing. `EndsAgree` says what every packet on its way may still claim: an
ACK never more than the receiver has, no NAK more than it has seen, a data packet
the right block unless it is too old to be taken. `QueueInOrder`: if an ACK makes
the number useless that the worker has popped, and the worker therefore leaves the
socket off the heap, then the thread that read the ACK waits for the heap and
will put it back. The lemmas `ModPlus`, `ModRound`, `ModNext` and `ModApart` do the
arithmetic of places and slots; `SlotsApart` is the one that matters, that numbers
less than a round apart have different slots and that `getRcvDataSize` tells how
far apart they are. From `IInv`: `Typing`, `Honesty`, `Retention`, `Exactness`,
`Scheduling`; and `Ordered`, that `Spec => ImplementsStream`. The steps that show
there are `Put`, `Get` and `Break`.

*SeqNo* (`SeqNoProofs`). `OffsetIsDistance`, `ComparisonIsOrder`,
`LengthCountsBothEnds`, `StepsAreShifts` and `OrderOfAWindow` say that `seqoff`,
`seqcmp`, `seqlen`, `incseq` and `decseq` do on the circle what they would do on a
line, for two numbers of which one is fewer than `SeqNoTH` steps after the other,
on a circle of any size (2 * `SeqNoTH` + 2 numbers, as in the program). The loss
lists and `ZudtCC` assume windows of that size (`Window < SeqNoTH`).

*RcvLossList* (`LossListProofs`). The numbers of a window are seen as their offsets
from `m_iRcvLastAck`, which do not wrap, and nodes as places on the ring of the
arrays, counted from the node of that number. `Rep(l, b, c, D, e)` says that the
arrays `l` are the intervals that begin at the offsets `D` and end at `e`: each
at its place and no other place in use, linked both ways to its neighbours, the
first one the head, the last one the tail, with the right length. Every operation
takes a `Rep` to a `Rep`: `RemoveTakesOne` (the four ways of `remove`, of which
each unlinks, moves, cuts or splits a node), `InsertAddsRange` (`insert` at the end
of the list, whose place is free as a window is not longer than the array) and
`WindowMoves` (an ACK changes where offsets are counted from, but no node). On
top of that, `Missing` forgets the intervals, and `RcvInductive` says in one line
what the list is: a set of offsets up to `m_iRcvCurrSeqNo`, in the loop of
`remove` the set from before the call without what the loop has passed, in the
loop of `getLossArray` divided into what has been named and the rest
(`RcvInductiveHolds`). From it follow `RcvRefines`, the refinement of `LossSet`
by the arrays, and `ReportsFit`. No induction over the list is needed, as the
loops are steps and the order of intervals is that of their offsets. The link to
`SeqNo` is `SeqNoProofs`: of two numbers of a window `seqcmp` and `seqoff` tell
the order and the distance of the offsets.

*AckWindow* (`UdtPartsProofs`). `RingRefines`: the sequence of the entries from
the tail to the head is the queue of `AckQueue`, for rings of any size. The lemmas
are about `Count` and `Place`: what a turn of the head or the tail does to the
distance between them.

*SndUList* (`UdtPartsProofs`). `HeapInv` holds in every turn of the loops.
`PlacesKnown`: the heap and `m_iHeapLoc` are inverse to each other, so that the
sockets in the heap are different ones and a new one finds room (`RoomForOneMore`,
a pigeonhole argument). `AlmostInOrder`: during a loop the order fails at one
place at most, between the entry that moves and its parent (`GoUp`) or its
children (`GoDown`), and these children do not come before that entry's parent,
which is why a swap does no harm; it is claimed until a socket was taken out from
inside. `FirstIsDue`: while the worker waits, whoever is first is due, as others
only insert with the time 1 meanwhile, or `firstLeft` says why not. From these:
`HeapInductive`, `HeapOrder` and `WorkerIsNeverEarly`. `FirstIsEarliest` says what
the order is for: the first has the earliest time of all. That is an induction up
the heap, for which the smallest counterexample stands in: of the sockets that
come before the first, the one highest up would come before its parent.

*UdtSockets* (`UdtSocketsProofs`). `Inductive`: between two steps the worker is the
only one who makes sockets, so that what it knows of the socket in its hands stays
true: at `"register"` the socket is in no table but counted; at `"queue"` it is in
the tables and was not given to anybody. With that, `TablesHold`: the collector
finds every socket of the queue in `m_Sockets`, and the count of the multiplexer
is the number of its sockets, so that it ends with the last one and not before.
`AgreementHolds` rests on `peerRec`: while a socket of an attempt is in use, its
record is found under the attempt's key and address, hence no second one is made.
`NobodyOversleeps` needs that only the worker adds to the queue and that it
signals afterwards.

*ZudtCC* (`UdtPartsProofs`). `CutIsBehind`: `m_iLastDecSeq` is `sinceCut` packets
behind the last one sent, which with `ComparisonIsOrder` gives `Freshness`.
`CutsAddUp`: after the k-th cut of an epoch the period is at most (9/8)^k of what
it was, and the roundings, whose sum stays below 7 µs; after the fifth this is
less than twice the period and 7 µs (`CutsAreBounded`). `NotWhileAsked`: while a
`setBW` is under way no limit counts as applied (`LimitHolds`).

*Model-checked only.* `AttemptEnds` (of `Holepoke` and of `Transfer`),
`EverythingArrives` and `EverythingIsRemoved` are liveness, which is out of the
prover's reach. `SndImplementsLossSet` is about a list whose `insert` and `remove`
walk along the links inside one call, which `SndLossList` has as recursive
operators, and a module that reaches one is closed to the prover; what the
receiver's list needed, loops as steps and intervals as offsets, is the way to
it. The three findings are counterexamples.

## 5. Findings

1. `holepoke_transition`. A sender whose wait timed out sends a heartbeat and
   goes to `updateAddress`. If a CONNECT response arrives before the answer,
   `stUpdateAddress` returns `kGotPeerAddressEvent` (sender.cc:266), for which the
   table has no entry: `run` throws `std::logic_error`. Nobody catches it, so the
   process ends, with all its other transfers. `fsm.h:53` says that `run` continues
   until `kFSMStopState`. `OnlyMissingTransition` (proved) says that no machine
   ever throws by another step: of all pairs of a state and an event that can
   occur, this one alone is missing.
2. `holepoke_invalid`. `Receiver` has a state for an invalid id, but
   `stLookupAddressForID` never returns the event that leads to it: the empty
   answer of the server makes `updatePeerAddresses` fail, and the routine takes
   that for a timeout. With a wrong id, `connectToSender` never returns, although
   `receiver.h:31` says it blocks until connected or an error occurred.
3. `transfer_missing`. If the file in which a transfer resumes cannot be opened,
   `startReceive` takes the branch for new files and expects all of it
   (network_receiver.cpp:260), while `sendThread` sends from the offset. The start
   of the next file goes into this one, and at the end both wait for each other.

While modelling we met the following as well. No document of the repository says
otherwise, or the document is too vague to be held against the code, so that no
run is about them; the modules contain them, and the properties name them as
exceptions.

* *A receiver may be told of a sender who is not told of it.* If `holepoked` cannot
  send the news to the sender, it logs that, and answers the receiver all the
  same (holepoked.cc:257 and 286). `unsent`, in `BothTold`.
* *A transfer that is resumed on Windows loses the beginning of a file.* After
  `SetEndOfFile` the file is opened again with `ios::out`, which empties it, and
  `recvfile` writes behind a gap of zeros (network_receiver.cpp:241 to 254). The
  bytes that the receiver was told to skip are gone, and "finished" is printed.
  `gapped`, in `DiskIsPrefix`, `RetryIsSafe` and `FinishedIsExact`.
* *An empty file may be left out.* The loop that skips takes an empty file that ends
  at the offset for received (`<=` in network_receiver.cpp:210), whether or not it
  is there. `Settled`.
* *"finished" does not mean that all was written.* A `recvfile` that expects nothing
  returns before it looks at the stream (core.cpp:1384), so that an empty file
  that cannot be created is passed over; and what fails to be written with the
  last block or by `close` (network_receiver.cpp:279) is not noticed. `short`.
* *Stopping a sender clears the list under its threads.* The command `stop` sets
  `send_finished`, clears `send_sockets` and calls `exit`, and `startSend` does the
  like when it leaves its loop, while `sendThread`s hold iterators into the list
  (network_sender.cpp:297 and 551). `Cleared`, in `OwnConnection` and `NeverEmpty`.
* *One connection alone ignores `max_speed`.* `setMaxSpeed` changes the sockets' rate
  only if there is more than one (network_sender.cpp:559), and a share of 0 means no
  limit. `parts > 0` and `max_speed >= parts`, in `LimitKept`.
* *The collector and the worker may wait for each other.* `removeSocket` deletes
  the receiving queue of the last socket with `m_ControlLock` held and waits for
  its thread (api.cpp:1247), which may be in `newConnection` and wait for that lock.
  `Deadlocked`, in `EverythingIsRemoved`.
* *`accept` may sleep for ever.* It looks at `m_Status` before it waits, and the
  status of a listener stays LISTENING for three seconds after `close`, whose
  broadcast is then over (api.cpp:638). `acceptor.late`, in `NobodySleeps`.
* *`accept` uses a lookup that may fail.* A socket that was taken from the queue,
  broke and was collected is not found by the `locate` in api.cpp:693. `GiveAddress`.
* *`accept` takes the newest connection first*, as the set is ordered by numbers
  that go down; `accept.htm` speaks of the first connection in the queue.
* *Short periods are more than doubled.* The comment in cc.cpp:158 says that the
  rate should not be decreased by more than half; since periods are rounded up
  to microseconds, five cuts take 1 µs to 6 µs. `RateHalvedAtMost` has the 7 µs.
* *A limit is skipped by one ACK after each loss* (cc.cpp:77), and `setBW` replaces
  the block that `onACK` reads, without a lock (ccc.cpp:145).
* *`remove_` may leave the heap out of order*, and the worker may send for a socket
  before its time (queue.cpp:405 and 525). `fromInside` and `firstLeft`.
* *The removal of a range of lost numbers that wraps skips one* (list.cpp:647), and
  *one that ends in the largest number does not end*: no `int32_t` is beyond
  `m_iMaxSeqNo` = 0x7FFFFFFF, so that `i <= seqno2` stays true and `++ i` overflows
  (list.cpp:642). `DropForEver`; only a drop request of the peer leads there, which
  `network_helper`, in stream mode, never sends.

## 6. What is not modelled, and why

| part | why |
|---|---|
| messages, time to live, parts of a block, the growth of the send buffer | `network_helper` sends files in stream mode |
| rendezvous connections, `CUDT::connect`'s own state, the negotiation of sizes in the handshake | clients are the requests they send; the sizes are constants of `UdtStream`. The answer to a repeated request carries another flight flag size than the first (api.cpp:340), which is listed as a hazard |
| the rates of `ZUDTCC`, `CUDTCC`, `CUDPBlast` | floating-point functions of measured rates; the other two are not used by the program |
| `CRcvUList`, `CHash`, the pool of units, the channel, epoll, `CCache`, `CPktTimeWindow`, md5 | scheduling of one thread's own list, system calls, services that this program does not use, statistics, a hash |
| `cleanup` of `CUDTUnited` | runs at the end of the process |
| `network_helper.cpp`, delegates, status lines | command line and output; the offset and the id that pass through them are inputs of the models |
| `uuid.cc` | a call of the operating system |
| `peer.cc`, `test_client.cc`, `test_server.cc` | interactive tools |
| protobuf, gtest, the copies for Windows, project files | third-party code and build files: by far the most lines of the repository, and none of the program's own logic |

Not composed: `Transfer` runs over a reliable stream of bytes, and `UdtStream` is
one of blocks (`Stream`); `SendThreads` says which socket a thread serves, and
`Transfer` what it sends there; the loss lists are sets in `UdtStream` and shown to
be sets in `SndLossList` and `RcvLossList`, with calls that are those of `UdtStream`
but for the wrap of numbers.
