# Verification of FEUP-RCOM

The repository holds two programs. **Project1** copies a file over a serial line between a
transmitter and a receiver, with a stop-and-wait link layer of its own. **Project2** is an FTP
client. This directory holds TLA+ models of them, TLC runs over small instances, and TLAPS proofs
for every instance. Project1 is modelled first, because the loss, duplication and delay of frames
and the races of a signal handler are where testing reaches least.

## 1. Inventory

### Project1 (`src/Project1`)

| Part | State | Operations | Meets the others through |
|---|---|---|---|
| link layer, transmitter: `llopen`, `llwrite`, `llclose`, `atende` (`app.c`) | `linkL->flag`, `linkL->tries`, the pending alarm, the frame being sent | write the frame when `flag` is 0, arm the alarm, read and detect the answer; the SIGALRM handler clears `flag` and counts a try | frames on the line; the handler shares `flag` and `tries` with the loop |
| link layer, receiver: `llopen`, `llread`, `llclose` | the machine of the current call | wait for SET / a frame / DISC / UA and answer | frames on the line; `llread` returns a packet |
| application layer: `sendFile`, `sendFileData`, `sendFileInfo`, `readDataPackets` | sequence byte, descriptor of the file, size announced, bytes handled | start packet, data packets, end packet; open, check the order, write, close; draw the progress bar | calls `llwrite` / `llread` |
| `main`, the dialogue, SIGINT (`app.c`, `api.c`) | settings of the port that have to be put back, the records `linkL` and `appL` | arguments, port, questions to the user, connection, transfer, end | calls all the others; the handler of SIGINT ends the program anywhere |
| information frames: `getBCC2`, `getStuffedData`, `ReceiverStateMachine.c`, `ReceiverFrame.c` | machine state, collected bytes, escape flag, running checksum | build a frame; interpret one byte | fed by `llread` with one byte per `read` |
| supervision frames: `sendSupervisionFrame`, `StateMachine.c`, `waitForData` | one machine per awaited frame | build a frame; interpret one byte | fed by the three calls |
| serial port (`serialPortSetup`, `write_frame`) | kernel buffers | read of one byte with a time limit of 0.1 s, write that may be partial | |
| `errorCreators` | | copies of `app.c` that spoil a byte of a fifth of the frames or delay `llread` | |

Hard here: a frame or its answer is lost, damaged, merged with the next one or late; the alarm
runs at any instruction, also between `alarm()` and `setFlag(1)` or inside `write_frame`; the
control byte never alternates (`CFlag` stays 0), so neither RR nor a frame carries a number; the
receiver has no timer; `read` may return without a byte and nobody looks.

Above the link layer: a file size travels as an `off_t`, is kept in an `int` by both sides and counted in
an `int`; the file may shrink or grow while it is sent, the disk may fill up, and nobody looks at the result
of a write; `read` may fail in a loop that only counts bytes.

What makes it correct: the output file is a prefix of the input in order, never duplicated,
truncated or gapped, and is whole if the numbers can hold it; the port is put back; an RR means that the packet arrived; both sides agree on the connection; a
command is written a bounded number of times and its call returns; a frame is delivered with the
bytes it was sent with, damaged ones are not, and one damaged byte costs a bounded number of frames.

### Project2 (`src/Project2/tcpApp/src`)

| Part | State | Operations | Meets the others through |
|---|---|---|---|
| `download.c` | control and data descriptor | the order of the calls, giving up on an error | |
| `ftpController.c` | bytes of the current reply | send a command and read a reply; login, passive mode, RETR, download, QUIT | the server, over two TCP connections |
| `url.c`, `utilities.c` | the parts of the URL, the size of the file | split the URL, find the size in a reply, write all bytes, name of the file | called by the others |

Hard here: a reply arrives in pieces, in several lines, or together with the next one; the server
closes a connection in the middle; the size is missing or wrong; the end of the file is found by
counting only; a short write is repeated from the first byte; a search in the address begins behind
the index it is given. What makes it correct: each command is matched with its own reply, every loop
ends, the file holds the bytes of the data connection, and the address falls into the parts it was
made of.

### Left out

The class sources, the lab captures and the RFC texts are no part of the programs. What else has no
model is in section 7.

## 2. Plan

Done in this order.

1. `SerialLine`, `Transmitter`, `Receiver`, composed by `FileTransfer`: the protocol, frame by frame.
2. `ReliableCopy`: what the user is promised, implemented by `FileTransfer`.
3. `FileTransferProofs`, `CopyProofs`: the safety of the protocol for all constants, and
   `ReliableCopy` for an alarm that is never premature.
4. `Framing`, `ReceiverMachine`, `InformationLink` and `InformationLinkProofs`: information frames byte by
   byte.
5. `SupervisionLink` and `SupervisionLinkProofs`: supervision frames byte by byte.
6. `Url`, `FtpConnections`, `FtpClient`, `FtpServer`, composed by `FtpSession`: Project2.
7. `FtpProofs`: the address and its parts, the downloaded file and the turns of client and server, for all
   constants.
8. `List`, `ReceiverFrame`, `ReceiverFrameProofs`: the doubling vector.
9. `Packets`, `Programs`, `PacketLink`, `SendFile`, `ReadPackets`, composed by `Application`; `FileCopy`,
   which it implements; `ApplicationProofs`, `WholeProofs`.

## 3. The modules

### The protocol, frame by frame

* **`SerialLine`** - two FIFO lines of frames (`toRx`, `toTx`) and the ways one write can end.
  A damaged frame is one of three things at this level: not recognised at all (lost), collected
  with a wrong BCC2 (`dam`), or without its closing flag (`open`), so that the receiver goes on
  collecting. The spoiled frames are counted in two groups, those of a kind that is written until it is
  answered (`again`) and those that are written once or a limited number of times (`once`): whether the programs
  come to their end depends on the second. A frame that finds the line full is lost: the port has no flow control.
* **`Transmitter`** - the process that runs `llopen`, `llwrite` for each packet, `llclose`.
  `txPc` walks the loop they share: loop condition, test of the flag, write, `alarm`, `setFlag(1)`,
  read. `TxAlarm` (the handler `atende`) may come between any two of them. `tries` keeps the width of
  its unsigned short (`TriesWrap`).
* **`Receiver`** - `llopen`, `llread`, `readDataPackets`, `llclose`. `llread` answers before
  `readDataPackets` looks at the packet, so the packet in between is a variable (`hand`);
  `partial` is a packet being collected beyond its frame. The result of `RxCloseByNext` is a
  choice between RR and REJ, because it depends on the parity of the reads that timed out.
* **`FileTransfer`** - the two on one line, with SIGINT. `Premature` says whether the
  alarm may expire while the answer can still come; `Stalls` whether the process may be stopped
  for a whole timeout between `alarm()` and `setFlag(1)`.
* **`ReliableCopy`** - the abstract specification: packets are received in order,
  acknowledged only then, and the end is seen only with the whole file. `FileTransfer!Copy` maps
  the packet in `hand` and the output file to `received`, `cur` to `acked`.

A frame that meets the reset of the detectors halfway (`app.c:393`) is lost to the transmitter.
At this level that is one more lost frame; `SupervisionLink` has the bytes of it.

### Above the link layer

* **`Packets`** - start, data and end packets and the numbers in them, for a byte of `Base` values, an int of
  `IntDigits` bytes and an `off_t` of `SizeDigits`. `Assembled` is the size that `readDataPackets` puts together
  by shifting an int: one value while the upper bytes are zero, any int otherwise (the shift is undefined).
  The bytes of a file are named by their places in it, so that the output says where each came from.
  `Columns` is the width of the progress bar, `Endless` for a division by zero.
* **`Programs`** - `main` of both programs. `stage` says how far each is, `port` in what state its serial port
  is. The **world** of a behaviour is fixed at its start: the file, what can be read of it, the frame size and
  the tries that were typed, the disk, what the operating system refuses, what `malloc` returns for `linkL`, a
  noisy line, a port that may be unplugged, who may be interrupted. `sigint_handler` may come at any stage.
* **`PacketLink`** - the four calls of the link layer as the application meets them, with what `FileTransfer`
  shows of them under a timeout that is long enough: a packet is taken before `llwrite` returns, and until the
  next one is taken the same may come again; a spoiled frame gives `NULL`. Supervision frames are those that got
  through (`signals`).
* **`SendFile`** - `sendFile`: `fstat` and the start packet, one read and one data packet per round of the loop,
  the end packet, with every way they fail. `total` is the size cut down to an int.
* **`ReadPackets`** - `readDataPackets`: a packet opens the file, is written and counted, or is dropped.
  `Wrote` is what is left of a packet on a disk with little room. `ReadNull` is the null packet that the
  error creators look into.
* **`Application`** - the two programs with one link between them. When the receiver opens the very file that
  is sent, it is empty from then on (`Readable`).
* **`FileCopy`** - the abstract specification: the output is opened empty, grows only by what comes next in the
  input, and is not touched once closed.

### Bytes

* **`Framing`** - bytes as sets of bits, so that exclusive or is the symmetric difference; BCC2,
  stuffing, the frames both programs write, and the ways a line spoils a byte of one (`Spoilt`).
  The loops of `getBCC2` and `getStuffedData` are recursive functions, one value per round.
* **`ReceiverMachine`** - `ReceiverStateMachine.c`: `interpretChar` as a function from a machine
  and a byte to a machine, with the checksum that runs behind the collected bytes and the
  `bcc2` that starts as garbage.
* **`InformationLink`** - `llwrite` writes a frame, the line loses, changes or inserts a byte of
  it, `llread` reads byte by byte and answers. A read that times out feeds the old byte again
  (`ReadTimeout`). `errorCreators/someErrors.c` changes one byte the same way.
* **`ReceiverFrame`** - `ReceiverFrame.c`, one step per round of the loops in `insert` and `removeElement`, with
  memory that is `Unset` until written and a `realloc` that may fail.
* **`List`** - what the vector promises: each call changes the list in one step.
* **`SupervisionLink`** - what `InformationLink` does, for `sendSupervisionFrame`, `StateMachine.c`, `waitForData` and
  the two detectors of `llwrite`, for each of the six calls that wait. `OtherFrames` are the information frames
  that still reach a receiver which waits for a supervision frame; like all of them they end with a flag
  (`FrameFlags` in `InformationLinkProofs`). Whether one is `Harmless` depends on its packet: `<<0, 0x03, 0x0B>>`
  has the bytes of DISC at its end, with a right check byte, and wants only a flag in front of them.
  `ReadTimeout` may come between any two bytes and is not restricted by a constant: unlike `InformationLink` this
  module needs no assumption on pauses. `waitForData` then feeds the zero its buffer was set to, `llwrite` the byte it
  read before, and the frame that is half read is usually lost. That frame is `broken`, like one that the line
  spoils or a resend resets the machines in. `NothingMissed` says that without noise pauses and resends cost no
  frame but those they break into, `BackInStep` that broken frames cost at most one unbroken one behind them.

The frame level trusts the byte level for this: a whole frame is recognised as what it is, a
damaged one is not taken for another, and the damage is over after one more frame. `BackInStep`,
`OneAnswer`, `Transparent`, `HeardExactly` and `NothingInvented` check it. BCC2 is a parity and
misses pairs of errors in one bit position; the frame level assumes that it does not.

In the byte modules a frame is written when the one before has been read. The reader sees one
stream of bytes either way, so this loses no behaviour of the reader.

### The FTP client

* **`Url`** - the two regular expressions, the two parsers and `stripFileName`. An address is a
  sequence of characters from a small alphabet in which "ftp" is one character, with the indices of
  the code. The result of `parseURL` is the set of links it may give: none when it fails, several
  when a field is copied without its end. The unmatched `)` of the user expression is a literal, as
  the C library reads it.
* **`FtpConnections`** - the two TCP connections, and the **world** of a session: what the user
  typed and all manners of the server, TCP and the disk, fixed at the start. A line of a reply is
  its code, because the client reads nothing else but the address of the data connection and the
  size. `Reads` is what one `read` of the control connection can return: some whole lines, of which
  the client looks at the first one only, or a part of a line.
* **`FtpClient`** - the calls of `main`. `stage` names the reply it waits for. `Granted` is the exit
  of the loop of `ftpExpectCommand` with the right code, `Reject` with another one, `PassOver` one more
  round. What was behind the first line in the buffer is gone (`r.rest`). `PassiveUnreadable` is the
  null pointer that follows a cut 227; a size that was cut off may be any number.
  `WriteFrame` gives the file after a short write: the frame again from its first byte (bound: one
  short write in a frame). `connect` and `gethostbyname` fail when the link names no host or port of
  the world, or when the world refuses.
* **`FtpServer`** - external, as the client's code expects it: one answer for each command, then the
  file, then 226. It knows one user, one password and one file. No TYPE is sent by the client, so the
  data connection may carry another number of bytes than announced (`Carried`).
* **`FtpSession`** - the two together. `InTurn` lists what may be on the control connection in each stage.

## 4. The runs

| Run | Question | Bounds |
|---|---|---|
| `transfer_any_timer` | safety with any timer | 3 data packets, 2 faults of any kind, 2 tries |
| `transfer_safe_timer` | does an RR mean received, does the copy implement `ReliableCopy`, when the timeout is long enough | 3 data packets, 3 faults |
| `transfer_lives` | do `llopen` and `llclose` return, does all data arrive, do both ends close, does `llwrite` ever fall silent | 3 data packets, 2 faults of any kind, a receiver that may be killed |
| `application` | does the file arrive exactly when it can, is the size right, is the port put back, do the programs end, is the output a copy | 1288 worlds, see below |
| `frames` | is framing transparent, is the receiver back in step | one frame of any of 625 packets of four bytes over {flag, escape, their marks, 0} and 243 of five over three of them; or 4 frames, 2 damaged, of 2 packets that need stuffing or look like headers |
| `vector` | does the vector stay in its memory, is it a list | 5 elements of 3 values: four growths, up to 8 cells |
| `answers` | does each waiting call take exactly its frames, and what does a broken one cost | 3 frames, 1 damaged, pauses and resends at any byte, all six calls |
| `ftp_session` | is a successful download whole, is each command answered by its own reply, when does the client fail, when does it end, is the address taken apart rightly | a file of 2 bytes; 448 mixtures of manners with one address; 44 addresses with a polite server |
| `ftp_welcome` | is a reply in several lines understood | one polite server that says 230 in two lines |
| `ftp_usage` | is an address accepted that is written as the program says | one polite server, one address |
| `stale_rr`, `frames_paused` | two statements of the documentation that the code does not keep | the smallest that shows it |

*Why the bounds are enough.* `SeqMod` is 2 instead of 256, the hardest case for the sequence byte:
a copy two packets old would already pass. Three packets give every neighbour relation (first,
middle, last, wrapped byte). `LineCap` 2 lets a frame and its repetition, or two answers, be on the
line at once, and a third is lost. Two faults let a fault meet the recovery from another.
`MaxTries` 2 makes giving up and succeeding at the last try both happen. The proofs remove these
bounds for the safety properties they cover. In the byte runs, a damaged frame followed
by two whole ones is the least in which `BackInStep` can fail. Two bytes let the data connection
be read in one piece or two, with the end behind them or not, and a short write leave a byte out or
write one twice. The manners of a world are combined in every way, so a property that names its
conditions (`Ends`: no joined lines, nothing cut, a server that stays) is checked under all others.

In `application` a byte has two values, an int four bits and an `off_t` five bytes, so that a size passes the
sign of the int (8), the whole int (16) and its own upper byte within 31 bytes, the sequence byte wraps every
two packets, and the length of a packet needs both its bytes. Frames of 5 to 7 bytes hold one to three bytes of the file. One part of
the worlds vary the file and the disk on a good line, the other line, signals and refusals with short
files; the two meet in the proofs, which hold for every set of worlds.

The addresses have names of one and two characters, and slashes at the start, twice in a row and
before the last name, where an index can be off by one.

*Fairness.* `FairSpec` asks that a process that can go on does (weak fairness of the loop and of the
receiver's steps; both processes run, nothing in the code blocks but a read of 0.1 s), that
the kernel delivers a pending alarm, and that a transmitter which polls again and again sees an
answer that stays there (strong fairness, since the loop leaves and re-enters the state in which it
reads). In `FtpSession` the client goes on when it can, and the server answers until it vanishes (weak
fairness of both; vanishing has none). Nothing asks the line to deliver anything: faults are bounded instead. SIGINT has no
fairness. In `Application` both programs run and the link carries what is written to it (weak fairness of `Main`,
`Link`, `Send`, `Receive`, `Read`); that the link delivers is what `transfer_lives` shows of the one below it
(`AllDataArrives`, `BothClose`), and includes a user who starts the receiver before the tries are used up.
The signal and the unplugged port have none.

*Deadlock* as TLC means it is not checked, because every one of these systems may really stop: the programs
end; a receiver without a timer waits forever for a transmitter that gave up; the byte models end when
`NFrames` are written; a vector without memory crashes; an FTP session ends or polls a connection on which
nothing will come. Where a system must not stop early, a liveness property says so: `BothClose` when no
frame of `once` is spoiled and nobody is killed, `CommandsReturn`, `Ends` of both programs.

## 5. What the disagreements are

* `stale_rr` - the report: "Se for RR, então a mensagem foi transmitida corretamente". An alarm
  before the answer gives two RRs, and the second is counted for the next packet.
* `frames_paused` - the comment at `app.c:115` says the inter-character timer is unused. It is
  used, and a pause inside a frame feeds bytes twice; a doubled zero byte is not even seen by BCC2.
* `ftp_welcome` - RFC 959 asks the client to read a reply up to the line with the code and a space.
  The client takes every line with a code for a reply, so the second line of the welcome answers PASV
  and the session fails.
* `ftp_usage` - `printUsage` (`utilities.c:14`) tells the user to type `ftp://<user>:<password>@<host>:<port>/<url-path>`.
  The expression wants a "]" behind the "@", so the program rejects that and prints the same usage again. The
  theorem `UsageRejected` says so of every address of this form.

Without a run of their own, because the model only follows the code in them: the size of a file of 2 GiB or more
is negative for the sender (`app.c:455`) and no data is sent, except that the counter of `sendFileData` can step
over what an int shows of 4 GiB or more and come round, so that the file is sent whole after all (`Rewound`); a file that became shorter makes `sendFileData`
read forever (`app.c:499`); an empty file draws a bar without end (`app.c:459`); an uninitialised pointer is
freed (`api.c:71`); SIGINT before `getOldAttributes` writes settings nobody saved (`app.c:216`). The properties
of `application` name these as their conditions. The receiver answers SET once; when that answer is lost, the
repetitions of SET meet `llread`, which drops them (`app.c:563`), and `llopen` fails after its last try, as
`CommandsReturn` allows. With the form the expression does accept, `[user:password@]`,
the path begins at the port (`url.c:201`, theorem `BracketsAsTyped`), so the server is asked for
`.:21/path` and refuses. `FailsOnlyWhenRefused` is therefore stated for anonymous addresses, the only
ones that can succeed. `Ends` excludes two more waits without end: 150 and 226 in one read, where the 226
is thrown away, and a server that closes the control connection, whose `read` of 0 bytes is repeated.

## 6. The proofs

Assumptions: `LineAssumption`, `TxAssumption`, `RxAssumption`, `TransferAssumption`,
`SupervisionAssumption`, `FtpAssumption`, `AddressAssumption`, `AnonymousAssumption`, `CredentialsAssumption`,
`FrameAssumption`, `PacketAssumption`, `WorldAssumption` of the modules; no more. `PacketAssumption` says that the
powers of `Base` are numbers, which the provers cannot compute for a constant. `AddressAssumption` says that an
address has a host and a path of the characters the expressions in `url.c` allow, `CredentialsAssumption` the same
of a user, a password and a port where they are typed, and `AnonymousAssumption` that an anonymous address stands
for those of `url.h`; `WorldAssumption` says of the frame size what the dialogue enforces, that the data of one packet
fits the two bytes of its length.

**`FileTransferProofs`** - `FileInOrder`, `FileOpened`, `FileKept`, `SidesAgree` and `TypeCorrect`
hold for every number of packets, tries and faults, every line, and any timer. None of them is
inductive. The invariant is `IInv`:

* `OrderInv`: all packets in the system stand in one nondecreasing row - output file, packet in the
  receiver's hand, frames on the line, packet being sent - and the order byte counts the output. So
  when a copy arrives it arrives directly after itself. This is why one sequence byte is enough
  (`SeqMod` of at least 2, `NeighbourBytes`): the only packets a receiver can meet after packet i are
  i again and, if nothing was skipped, i + 1; one that skipped ahead and still shows the expected
  byte is larger than all that was written, so the file stays increasing.
* `StartInv`: the transmitter gets past the start packet only by an RR, and the first RR of a
  transfer answers the start packet. So the file is open before any data is handled, and a repeated
  start packet can only be met while no data has been written (`StartEmpty`).
* `ConnectionInv`: what a command on the line says of its writer. `PhasesAgree` needs it because a
  command is answered long after it was written.

TLC checks `IInv` as an invariant of `transfer_any_timer`.

In the same module, `CommandsLimited`: the number of writes of a command follows the number of
expiries; `RetryInv` carries both through the loop, with the one extra expiry between the loop condition and the
flag. `RetransmissionPending`: with `Timeout > 0` and no stop between `alarm()` and `setFlag(1)`, an
alarm is pending wherever the flag is set. Both hypotheses are needed: the code does not check the
timeout that is typed, and the two calls are not atomic.

**`CopyProofs`** - `AnswersTrue` (`RRMeansReceived`), `FileWhole` and `CopyImplemented` (`ReliableCopy`), for
every file, line, number of faults and tries, and whoever is interrupted, under the one assumption `~Premature`:
the alarm expires only when nothing is on its way any more (`Quiet`). `stale_rr` shows that it cannot be dropped.
The invariant is `TimelyInv`, on top of `IInv`:

* `OneExchange`: at most one frame is on its way in both directions together, and none when the loop stands
  before a write. It is what the alarm's patience buys, and fails with the first premature expiry.
* `AnswerInv`: so whatever is on its way, being collected or answered belongs to the packet being sent, and an RR,
  which carries no number, can only mean that one.
* `CopyInv`: what the transmitter counts has arrived, and the file has no gap. Then a packet in the receiver's hand is
  the last of the file or the next one (`HandNext`), which one sequence byte tells apart.

TLC checks it in `transfer_safe_timer`.

**`InformationLinkProofs`** - for packets of any bytes and any length from two on (`llwrite` is given no shorter
one: a data packet has its header), any number of frames and spoiled frames, any noise and garbage. `Types` needs no hypothesis. The others assume `~Pauses`: a
read may time out between two frames but not inside one. `frames_paused` shows that this cannot be dropped, and
VTIME is what is counted on for it: a frame is written by one `write`, and the next byte is there before 0.1 s
are over. What the loops compute is proved by taking the least round in which it would be wrong (`Least`).
First come the lemmas about the frame: a checksum of an appended byte is one more exclusive or, a stuffed
packet contains no flag and does not end in an escape byte, a spoiled frame has at most two flags before its last
byte. Then the invariant, `IInv`:

* `StepInv`: after an unspoiled frame `llread` is either in step - it has collected the first n bytes of packet and
  BCC2, is between the two bytes of a stuffed one or not, and what is on the wire is the stuffing of the rest
  (`Coming`) - or out of step with nothing missed yet, and then the closing flag, which comes once and is not escaped, brings it
  back (`OutOfStep`). `FramesTransparent` is the case without noise, `OneFrameMissed` the other.
* `Summed`: the running checksum is two bytes behind. Only so is it the checksum of the packet when the flag
  comes, and its last byte the BCC2 that was sent (`ChecksumTwoBehind`).
* `QuietInv`: without noise the answers are one RR per frame.
* `AnswersInv`: the answers given and those that the bytes on the wire can still cause (`Due`) are no more
  than the frames written. The bound on the flags is needed because a flag inserted into a frame makes two of it, and
  the machine must not be in the right state for both (`AnsweredOnce`).

**`SupervisionLinkProofs`** - for every set of callers, any number of frames and spoiled frames, and reads that time out
and resends that come between any two bytes, inside frames as well as between them.

* `TakenExactly`: whatever bytes are fed, a machine that is FINAL has been fed exactly the five bytes of its frame
  last. `FedInv` says for every state which bytes were fed.
* `QuietTaken` (`NothingMissed`) and `OneFrameMissed` (`BackInStep`) from `IInv`. Both speak of unbroken frames, those
  into which neither the line nor a pause nor a resend has broken; a frame with a pause inside may be lost, and
  is in the code. While an unbroken frame is read, the machine that awaits it is at the byte that comes next
  (`Track`), or it is behind by a frame the line spoiled, and then none has been missed yet and the closing flag leaves no
  machine inside a frame (`Ends`). `Ends` also holds of what is left of a frame broken by a pause or a resend, since no
  byte is lost with it: so without noise the next frame finds every machine ready. Between two frames a timed-out
  read feeds zero or the last byte again; neither opens a frame, because a machine that is in FLAG was fed the very
  flag that is in `bytesStream` (`ByteInv`).
* `NoneInvented` (`NothingInvented`) from `ApartInv`, which relates the machines to the bytes still to be read: these let
  no machine take a frame but the last two written (`Done`), and leave none inside a frame but the last (`Cut`); the same
  holds of a flag that stands among them (`Ahead`). A pause only sends a machine back to its start, with two exceptions
  (`Paused`): `llwrite` may feed a flag again, and the zero of `waitForData` passes for the check byte of a
  SET. So a frame of four bytes has to be reckoned with too (`Rests`). That one wrong byte
  does not turn a supervision frame into another (`WrittenClear`) is a case for each way and place, from bit 0, which is in every
  address and control byte and in no flag or check byte. The theorem assumes of the information frames that they are
  `Harmless`, which asks the same of them; the run's are (`RepeatedHarmless`).

TLC has checked both invariants in `answers`.

**`FtpProofs`** - `AnonymousAsTyped`: for every host and path, of any length, the address
`ftp://host/path` passes `validURL` and falls into that host and that path. The two searches meet the
second slash and the first slash behind the host (`FoundFirst`), no "@" keeps the user expression from
matching (`NotUserAuth`). `FoundOrNot` bounds what a search returns; `ParsedLinks` follows for the types.

`PartsAsTyped` (`PartsOfUrl`) says what main makes of any address. `At` says where a part begins, and
`FoundBehindPart` that a search begun inside a part ends at the sign behind it, so that `BracketsAsTyped` follows
search by search and `UsageRejected` from the only slash with a colon in front of it. `stripFileName` is a recursive
function, of which the provers only know an equation once it exists: `FollowsExists` builds it from the end of the
path backwards, by the least length that has none, and `LastSlash` follows it the same way. `LocalName` then shows
that it may stop at the slash before the last when the two stand together, and that the local file has the last
name all the same. In the session the invariant is `Parts`: with brackets the file that is asked for is another one
(`OtherThan`), so the 150 never comes and no file is opened (`Unserved`); the form of `printUsage` does not
get that far. TLC has checked `Parts` with the worlds of `ftp_session`. This rests on the assumptions on the address.

`SuccessIsWhole`: for a file of any size, any worlds and any timing, success means the
whole file, under the conditions `SuccessMeansWhole` names. From `FtpAssumption` alone. The end is
found by counting, so the invariant has to say what the count means: `Counted` (read and unread bytes
are the bytes sent), `InOrder` (byte i of the file is i, and the connection carries on where the file
ends), `Sized` (from FileOk on the announced size is known, and at the end it is reached). TLC has
checked `IInv` in `ftp_session` too.
`TurnsTaken`, `OwnAnswers` (`InStep`) and `NoNeedlessFailure` (`FailsOnlyWhenRefused`) rest on `TurnInv`, which
TLC checks in `ftp_session`. The client looks at a code only, so what it takes for an answer depends on everything
that may stand in front of it: the second line of the greeting, which stays until the answer to USER meets it and
may carry that answer away when TCP joins them; and 226, which may come while 150 is still unread. `InTurn` says
stage by stage which of these there can be, and that a command waits only when no answer does. `NoNeedlessFailure`
needs `AnonymousAsTyped` as well: the host that is looked up is the one that was typed.

**`ReceiverFrameProofs`** - for vectors of any length. `Invariant`: no access leaves the memory and no element is
an unwritten cell; `CellsWritten` has to say what the loops have moved so far. `ListImplemented`: the cells
implement `List`. While `insert` moves cells up, the list behind them (`Seen`) is the old one, read on both sides
of the gap; a removal is over for the list when its loop begins. So each loop round is a stutter and each call one step.

**`ApplicationProofs`** - for every set of worlds, every width of numbers and every frame size. `PortKept`:
once the settings are saved, no program ends without putting them back; from `PortInv` (a port not yet set up is
as it was found) alone. `FileCopied`: `Application` implements `FileCopy`. The output is not a prefix by
anything one packet says, since a packet carries only one sequence byte, a copy may come at any time and a full
disk leaves a part of a packet. The invariant is `IInv`:

* `RowInv`: there is a place x in the input where the bytes already returned by `llread` end and the bytes on
  their way begin. The packet returned last is either still in the hand, next in order, and the output has
  reached its first byte (`InHand`), or it is handled, and its sequence byte is the one before the expected (`Handled`), so
  that its copies are dropped: this is where `Base > 1` is needed. What is sent but not taken carries the bytes
  from x on and the byte that follows (`OnItsWay`); otherwise the next read begins at x (`NextRead`).
* `Reached`: the output has all bytes in front of a place, or the disk is full and it has fewer.
* `PacketInv`: which packets can be where, so that a start packet meets an empty output and nothing follows the end.

**`WholeProofs`** - what the numbers do, for every world and every width of byte, int, `off_t` and frame.
`SizeAnnounced`: the digits of a size that an int can hold are zero above it, so the shifts that are undefined add
nothing (`LowOfSize`, by the least digit for which it fails). `FileWhole` (`WholeWhenCopyable`) rests on
`OpenInv`, `LoopInv` and `EndInv` on top of `RowInv`: nothing is taken before the file is open; `bytes` is what an int
shows of the bytes sent, so the loop ends where `total` says; and at the end the output has all that was read, or
the disk is full. The proof refuted an earlier form of the property, which said that a file too large for an int
is never whole: TLC then found the size that `Rewound` describes. `BarKept` (`BarFits`): the quotient of a part and its whole is
at most the width of the bar (`ColumnsFit`). TLC checks `IInv` in `application`.

*Only model-checked:* liveness (no prover here handles fairness).

## 7. Not modelled

Project1: the characters of the file name and what the end packet says (nobody reads it); the speed and the
texts that are printed, and the rounding of the progress bar within one column; the baud rate, `tcflush`, the other fields of
the settings, which are one value here; SIGTERM and other signals; `malloc` that fails for a fixed structure
(`newFrame`, `linkL`), memory that is never freed, `delete`, which nothing calls, and arrays allocated one byte too
short (`appLayer.c`); a packet of an unknown type (`app.c:660`), which no sender writes. Of the error creators, the
choice which frame and byte to spoil (the models take any), and the fixed place `someErrors.c` spoils even in a
shorter frame. `PacketLink` is an abstraction of `FileTransfer` by argument, not by a checked refinement: the two cut the
calls of the link layer at different steps.

Project2: the text of the replies (the six numbers of the passive
address, the digits of the size), the progress bar and the clock; errors of writing a command; addresses
longer than the buffers of `url`; a connection that is reset while it carries the file (`ftpController.c:364`). When the
server vanishes (`Vanish`), both connections end in order: what was sent can be read, then `read` returns 0.

The class sources and lab captures are not part of the programs.
