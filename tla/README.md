# Verification of the image transfer demo

The repository is a pair of programs that send camera images over TCP to
compare ways of sending them.  `src/Server` (C++) mocks a camera: a command
typed at its console reads a bitmap, packs it into a message, raw or as a JPEG,
and sends it to the client that is connected.  `src/Client` (C#, WinForms)
connects, cuts the byte stream back into messages and shows the images.

This directory holds TLA+ models of the parts that carry the programs' logic,
TLC runs that check them on small instances, and TLAPS proofs of what the
receiver of images, the client's window, the server's threads, its memory, the
way of a picture's bytes and the row buffers of the JPEG encoder guarantee for
every instance.

## 1. Inventory

| Component | Source | State | Operations |
|---|---|---|---|
| Image reassembly | `ClientAsyncReceive.cs`, `StateObject.cs` | `RawData` (chunks), `TargetLength`, `CurrentLength`, local `rawData` | `ConnectServer`, `ReceiveCallback` |
| TCP server | `TcpServer.cpp/.h` | `mIsListening`, `mClientFd`, the listening socket, the listener thread | `StartListen`, `StopListen`, `ListenFunction`, `SendData` |
| Server console | `main.cpp` `main` | the command read | `CloseConnection`, `Test`, `TestJpeg` |
| Image path | `main.cpp` `MockGrabImage`, `EncodeImageToJpegByteStream`, `SendImage`; `MainFormPresenter.cs` `ReceiveServerRawData`, `SaveByteArr2Bitmap` | an image in its forms: bmp file, `RorzeImage`, message, bitmap | grab, encode, send, decode, display |
| Client window | `MainForm.cs`, `MainFormPresenter.cs` | the picture shown, `IsInfiniteTest` | buttons, `DisplayImg` |
| Memory of a command | `main.cpp`, `jdatadst.c`, `jmemmgr.c` | the blocks of the heap, the pointers to them, libjpeg's pools | every `new`, `malloc`, `free`, `delete` of `Test` and `TestJpeg` |
| JPEG encoder: rows to MCUs | `jcapistd.c`, `jcapimin.c`, `jcmainct.c`, `jcprepct.c`, `jcsample.c`, `jccoefct.c`, `jcmaster.c` | the rows of the preprocessor, the strip, the coefficients kept, the pass | `jpeg_write_scanlines`, `jpeg_finish_compress` |
| JPEG encoder: entropy coding | `jchuff.c`, `jdatadst.c` | the bit buffer, the restart counters, the buffer of the destination | `encode_mcu_huff`, `finish_pass_huff`, `empty_output_buffer` |
| Test statistics | `RecordTestingResult.cs` | min, max, mean, mean of squares, count | `RecordInformation` |
| Time counter | `TimeCounter.cpp/.h` | `mStart`, `mTimeLastStart` | start, read |
| Legacy client | `Client.cs`, `RjProtocolPackageDecoder.cs`, `PackageDecoder.cs` | a socket | read everything available as one package |
| The rest | the rest of libjpeg, `DateTime.h`, designer code, build files | | |

How they interact.  The console thread and the listener thread of the server
share `mIsListening` (an atomic), `mClientFd` (a plain `int`) and, through the
kernel, the descriptor table.  The server writes each message with one
blocking `send`; TCP makes one stream of them.  In the client a receive runs
`ReceiveCallback` on a thread of the pool; there is at most one at a time,
because only the callback posts the next receive.  The callback invokes the
presenter's handler synchronously, and the handler waits for the UI thread to
show the image.  The buttons run on the UI thread and write to the same socket.
`EncodeImageToJpegByteStream` gives libjpeg an image line by line; inside it the
main controller has the preprocessor fill a strip and the coefficient controller
cut it into MCUs, the entropy coder makes bits of these, and the destination
doubles its buffer when it is full.  The buffer passes from the library to
`EncodeImageToJpegByteStream`, the copy made of it there to `SendImage`.

What is hard in it:

* a receive may end anywhere in the stream, and may hold several messages;
* the lengths kept between callbacks describe different things at different
  times (the frame being assembled, the frame handled last);
* `mClientFd` is read by one thread while another closes it, and descriptor
  numbers are used again at once;
* `StopListen` only clears a flag that is looked at between blocking calls;
* clients may go at any time, also between the two sends of two images;
* `mIsListening` has no initial value;
* the UI thread, the callback and the server's console each have a call in
  which they wait for another of them;
* the connection is made before the window has a handle, so that the callback
  cannot tell that it is not the UI thread;
* the buffer of a JPEG moves while both the encoder and `main.cpp` hold pointers
  into it, and every block has another owner in the end;
* libjpeg can be left in the middle of a line, of an MCU and of a byte, and has to
  go on there; the bottom of an image is filled up in three places, differently;
* four places compute the size of an image, and each turns it or not: they have
  to agree across two programs.

What makes each component correct:

* *reassembly*: the images handed over are the images sent, in order, each once
  and whole; no byte is lost or counted twice; no complete image waits for
  later bytes; every image is shown in the end unless the client breaks down;
* *TCP server*: one connection at a time and no descriptor leaked; images go to
  the client being served and to nobody else; stopping takes effect after at
  most one more event; lost connections are closed and waiting clients served;
* *image path*: the picture shown is the picture grabbed;
* *client window*: the callback and the UI thread never wait for each other;
* *memory*: no block is used or freed wrongly, and none is left after a command;
* *JPEG encoder*: every scan gets its MCUs in order, each once, made of the right
  rows, and the bytes are those of the codes, however the lines come and wherever
  there is no room;
* *statistics*: minimum, maximum and mean are those of the samples.

PROJECT.json lists the hazards, each at its line, with the properties that
cover it.

## 2. The modules

| Module | What it is |
|---|---|
| `ImageDelivery` | What sending images promises, whatever carries them |
| `ReceiveCallback` | The client's reassembly over the frames of `SendImage`; refines `ImageDelivery` |
| `ReceiveCallbackProofs` | Proofs about `ReceiveCallback` |
| `TcpServer` | Both threads of the server, its descriptors, its clients; refines `OneAtATime` |
| `ClientWindow` | UI thread and callback of the client, listener and console of the server, and the two bounded directions between them |
| `ClientWindowProofs` | Proofs about `ClientWindow` |
| `OneAtATime` | What a server of one client at a time promises |
| `TcpServerProofs` | Proofs about `TcpServer` |
| `ImagePath` | Where each byte of a picture comes from, from the bitmap file to the controls |
| `ImagePathProofs` | Proofs about `ImagePath` |
| `ImageMemory` | What a command of the server's console allocates and frees |
| `ImageMemoryProofs` | Proofs about `ImageMemory` |
| `JpegRows` | The rows of an image on their way to the MCUs of each scan |
| `JpegRowsProofs`, `JpegMcusProofs` | Proofs about `JpegRows`: the first pass and all of them, and what the buffers hold |
| `JpegBits` | The codes of the MCUs on their way to the bytes of the destination |
| `JpegBitsProofs` | Proofs about `JpegBits` |
| `MCReceiveCallback`, `MCTcpServer`, `MCImageMemory`, `MCJpegRows`, `MCJpegBits` | Constants for TLC |

A few definitions are variants of another one with a likely mistake in it
(`TakeLastKeepsData`: the list of chunks not cleared; `CloseNothing`: the
`close` forgotten).  No specification uses them.  They stand in front of the
definition they vary, and PROJECT.json says which property tells which variant
from the code.

### ReceiveCallback

A byte is its offset in the stream, so a buffer of the program is an interval
of offsets and the contents are needed only where the code reads a length.
`sent` holds the frames with their offsets; `arrived` is how far the receiver
has come; `RawData` is kept as the length of its first chunk (what the code
reads the length from) and of all chunks (it always ends at `arrived`); the
local array `rawData` is the offset it begins at.  `Word(p)` is what
`BitConverter.ToInt32` returns at offset `p`: the length of a frame where one
begins, image data, that is any member of `PixelWords`, elsewhere.

| Action | Code (`ClientAsyncReceive.cs`) |
|---|---|
| `ConnectServer` | 32-56 |
| `SendImage` | `main.cpp` 171-229: one frame at the end of the stream |
| `Receive(n)` = `StoreChunk` and then `HeaderSplit`, `FrameComplete` or `FrameIncomplete` | 64-114, 186: `n` bytes stored, length read, compared |
| `EndOfStream`, `ConnectionReset` | 64-65: nothing read, or `EndReceive` throws |
| `LoopEnds` | 115: the condition of the loop is false |
| `NegativeLength` | 117: `new byte[...]` throws |
| `TakeLast` | 117-127, 156-161: the image is shown, nothing is left |
| `TakeAndKeepRest` | 117-138, 148-153: it is shown, the rest becomes the first chunk |
| `TakeAndContinue` | 117-147: it is shown, the rest is the next `rawData` |
| `HandlerThrows` | `MainFormPresenter.cs` 94-130: the handler throws |

`Invoke` is when an iteration gets to the handler (line 123), and `Show` that the
handler returns; `handled` is what it was given and has shown.  It throws for
image data taken for a header, and for a true header without image data
(`NoImageData`: a raw image of no channels, line 107, or an empty JPEG), unless
other bytes follow which it then takes for the image's.  An exception in the
callback ends the client, as nothing catches it: `pc` is then `"crashed"` and
`fault` says why.

`LoopIsSafe` is the condition under which the decoding loop is right, and
which the code neither states nor checks: `TargetLength` is not set again for
the next image of a buffer, so two frames of different lengths must never fit in
one receive of 1024 bytes.  The frames of the 512 x 512 test image (262161
bytes raw, some 20 KB as JPEG) meet it.  Delivery in order is checked and proved
for frames that meet it.  `ImagesAreWhole` and `NeverTwice` are what is left for
any others, and are proved without it; the run `next_image` shows what is lost.

### TcpServer

A step is one access to shared state or one system call.  `files` is the
descriptor table: the kernel gives out the lowest free number, to `accept` in
the one thread and to `fopen` in `MockGrabImage` in the other.  `SendData` is
two steps, the read of `mClientFd` and the `send`, and so is `accept` with its
assignment, so that the race of the plain `int` shows as either value.

`client[c]` is the connection of client `c` as the server's calls see it: `off`,
`connected`, `closed` (a FIN came), `refusing` (and an image was sent since, its
reset is on the way), `reset` (a reset the server has not been told of) and
`broken` (the next `send` raises SIGPIPE).  `Connect` needs no `accept`: the
kernel completes connections into the backlog.

| Action | Code |
|---|---|
| `StartListen`, `RefuseToListen`, `StopListen` | `TcpServer.cpp` 21-28, 53-64 |
| `OpenImage`, `NoImageFile`, `CloseImage` | `main.cpp` 119-150 |
| `LoadClientFd`, `SendFails`, `SendReaches`, `SendIsLost`, `SendReportsReset`, `SendKills` | `TcpServer.cpp` 116-123 |
| `Bind`, `BindFails` | 68-80 |
| `OuterTest`, `Accept`, `AcceptFails`, `StoreClientFd`, `GiveUp` | 82-90 |
| `InnerTest`, `RecvData`, `RecvEnds`, `CloseClient` | 92-110 |
| `Connect`, `ClientSends`, `ClientExits`, `ResetArrives` | the clients and TCP |

`serving`, `reached`, `wasted` and `late` are history: the client accepted last,
who got the last image, whether an image was sent in vain on the connection, and
how many accepts and receives came after `StopListen`.

`OneAtATime` is the server as its clients may rely on it: they are served in the
order in which they came, each once, and an image goes to the one being served or
to nobody.  `Service` in `TcpServer` instantiates it: the queue is the kernel's
backlog, and `current` is whoever is at the other end of an open descriptor.  The
property `ServesOneAtATime` says that two threads, a plain `int`, reused
descriptors, resets and SIGPIPE do nothing else.

### ClientWindow

Who waits for whom.  `ui` is what the UI thread does: it constructs the form
(and connects), creates the window, runs the message loop, is in `Send`.
`callback` is the place of the receive callback: the receive is posted, it asks
`InvokeRequired` (`check`), it draws by itself (`direct`) or waits in `Invoke`.
`toServer` and `toClient` count whole messages in the socket buffers of both
ends; `console` is the console thread of the server, in `send` or not.
`server` is the connection as the listener has it: in the backlog, served, with
one more `recv` to return after `StopListen` (`stopping`), no more read
(`stopped`), gone.

It composes with the other modules by abstraction: a message taken from `toClient` is
an image that `ReceiveCallback` hands over; `stopping` is what `OneLateEvent` of
`TcpServer` allows.

| Action | Code |
|---|---|
| `Construct`, `CreateHandle` | `MainForm.cs` 22-30, `Program.cs` 20 |
| `ConnectClick`, `GrabClick`, `InfiniteClick` | `MainForm.cs` 136-157 |
| `SendReturns` | `ClientAsyncReceive.cs` 250-253 |
| `CloseWindow` | `Application.Run` returns |
| `ReceiveImage` | `MainFormPresenter.cs` 94-130: raw images go to two controls |
| `CheckInvokeRequired`, `DrawDirectly`, `RunInvoked` | `MainForm.cs` 70-100 |
| `ReceiveEnds` | `ClientAsyncReceive.cs` 64-65 |
| `Accept`, `ServerReads`, `StopListen` | `TcpServer.cpp` 21-28, 82-104 |
| `TestCommand`, `ConsoleSendReturns` | `main.cpp` 243-262, `TcpServer.cpp` 116-123 |

### ImagePath

A byte of the bitmap file is its offset, so the pictures shown say which byte of
the file is at which place; `Unknown` is a byte the programs never wrote.  The
arithmetic on sizes, strides and channels is the code's.  The JPEG codec keeps
what it is given.  A command grabs and sends in one step, since nothing else
touches the image; messages queue up to the client.

| Definition | Code |
|---|---|
| `GrabFile`, `GrabNothing` | `main.cpp` 111-163 |
| `EncodeImageToJpegByteStream` | 31-103 |
| `Packed`, `SendImage` | 171-229, 243-262 |
| `ShowRaw`, `ShowJpeg`, `CopyThrows` | `MainFormPresenter.cs` 94-130 |
| `SaveByteArr2Bitmap`, `ConvertByteArr2HImage` | 55-77, 132-141 |

`RawShowsBytesRead` says what is shown of a raw image: the bytes from the 54th of
the file on, so the palette first and as many of the last pixels missing.  Taken
for pixels they are upright if the file has the usual order of rows, the reversal
of the array in the server and the mirroring in the client making up for each
other, but each is one place off, and the corner is unknown; if the file is stored
top down they are not reversed, and are shown mirrored.  `ControlsDiffer` says
that the Halcon window is the mirror image of the picture box if the image shown
last came raw, and the same picture if it came as a JPEG.  Both are stated for
8 bit files whose width is a multiple of 4, the others being skewed by padding
both programs ignore.

### ImageMemory

A block is an address that may be given out again once it is free; `heap` says
with what it was allocated, `ptr` where the pointers of `main.cpp` and of libjpeg
point, a pointer that was freed included, `pools` which blocks the pools of the
JPEG object hold.  Each allocation may fail, which ends the process in one of the
ways of `Ends`, or is overlooked (`rowData`, `imgData`).  Every step that frees or
follows a pointer adds those whose block is no longer theirs to `misused`.

| Action | Code |
|---|---|
| `Command`, `NewData`, `NewTemp`, `Reverse`, `DeleteTemp` | `main.cpp` 116-161 |
| `SendJpeg`, `CreateCompress`, `NewDestination`, `InitialBuffer`, `SetDefaults`, `StartCompress` | 31-67, 184-194; `jmemmgr.c` 1024-1061; `jdatadst.c` 232-267 |
| `WriteScanline`, `Grow`, `GrowFails`, `FreeRow` | `main.cpp` 72-93; `jdatadst.c` 121-149 |
| `FinishCompress`, `DestroyCompress` | `jdatadst.c` 178-185; `jmemmgr.c` 926-1016 |
| `AlignedAlloc`, `CopyJpeg`, `FreeTmp` | `main.cpp` 97-102 |
| `SendRaw`, `CopyRaw`, `NewBuff`, `Pack`, `SendData`, `DeleteBuff`, `FreeImgData` | 201-228 |
| `DeleteData`, `DeleteImg` | 248-251 |

### JpegRows

A row of the image is its number, a row of samples the sequence of the rows it is
computed from, a block the sequence of its rows of samples, an MCU its blocks by
component.  So the model has the buffers of the code, with their indices, and what
is in them says where it comes from.  `TrueMcu` is the reference: which rows the
n-th MCU of a scan is made of, by the sampling factors alone.

| Action | Code |
|---|---|
| `WriteScanlines(n)`, `NeedMoreRows` | `jcapistd.c` 77-112; `jcmainct.c` 114-133 |
| `PreProcess` | `jcprepct.c` 129-189: without context rows |
| `PreProcessContext`, `PadContext` | 198-262: a ring of three row groups, filled up at the end |
| `StartCompress`, `CompressMcu`, `CompressLastMcu` | `jcmainct.c` 134-158; `jccoefct.c` 143-219, 245-330 |
| `Suspend` | `jcmainct.c` 134-147: no room, the last line is held back |
| `FinishFirstPass`, `PreparePass`, `CrankMcu`, `FinishLaterPass`, `FinishCompress` | `jcapimin.c` 154-189; `jcmaster.c` 478-617; `jccoefct.c` 343-402 |
| `HeadersFail`, `PreparePassFails`, `FinishCompressFails` | `jcmarker.c` 110-120: a marker cannot be suspended |
| `FinishPassFails` | `jchuff.c` 1092-1093: nor can the last bits of a pass |
| `CrankFails` | `jcapimin.c` 176-180: nor can a later pass |

The server gives one line a call, has one scan and a destination that never
suspends.  The others are what the same code does for other applications; they are
modelled because its loops are written for them.

### JpegBits

A byte has `ByteBits` bits and every other width follows: `put_buffer` holds
three bytes, an `int` four.  An MCU is any sequence of codes; what it writes is the
sequence `todo` of codes, marker bytes and resets.  `saved` and `dest` are the state
between MCUs, `cur` and `work` the copy the MCU is written with, `local` the
variables of `emit_bits_s`.  Shifts are products and quotients with `Pow2`, masks
remainders, and the `|` of line 326 is a sum, because the two words have no bit in
common: `TypeOK` says that `put_buffer` is zero below the bits that wait, which is
checked and proved with the rest.

| Action | Code (`jchuff.c`) |
|---|---|
| `StartMcu`, `CompleteMcu` | 1011-1061 |
| `EmitBits`, `EmitByte`, `BitsEmitted`, `ResetBits` | 254-258, 304-343, 389-397 |
| `GrowBuffer`, `WriteBuffer` | `jdatadst.c` 121-149, 105-118 |
| `SuspendMcu` | 267-280: the MCU is abandoned |
| `FinishPass`, `TermDestination` | 1068-1100; `jdatadst.c` 162-185 |
| `RetryMcu`, `EmptyBuffer` | an application with a buffer of its own |

## 3. The runs

| Run | Instance | Shows |
|---|---|---|
| `receive_large` | buffer 17, frames of 17, 18 and 20 bytes, 3 images | order, wholeness, accounting, the invariant, what ends the client, refinement with liveness, when a receive holds one frame at most |
| `receive_mixed` | buffer 24, frames of 17 and 19 bytes, image data reading as -1, 0 or 18 | what is left when frames do not meet `LoopIsSafe` |
| `split_header` | buffer 8, frames of 18 and 20 bytes | violated: a receive that ends inside a length field ends the client |
| `next_image` | buffer 40, frames of 18 and 20 bytes | violated: the second of two frames in one receive is dropped |
| `server_clients` | 2 clients, 3 descriptors, backlog 0 | descriptors, targets of images, what happens after `StopListen`, waiting clients and lost connections, refinement of `OneAtATime` |
| `server_uninitialised` | 2 clients | violated: "Have a thread listening!" with no thread |
| `client_window` | 2 messages per direction, 4 images | no circle of waiting, every image shown, one callback |
| `image_path` | widths 3, 4, 8, heights to 3, 4 to 32 bits, both orders of rows | where pixels come from, which images end a program |
| `mock_grabbing` | an 8 bit file of 4 x 2 with a palette | violated: the picture shown is not the one in the file |
| `jpeg_rows` | blocks of 2 rows, heights 1 to 9, 6 samplings, 1 to 3 lines a call; several scans and optimised tables for heights 1 to 6 | every scan gets its MCUs, made of the right rows, wherever it is suspended; the encoder comes to an end, and gives up only before the first line and after the last |
| `jpeg_bits` | bytes of 3 bits, 3 MCUs of 1 or 2 codes, 4 destinations | the stream is that of the codes, wherever there is no room; a suspended MCU is written in the end |
| `image_memory` | 8 addresses, any number of commands | heap respected, nothing leaked |

Bounds.  A frame is at least its 17-byte header, and one of 17 has no image data:
it ends the client, or makes the handler read what follows it.  18 and 20 are the
smallest two lengths of frames with data that are neither equal nor consecutive,
17 and 19 the smallest two of any.  Image data that reads as -1, 0 or 18 is a
length no array can have, one that takes no byte from the buffer, and one that
cuts a frame in two.  A receive of up to 17 bytes
ends at every offset of a frame, its length field included, and can end one frame
and begin the next; of 24, it takes one frame and an incomplete or complete
second.  Three images are enough to have one handled, one in the loop and one to
come.  `MaxHandled` is above `MaxImages` only where images may be cut wrongly,
and only stops a loop that would go on handing over the same bytes.  Two clients
give one that is served and one that waits, and then finds the descriptor of the
first used again; with a backlog of 0 the kernel takes one waiting connection and
the queue is full.  The proofs cover more clients, descriptors and room in the
queue.  The server model has no bound on commands, images or time.
`receive_mixed` and `next_image` do not check deadlock: there the bound
`MaxHandled` may stop the loop.
In `client_window` one image can be at hand in the callback, two fill the buffers
and the fourth keeps the console waiting; clicks have no bound.  In `image_path`
widths cover rows with and without padding, one row has no row to be exchanged
with, and three have a middle one; two messages let a raw image and a JPEG follow
each other in either order.

In `jpeg_rows` a block has 2 rows: a strip then has two row groups, the first
and the last.  Heights of 1 to 9 give, with sampling factors to 3, less than a row
group, every remainder of a strip and of a row group, and a third strip (what the
first leaves in the ring of context rows is then out of it).  The 6 samplings have
a component that is scaled by the DCT, one that is by the downsampler, and one
whose factor is 3.  Three lines a call end anywhere in a row group.  Two MCUs in a
row are the first and the last.  In `jpeg_bits` a byte of 3 bits is the shortest of
which a code can have two and a bit buffer more than one; `MCCodes` has a code of
ones as long as two bytes (each of which is stuffed), one of one bit and a negative
number.  The memory begins with 2 or 3 bytes and grows several times, the file's
buffer is written in the middle of an MCU, the application's holds the largest MCU
and a byte (with less the encoder could never go on, as jchuff.c says of itself).
Restart intervals are 0, 1 and 2, and the second marker of two is followed by the
first.  In `image_memory` a JPEG has at most seven blocks at a time besides its
pools, so that with 8 addresses the pools hold a block or more and the buffer grows
while the old one and the new are there; commands are not bounded.  An allocation
takes the least free address no pointer points to, or any that one does
(`LeastOfTheAlike`): addresses that nothing names are alike, since the actions
only compare addresses with pointers and pools, so no behaviour is lost but for
their names; and the addresses with a stale pointer, which matter, are all tried.

Fairness.  `ReceiveCallback!FairSpec` is weakly fair to the callback: TCP
delivers what was written, the thread pool runs posted callbacks, and the handler
comes back from the UI thread.  The last is not a matter of scheduling; it is what
`client_window` checks.
`TcpServer!FairSpec` is weakly fair to the listener thread, as the operating
system schedules it.  In `ClientWindow!FairSpec` every thread that can go on does: the UI thread up to its
message loop and out of `Send`, the callback, the listener in `recv`, the console
in `send`.  `RunInvoked` is strongly fair: clicks take the UI thread out of its loop
again and again, but Windows hands out posted messages, which `Invoke` uses,
before input, so no series of clicks holds a delegate back for ever.  `Accept` is
not fair, for another client may keep the listener for ever.  `JpegRows!FairSpec` has the application call again as
long as it can, and the destination have room for an MCU again and again (strong
fairness of `CompressMcu` and `CompressLastMcu`): an application that suspends
promises to empty its buffer.  `JpegBits!FairSpec` is weakly fair to the encoder
and the application together.  In `TcpServer` and `ClientWindow` nothing is
assumed of the console, of the clients or of
the network: no image need ever be sent, and no client need ever leave.

## 4. Findings

* `split_header`: `ClientAsyncReceive.cs:107` reads the length from the first
  chunk alone.  The comment at line 92 announces that data received so far is
  stored because more may come; a length field that comes in two pieces ends
  the client.
* `next_image`: `ClientAsyncReceive.cs:147` goes on "for decoding next image"
  (line 144) without setting `TargetLength`, so a shorter image in the same
  receive is dropped and the receiver is out of step.
* `server_uninitialised`: `TcpServer.h:31` leaves `mIsListening` without a
  value in C++17, so `StartListen` may refuse to listen.
* `mock_grabbing`: `main.cpp:149` reads the pixels right after the 54 byte header,
  though `lena_gray.bmp` has its palette there; line 114 says it "would read a bmp to mock CCD grab image".

Not findings, as nothing in the repository says otherwise, but shown by the
models: a client whose server has stopped listening freezes in `Send` once the
buffers are full (`UiBlocked`); a JPEG is shown mirrored against the same image
sent raw, and so is the Halcon window (`ControlsDiffer`); two images sent to a
client that has gone may end the server with SIGPIPE (`SendKills`), though never
the first image it misses unless the listener is just closing the connection
(`SigpipeAfterWarning`); the error manager of libjpeg is set (`main.cpp:51`) after
`jpeg_create_compress` and `jpeg_mem_dest`, although `jcapimin.c:27` asks for the
reverse, so that a failed allocation in these two goes where no code is (the end
`"wild"` of `ImageMemory`).

## 5. The proofs

`ReceiveCallbackProofs` proves, for every buffer size, every set of frame lengths
(at least a header each), any image data and any bounds:

* `AnyFramesInvariant`: `Spec => []AnyFramesIInv`;
* `TypeCorrect`, `ImagesAlwaysWhole`, `NoImageTwice`: what holds of any frames;

and, if the lengths meet `LoopIsSafe`:

* `InvariantHolds`: `Spec => []IInv`;
* `DeliveryInOrder`, `NoImageHeldBack`, `BytesKept`, `FailuresKnown`: the other
  safety properties of the runs;
* `ImplementsDeliverySafely`: `Spec => Delivery!SafeSpec`.

`AnyFramesIInv` says where the loop is when its `TargetLength` may be that of
another frame, or image data.  `rawData` begins inside what has arrived, and the
frame that begins there, if one does, is whole or has `TargetLength` bytes
(`FrameAtLoop`): what is handed over from there is whole, or it is not the
beginning of a frame.  What was shown began before the place the receiver is at,
or at it (`HandledUpTo`): image data that reads as a length of zero moves the
receiver on by nothing.  But a frame is never shown twice from there, since a true
length is not zero (`HeaderNotZero`), so that `NeverTwice` holds whatever the
image data reads as.

`InOrderDelivery` is not inductive: nothing in it ties the buffers to the
stream.  `IInv` adds that.  Frames lie end to end (`StreamLaidOut`).  Between
callbacks (`Waiting`) the buffer begins where the first frame not handed over
begins and holds less than that frame.  In the loop (`Decoding`) `rawData` begins
there too, holds that frame whole, `TargetLength` is its length, and what follows
it is shorter than a receive buffer, because the frame was not whole before the
last receive.  The last conjunct is what `LoopIsSafe` needs: a frame that is
whole in the rest is shorter than the receive buffer, so it has the length of
the frame before and the old `TargetLength` is right (`TakeAndContinueIInv`).
`FailuresKnown` says what ends the client then, short of the connection failing:
that the image due next has no data, or that its length field was split.
`WordAtHeader` gives that a word read where a frame begins is its length, and
`NextFrame` and `RestFacts` that the first byte after a frame begins another.

`ClientWindowProofs` proves, for any room in the buffers and any number of images,
`WindowInvariant` and from it `WindowTypeCorrect`, `ReceivesDoNotOverlap` and
`StrayDrawsEnd`.  Its `IInv` adds to the properties what each rests on: there is no
callback before the socket is connected, which happens once
(`ReceivesFollowConnection`); every image sent is shown, buffered or at hand, and
the console has room for the one it is sending (`ImagesCounted`, without which
`shownImages` could not be bounded); a callback about to draw by itself has never
done so late (`StrayDrawsCounted`), since the window keeps its handle from then on.

`TcpServerProofs` proves, for any clients, descriptors and backlog, `ServerInvariant`
and from it `ServerTypeCorrect`, `NoDescriptorLeaked`, `StopTakesEffect`,
`ListenerKeepsToConnection`, `ConnectionIsUsed`, `ImagesGoRight`,
`SigpipeIsAnnounced` and `ImplementsOneAtATime`.  Its `IInv` says of a descriptor
that is a connection who may name it: the client is the one accepted last, and the
number is in `mClientFd`, or still in `acceptedFd` between `accept` and the
assignment (`ConnectionOwned`); and that the listener has such a descriptor while it
works on one (`ConnectionHeld`).  That two connections are never open follows, and
that `send` with a number read earlier reaches the current client or fails: the
number is used again only by a connection that is then the current one, or by the
bmp of the same thread (`ImageHeld`), which has been closed before the number is
read.  `LateOnce` counts what follows `StopListen`, `QueueFresh` keeps clients that
wait apart from the one served, `WarningGiven` says what a connection that will
raise SIGPIPE has seen before.  The lowest free descriptor exists by the
well-foundedness of the natural numbers (`LowestIsFree`).

`ImagePathProofs` proves, for bitmaps of any size, order of rows and depth the
constants give and any samples, `PathInvariant`, `TypeCorrect`,
`GrayAlwaysPasses`, `ControlsAlwaysDiffer` and `BytesReadShown`.  Its `IInv` says
that the messages under way are made from the one file (`MessagesSent`), that each
control shows what the last message of its kind is made into (`ControlsShow`), and
that an end has its reason in the file (`EndsExplained`).  The properties of the
pictures are then about functions: the place of a pixel in an array, in the
reversed array and in the bitmap, for which `PlaceInArray` has what is not linear
arithmetic.

`ImageMemoryProofs` proves, for any set of addresses, wherever a block is put and
whatever fails, `MemoryInvariant`, `HeapAlwaysRespected` and `NothingEverLeaked`.
The table `HeldAt` lists for each place of the program the pointers whose blocks
are in use there.  `IInv` says that these have blocks of their kind, each its own,
that those of the two pools are theirs alone, and that no other block is in use
(`Owned`).  The proof carries `Owned` from the row of the table at the start of an
action to that at its end.  While the JPEG grows its block belongs to `newbuffer`
alone (`OneBuffer` says that `buffer` is the same), so `tmpBuffer`, which goes
stale at the first growth, is not in the table until `FinishCompress` makes it the
owner.  At the prompt the table is empty, and so is the heap.

`JpegRowsProofs` proves `FirstPassInvariant`, `LinesAccountedFor` and
`EveryLineTaken`, for images of any height and sampling, any size of blocks and any
number of lines in a call.  `IInv1` adds to `RowsAccountedFor` where the lines are
that were read: in strips, in the row groups of this strip, or waiting for the next
row group, one row group more being read ahead with context rows (`RowsPlaced`;
`RingInv` keeps the indices of the ring apart).  It follows that a line is left
over in a call only when the image is done (`NothingIsLeft`), and with
`BottomInv` that the last strip is at hand when the last line was read.
A second invariant, `IInv`, adds the passes: which scan a pass is for (`MasterInv`), where the
coefficient controller is in it (`CoefInv`), and that a scan has the MCUs counted
so far (`WrittenInv`).  `McuCounts` shows that each MCU makes one more of them
across the ends of rows and strips; `LastRows` and `BlockRows` that the last strip
of a component has the block rows that are left, whatever its sampling.  It gives
`PassesInvariant`, `TypeCorrect` and `EverythingWritten`.

`JpegMcusProofs` proves `DataInvariant`, `McusAlwaysRight` and
`GivesUpOnlyOutside`, what `Finishes` says of giving up: the error exits of the
encoder are reached before the first line or after the last, when the first scan
has all its MCUs or waits for its tables.  `IInv3` says of each
buffer what it holds.  `Filled` counts the rows given to the preprocessor, those it
adds below the image included; with context rows row `i` is in the ring at
`i % (3 * MaxV)`, and the ring has the last three row groups, the first of which
are the rows above the image (`RingRight`).  Without them the lines of the next row
group are at the top (`GroupRight`).  The strip has the first row groups of the
iMCU row (`StripRight`), the arrays of the coefficient controller the block rows of
those before (`KeptRight`).  `RingGrows` shows that the rows that are put into the
ring replace none that is still wanted, `RingLines` that the row group the
downsampler takes has its neighbours around it, `DownsampledRow` that it makes the
samples `TrueSampleRow` names, `BlockRight` that the strip is cut into the right
blocks, and `McuPlace` that the MCU the coefficient controller is at is number
`McusDone` of its scan.  `DCTSIZE`, the height of the image and the number of scans
are any numbers; the sampling factors are 1 to 4, as the code has them, in the
ratios `ImagesAssumption` names.

`JpegBitsProofs` proves `StreamInvariant`, `TypeCorrect` and `StreamAlwaysRight`, for
bytes of two bits or more, any codes of up to two bytes, any number of MCUs and of
codes in one, any restart interval, each destination and a buffer of any size.
`StreamRight` compares the bytes written with all bits of the MCUs, when the
application has the thread.  The invariant says it in the middle of an MCU.  Of the
operations of an MCU, `k` are still to be done: `BitsAt(k)` are the bits of the
restart interval without them, `BeforeAt(k)` the bytes before that interval, which
a marker ends.  `BitsHeld(bits, b)` says that the last bits of these wait at the
left of the three bytes of `put_buffer`, with zeros on their right, and those
before make bytes; `OutHeld` that these bytes, stuffed, are what is out
(`EmitInv`).  `PutBits` shows that a code keeps `BitsHeld`, `TakeByte` and `OutByte`
that a byte goes from one to the other, `FlushOut` that after the ones of a flush
all are out, padded.  `TakenInv` says the same of `saved` and `dest`, which a
suspended MCU leaves alone.  For the file and for memory that grows it does so only
between MCUs: those two write over, or move, what a copy would have to go back to,
and never suspend.  Between a byte of ones and its zero the zero counts
as written.

What the numbers of bits, `FlattenSeq` and `Pow2` are is defined by recursion.
Lemmas about them are proved by an induction that is stated with sets, not
operators: the set of the numbers, or sequences, a fact fails for would have a
least element (`NatSet`, `SequenceSet`), and a recursive function exists because
the functions defined up to each number do (`Recursion`).

Assumed: the named assumptions on the constants, which TLC evaluates in the
runs, and `LoopIsSafe` as a hypothesis of the theorems about delivery in order.

Only model-checked: the liveness properties and the liveness half of the
refinement of `ImageDelivery` (fairness and ENABLED are outside what the proof
system does here).

## 6. Not modelled

* `state.sb`, console output and the logger: nothing reads them.
* A `send` that returns after part of a message: `SendData` takes it for success
  and `ReceiveCallback` would see a frame cut short; blocking sockets do not do
  this short of an error or a signal.
* The loss and size of JPEGs, 16 bit files, exceptions inside GDI+ and Halcon.
* `RecordDifferenceBetweenByteArrAndString`, `Send2Server`,
  `ReceiveServerCommand`: nothing calls them.
* A second `StartListen` (it would end the process, the thread being joinable):
  `main` has none.
* Of libjpeg's encoder: colour conversion, the DCT and quantisation (arithmetic
  without state), the codes of a block and optimal tables, the progressive and the
  arithmetic coder, raw data input, the markers before a scan, the padding at the
  right (a width is a number of MCUs), the validation of scan scripts, the sizes of
  blocks in `jmemmgr.c` and virtual arrays with their backing store.
* Of libjpeg otherwise: the decoder, the transcoder, the reading and writing of
  other formats and the command line tools.  They are built, or lie beside what is,
  but the server calls none of them.  They are most of the lines of the
  repository; the models cover about two fifths of the programs' own.
* Test statistics: `Record` is called by nothing.  The legacy client: constructed
  by nothing.  `TimeCounter` and `DateTime.h`: printed, and nothing depends on them.
* Halcon, the logger, designer code, build files.

## 7. Plan

Done, in this order: `ImageDelivery`, `ReceiveCallback` and its proofs; `TcpServer`;
`ClientWindow` and its proofs; `ImagePath`; `OneAtATime` and the proofs about
`TcpServer`; `JpegRows` and its proofs; `JpegBits`; `ImageMemory` and its proofs;
the proofs about frames of any lengths and about `ImagePath`; the proof of
`McusRight`; the proofs about `JpegBits`.

Left, in order of importance:

1. The padding at the right of an image, as `JpegRows` has that at the bottom.
2. The codes of a block and the progressive coder, as a module that feeds
   `JpegBits`.
