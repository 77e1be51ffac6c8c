# A TLA+ model of easycom-rs

`easycom` talks to antenna rotators over a serial line or a socket (Yaesu GS-232,
Easycomm II and III). This directory models the crate in TLA+, checks the model with
TLC and proves its central invariants with TLAPS.

Paths below are relative to the repository: `src/framing.rs` is the crate's file.

## The system

| part | state it keeps | operations | what makes it correct |
|---|---|---|---|
| codec, `src/framing.rs` | none | `encode_into`, `encode_with_checksum`, `encode_response_into`, `decode`, `decode_command` | the two ends agree on every layout; nothing out of range is accepted; a wrong digit under a checksum is noticed |
| `Parser`, `src/framing.rs` | `buf`, `len` (64 bytes) | `feed`, `feed_slice` | a line that fits is decoded whole; a terminator resynchronises after anything |
| `CommandParser`, `src/framing.rs` | `buf`, `len` (32 bytes) | `feed` | the same, on the device, where what is decoded is executed |
| `Session`, `src/session.rs` | the transport and one `Parser`; in `send` also `frame_buf`, `rx_frame`, `rx_len` | `new`, `send`, `into_transport` | an answer is a whole reply of the device, it belongs to the command, an echo is not an answer, and `send` returns |
| `Transport`, `src/transport.rs` | what the implementation keeps | `read`, `write` | the contract `Session` relies on: `read` may return nothing, or fail |
| device firmware | outside the crate | reads with `CommandParser`, answers with `encode_response_into` | |
| example clients, `examples/*.rs` | a `Session`; nothing about earlier sends | `tcp_poll` polls until the first error, `serial_home` sends three commands, `cli` what a user types | what they print is what the rotator said or did |

A host owns a `Session`, the `Session` owns a `Parser` and a transport. `send` encodes
the command, writes it, and reads single bytes until the parser completes a frame that
is not an echo of the command. On the device a `CommandParser` collects the bytes of a
command. Nothing in the crate is concurrent by itself; the two ends of the line are,
and the time limit of a read runs against the device's answer.

### What is hard here

* The parser outlives a `send`, `rx_frame` does not. A timeout in the middle of a reply
  splits a frame over two sends, and the two buffers hold different things.
* Replies carry no number. An answer is matched to a command by being next on the line,
  so a late answer is taken for that to the next command.
* CR and LF each complete a frame; an empty frame is an error.
* An echo and a reply may be the same bytes (`?`).
* A line longer than a parser's buffer empties it in the middle of the line.
* A write that fails half-way leaves half a command in the device's parser.
* Bytes lost on a serial line join two replies, and `decode` takes the first `AZ=` and the first
  `EL=` of what it sees.
* A program that sends on after an error reads late answers as its own.
* Numbers at the edges: three digits are written of any number; ranges are checked axis
  by axis; the checksum is optional, an XOR, and not verified by the device.

`PROJECT.json` lists these hazards with their lines and the properties that cover them.

## The modules

**`Wire`** has the alphabet. A frame is a sequence of *cells*: a keyword (`GS`), or a label
with the number written after it (`AZ=090` is the cell `AZ=#` with value 90). A cell is
what one writer of `framing.rs` emits, and counts for one unit of buffer capacity, so the
capacities 64 and 32 become the constants `MAX_FRAME`, `MAX_CMD_FRAME` and `RX_CAP`. The
abstraction cannot cut a frame within a cell (within `AZ=` or within a number); it can
between any two. The characters of a cell are only looked at for the XOR checksum and for the
length of a frame in bytes.

**`Framing`** is the codec: `Payload`, `InRange`, `EncodeInto`, `EncodeResponse`, `Decode`,
`DecodeCommand`, and one step of the two accumulators, `Feed` and `FeedCommand`. Decoding
keeps the order in which the code tries the forms, because the forms overlap: the
first `AZ=` and the first `EL=` anywhere make a position; a combined set command that is
out of range falls through to the single-axis form. The cell language leaves out digits
that directly follow a bare keyword, which no writer emits. Offsets of a magnitude that is
a multiple of 1000 lose their sign in the model (`-000` is `+000`); no property reads it.

**`Lines`** is the abstract specification of both parsers: line by line, a line of at most
`Limit` cells is decoded whole, and nothing survives a terminator.

**`ResponseParser`** and **`CommandParser`** are `Parser` and `CommandParser` fed with anything,
with the current line as history; both are shown to implement `Lines`.

**`Codec`** sends one frame through encoder, line and decoder, in either direction, with or
without a checksum, with one digit damaged or none.

**`Session`** is `session.rs` over a transport whose far end sends anything. One action per
step: `SendInvalid` (the encoder refuses), `SendWrite`, `SendWriteFails` (a prefix has gone
out), then rounds of the receive loop, `ReadText`, `ReadTerm`, `ReadNothing` (read returned 0:
`Timeout`), `ReadFails` (`Transport`; the time limit of a socket or a serial port also comes
this way), and `Reopen` (`into_transport`, then `Session::new` on the same transport). `pbuf` is the
parser's buffer, `rxFrame` is `rx_frame[..rx_len]`, `sent` the command's frame. History: `raw`, the
cells since the last terminator, and `line`, those of them that came in this send.

**`RequestReply`** is what an application expects of `send`: refused, answered with an answer
to this command, or failed; and it returns.

**`Link`** extends `Session` with a rotator that reads with `FeedCommand` and `DecodeCommand` and
answers with `EncodeResponse`, and with the line between them. What firmware answers is
outside the crate: any response that fits the command, `?`, or nothing. Switches choose
the world: `Echoes`, `Newlines` (CR LF), `Rejects`, `Silences`, `Late` (a read gives up while the
answer is on its way), `WriteErrors`. Terminators of replies carry the number of the frame
they answer; only the history variable `src` reads it.

A reply may have a checksum (`Checksums`), which `encode_response_into` never writes but `decode`
understands.

**`Client`** extends `Link` with the three example programs. `Call` is what each of them sends
next, `PrintResult` what it does with the result: `tcp_poll` leaves its loop at an error, `serial_home` goes
on and keeps in `reports` what it printed about each send, `cli` goes on. TCP loses nothing; a serial
line loses cells in both directions (`Lose`), a TCP rotator sends no checksums. Words of `cli`
that send nothing are not modelled, nor how long `tcp_poll` sleeps: late replies may come
at any time.

`MCResponseParser`, `MCCommandParser`, `MCCodec`, `MCSession`, `MCLink` and `MCClient` give the constants their
values. `FramingFacts`, `ResponseParserProofs`, `CommandParserProofs`, `CodecProofs`, `SessionProofs`, `LinkProofs`,
`ClientProofs` and `GenuineProofs` hold the proofs.
Definitions marked "mutant" are broken variants of the definition after them; each property
is checked to fail when one of them takes its place, and none is used otherwise.

## The runs

| run | checks | bounds |
|---|---|---|
| `response_parser` | `Parser` implements `Lines` (`DecodesLines`), `BufferIsTail` | 3 cells of buffer, lines to 6: a line can overflow, fill the buffer again and end |
| `command_parser` | the same, and `OnlyInRange` | 4 cells (a whole combined set command), lines to 6; axes in and out of range |
| `codec` | `CommandRoundTrip`, `ResponseRoundTrip`, `DamageDetected`, `HeardInRange`, `EchoIsNoAnswer`, `FramesFit` | every command and response over numbers around 180, 360, 999 and the limits of u16, i16, i32; every single wrong digit |
| `session` | `BufferInv`, `EchoExact`, `WholeLineAnswered`, `CleanAfterAnswer`, `ReturnsOnceQuiet` | 3 cells of parser and of `rx_frame`, 5 cells unterminated; commands of one and two cells, one out of range |
| `link_prompt` | `Link` implements `RequestReply` with a rotator that echoes and answers in time | three sends of six kinds of command, one out of range |
| `link_late` | `GenuineIfWhole`, `LagBound`, `InOrder`, `BufferInv`; `PollIsFresh`, `StoppedIsHeard`, `HomeIsTold`, `HomePositionGenuine`, `CheckedIsGenuine` | the three programs, three sends (`cli` two on a serial line), two lost cells, 7 cells of commands on their way (`cli` sends when the rotator has read all before) |

Three sends are enough for every order of answer and failure that differs in kind: on
time, one behind, two behind, and one of them never answered. Two lost cells are what it takes to
mix two positions: the terminator between them, and the elevation of the first. The 7 cells hold the
frames of `serial_home` all unread at once. What the two link runs say together: if no send has failed, an answer
is the answer to the command; if `k` have failed, it is late by at most `k` commands, still
whole, in order and never given twice. The lag is real: nothing in `Session` ever catches up.

For the programs this means: `tcp_poll` prints only fresh positions, because it stops at the first
error (`PollIsFresh`). `serial_home` prints "Stopped." for any response at all. That means that the rotator
answered the first line it read, if only with `?`; and that this line was `Stop`, unless the serial line lost
something (`StoppedIsHeard`). It may print "Homing command accepted." on the late reply to
`Stop`; it is right about it whenever `Stop` was answered, even on a line that loses cells
(`HomeIsTold`), and the position it ends with is one the rotator reported
(`HomePositionGenuine`). With `cli` two polls on a lossy line may be joined to a position the
rotator never had, unless the line has a checksum (`CheckedIsGenuine`); XOR does not tell angles
with the same digits in another order apart, and the positions of the run have distinct checksums. In
`GenuineIfWhole` the premise that nothing was lost is needed for the same reason.
`InOrder` and `LagBound` hold with losses too: terminators may be lost, never reordered.

Six runs show where code and documentation disagree:

| run | the code does | the documentation says |
|---|---|---|
| `empty_line` | an empty line is `Err(UnexpectedEof)` | it is an acknowledgement |
| `command_overlong` | the tail of an overlong line is executed | overlong frames are discarded |
| `command_out_of_range` | `AZ180.0 EL200.0` becomes `Azimuth(180)` | `None` for out-of-range frames |
| `session_echo` | after a timeout within a line, `rx_frame` is not the parser's frame | it accumulates the current frame's bytes |
| `link_keepalive` | `?` in answer to `KeepAlive` is skipped as an echo | `?` is reported as `Response::Error` |
| `link_newlines` | CR LF: the LF is a parse error in the next send | newlines are optional |

## Fairness

`Session` assumes weak fairness of the receive loop: it runs on the caller's thread, waits
for no other, and a transport answers each read, with a byte or with nothing, at the
latest when its time limit is over. No fairness is put on a read that fails. `ReturnsOnceQuiet` needs the line to be quiet from some point on: a far end that
sends text for ever without a terminator keeps `send` in its loop, and the code has no limit of its
own. `link_prompt` also assumes that cells in flight arrive and that the rotator reads what
has arrived; it is the world in which a rotator answers in time.

## What is proved

The theorems hold for every value of the constants that satisfies the assumptions the modules
declare; TLC evaluates each of them in the runs.

| assumption | says |
|---|---|
| `CapacitiesAssumption`, `RxCapAssumption` | buffers have a capacity |
| `CommandsAssumption` | a command is shorter than `rx_frame`; the comment above `MAX_CMD_FRAME` says 19 bytes against 32 |
| `CommandsFitAssumption`, `RepliesFitAssumption` | a command fits into the device's buffer, a reply (three cells at most) into the parser's |
| `TypesAssumption`, `MessagesAssumption` | commands and responses are values of the Rust types: u16, i16, i32 |
| `PositionsAssumption` | a rotator reports angles of three digits, which is all the layout has room for |
| `SwitchesAssumption`, `ProgramsAssumption`, `TypedAssumption` | switches are switches; `cli` sends the commands it knows |
| `ProgramCommandsAssumption` | what the programs send is among the commands a session is given, to which `CommandsAssumption` applies |

What a theorem assumes beyond that is a hypothesis in its statement: which world it speaks of
(`Echoes`, `Newlines`, `Late`, `WriteErrors`).

### Parsers and `Session`

* `ResponseParserProofs`: `ParserTypeCorrect`, `ParserHoldsTail`, `ParserDecodesLines`. The invariant is
  `BufferIsTail`: the buffer is a tail of the line, and all of it while it fits. It is needed
  because the abstract decoder speaks of lines and `feed` only knows its buffer.
* `CommandParserProofs`: the same for the device, and `CommandParserOnlyInRange`, by cases over
  the forms `decode_command` accepts.
* `SessionProofs`: `SessionInv(A)` is `HeldIn(A)` (what the variables hold, if cells of `A` arrive), `BufferInv`,
  `CleanAfterAnswer` and `SentFits` (the command being answered is shorter than `rx_frame`). `BufferInv`
  relates the parser's buffer to `raw`, `rxFrame` to `line`, and `line` to `raw`. From it follow
  `SessionTypeCorrect`, `SessionBuffers`, `SessionCleanAfterAnswer`, `SessionEchoExact` (a capped `rx_frame` equals
  the command only if the line does, as a capped one is longer than every command) and `SessionWholeLine`.
  The invariant holds for any set `A`, and what arrives is no more than a step that appends a cell of
  `A` to `rxq`.
* That is what makes the host of `Client` a session: a program's send is a send of `Session`, the receive loop is the
  same actions, and whatever rotator and line do to the host is an arrival. The cells that arrive there
  are not drawn from a given alphabet, as in the run of `Session`, so the invariant is that some `A` holds
  all of them (`SomeSession`), which grows with each arrival. So the properties of
  `Session` hold in the whole system, in every world, losses, echoes and failing writes included:
  `ClientBuffers`, `ClientCleanAfterAnswer`, `ClientEchoExact`, `ClientWholeLine`.

### The codec

`CodecProofs` goes through every form the two decoders try, in their order, for every number the types
allow. `CodecCommandRoundTrip` and `CodecResponseRoundTrip`: each end understands what the other encodes, up to the
losses the properties name (three digits, layouts that two messages share). `CodecHeardInRange`:
the rotator executes nothing out of range that the host encodes. `CodecEchoIsNoAnswer`: of all commands
only `KeepAlive` could come back as an answer. `CodecDamageDetected` speaks of the XOR checksum: bit `b` of
it is the parity of bit `b` over all bytes (`XorAll`), one wrong digit differs from the right
one in some bit and changes no other byte, so that bit's parity changes, and with it the sum. It needs no bound on
the length of the frame.

`CodecFramesFit`: no frame has more than 19 bytes before checksum and terminator. `FramesFit` counts bytes as places
in the frame, one pair of cell and offset for each, because the length of a frame as a sum over its cells would be a
recursion, about which nothing can be proved. A number of `u32` has at most ten digits (`Width`), one of `u16` five; each
frame is at most three cells of text, with room for `a`, `b` and `c` bytes and `a + b + c <= 19` (`LaidFrame`), whatever
digit damage puts there.

### `Link` implements `RequestReply`

`LinkImplementsRequestReply`, with a rotator that answers in time (`Late` and `WriteErrors` are
`FALSE`), one terminator to a reply, with echoes or without: the initial states and every step of
`LinkSpec` are those of `RequestReply` under the mapping in `Link`. The invariant is `PhaseInv`. Between sends nothing is
on its way anywhere. In a send, `Written` (part of the command is still to be read by the rotator and
nothing but a part of its echo has come), `Echoing` (the echo is on its way, the reply behind it) or
`Answering` (one reply is on its way). In each phase a read that gives up is impossible or finds no
reply to come, and a terminator ends the echo, which is skipped, or the reply to this command. The fairness of
`RequestReply`, that a send returns, is left to TLC (run `link_prompt`).

### The programs on a line that delays, cuts and loses

`ClientProofs` and `GenuineProofs` are about the whole system, with any of the three programs and any number of
sends, lost cells and positions. All but `ClientHomePositionGenuine` assume that the rotator
echoes nothing and ends a reply with one terminator; that this is needed is what `link_newlines` shows.

`ClientTypeCorrect`, `ClientLagBound`, `ClientInOrder` are about two variables at the host, `src` and `misses`, and
follow from nothing the host knows. `LinkInv` says what is on the line. `ReplyInv`: the terminators in `wire` and
before them those in `rxq` carry growing numbers, all of them after `src` and none beyond the last frame the rotator
read. `QueueInv`: the terminators in `txq` can be numbered with growing numbers after `Len(replies)` and up to
`seq`, so the rotator never reads more frames than were written whole, although failed writes add
text without a terminator and losses remove either. `CountInv`: a send that was written whole has an answer from a
frame at least as late as its own less the misses, or is one of the misses, or is waiting. Writing, answering and delivering append to
such numberings (`NumberedConcat`), reading and losing take from their front (`NumberedTail`,
`NumberedTailTerm`); `CommandIsLine` and `ReplyIsLine` show of every frame the encoders write that its
only terminator is its last cell. `ProgInv` bounds where a program is.

`ClientGenuineIfWhole`: on a line that has lost nothing, an answer is a reply the rotator made. The
invariant `SaidInv` looks at one stream, what the parser has read of a line (`raw`), then `rxq`, then `wire`: it is
`WholeReplies`, at most three cells of text before each terminator, and they decode to the reply whose number the
terminator carries. Delivering moves a cell within the stream and does not change it; reading takes a
line off its front; answering appends a frame, which decodes to the reply by the round trip of the codec.
That the parser's buffer is that line is `HostInv`.

`ClientPollIsFresh`: every line `tcp_poll` prints is the reply to the query just sent. `PollInv`: it runs
over TCP, where nothing is lost; until a send has failed, `misses` is 0 and what was written is whole; and the rotator only ever reads
queries. So the lag is 0 by `LagBound`, and the reply is genuine.

`ClientHomePositionGenuine`: the position `serial_home` ends with is one the rotator reported, on a line that loses
cells anywhere, with echoes, CR LF and late replies. Here neither lines nor numbers help. `HomeInv` counts instead: the program
sends one query, so at most one of its cells is ever on its way, so the rotator tells at most one
position, and every position cell in `wire`, `rxq` or the parser is a cell of that one. Whatever is
decoded to a position from such cells is that position.

`ClientHomeIsTold`: if `Stop` was answered, "Homing command accepted." is true although it may be printed on a
late reply. `ToldInv` adds to `HomeInv` the phase the program is in. If the first send is answered, its reply was the
only one there could be, and the line is empty when the homing command goes out (`HomeNext`). Of that command
the rotator may read any part that losses leave; all parts decode to nothing or to homing (`HomeHeard`). If
it does not obey, what it sends is `?` or nothing, and no remainder of `?` and its checksum decodes to an acknowledgement:
the checksum of the odd byte `?` is odd, and so is not that of the empty payload (`RefusalIsNoAck`).

`ClientStoppedIsHeard`: `ToldInv` does not say what the rotator reads first, nor that silence is no answer. `StopInv`
adds both to the phases of the first send. Before the rotator has read, a line that lost nothing still holds all of
`Stop` (`StopWhole`). After that, what it read first is `Stop` unless something was lost (`FirstRead`), and if it said
nothing the line stays silent. So a response to the first send is the reply to the first line.

`FramingFacts` has the lemmas the modules share.

### Only model-checked

* Liveness under fairness, which is out of the prover's reach: `ReturnsOnceQuiet`, and the fairness part of `IsRequestReply`.
* `CheckedIsGenuine`: it depends on the positions and on how many cells are lost. XOR does not tell all angles apart,
  and in a line joined from several replies bytes may cancel.

## Not modelled

The Display texts of the errors, `lib.rs` (re-exports), and what a transport does with its
file descriptor. `Parser`'s feature gates. The words and arguments of `cli` as text: an argument that is no number ends the process, in
the model as `quit` does. A cell is lost whole: a number that loses one of
its digits is not modelled, only a digit that changes (`Damage` in `Codec`). `tcp_poll` and the others after the
peer has closed are sends that time out.

The comment `framing.rs:76` gives 13 bytes as the longest command frame; `FramesFit`
is about the 19 bytes of `framing.rs:557`, without checksum and terminator.

## Plan

1. `Wire`, `Framing`, `Lines`, the two parsers, `Codec`, `Session`, `RequestReply`, `Link`: done.
2. `Client`, with the lossy line and checksums: done.
3. Proofs about `Client`, and with it `Link`: `InOrder` and `LagBound` for any number of sends: done.
4. Proofs about the codec, the refinement of `RequestReply`, and what the programs conclude
   (`GenuineIfWhole`, `PollIsFresh`, `HomeIsTold`, `HomePositionGenuine`): done.
5. That the host in `Client` is a `Session`, step by step, so that the theorems of `SessionProofs` hold there
   too; the length of a frame; what "Stopped." means: done.
