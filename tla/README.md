# TLA+ models of cpp_streamer

This directory holds TLA+ specifications of parts of cpp_streamer. Each module is translated from the C++ sources under `src/src`. The TLC configurations check it against the properties the code must have.

## The system

cpp_streamer is a set of media "streamers" joined as sources and sinkers. Each streamer takes a `Media_Packet` in `SourceData` and passes packets on to its sinkers. The parts in this repository are:

| Part | Sources | State it keeps | Operations |
|---|---|---|---|
| RTMP client session | `net/rtmp/rtmp_client_session.{hpp,cpp}` | `client_phase_`, `recv_buffer_`, the TCP connection `conn_`, the one-shot read armed by `TryRead` | `Start`, the TCP callbacks `OnConnect`/`OnRead`/`OnWrite`, `HandleMessage`, `ReceiveRespMessage`, `RtmpConnect`/`RtmpCreatestream`/`RtmpPlay`/`RtmpPublish`, `RtmpWrite` |
| RTMP play driver | `net/rtmp/rtmp_play.{hpp,cpp}` | the sinker map, the worker thread, `running_`, the session | `AddSinker`/`RemoveSinker`, `OnMessage` (fan-out to sinkers), `OnWork`, `Release`, `StartNetwork` |
| RTMP publish driver | `net/rtmp/rtmp_publish.hpp` | (header only) | — |
| MP4 demuxer | `format/mp4/mp4_demux.{hpp,cpp}` | the trak table `traks_info_`, the sample multimap `sample_items_` keyed by dts, the durations | `SourceData`/`OnRead` (box walk), `makeMovItems`, `adjustAllDts`, `handleMovItems`, `Output` |
| MP4 box parser | `format/mp4/mp4_box.hpp` | the box tree; the per-trak sample tables | `Parse` of every box; container walks |
| NALU framing | `format/h264_h265_header.cpp` | none (pure functions) | `Avcc2Nalus`, `AnnexB2Nalus`, SPS/PPS/VPS extraction |
| Tools | `tools/mp4dump.cpp`, `tools/mp4toflv_streamer.cpp`, `tools/mediasoup_pull_bench.cpp` | file reader, streamer manager | main loops |

How the parts interact:
- `RtmpPlay` owns an `RtmpClientSession`. It runs a libuv loop on its own thread and receives media through `OnMessage`, which it forwards to its sinkers.
- The MP4 demuxer is driven by `SourceData`. In `mp4toflv_streamer`, the tool calls it once per 2 KB chunk read from a file. The demuxer re-reads the file through an io reader, then emits packets to its sinkers.

Hard behaviours in this code:
- **RTMP session.** TCP may split the server's messages anywhere between reads. The session is a phase machine. It is driven by asynchronous callbacks and clears its receive buffer at phase changes. Failures arrive through three different callbacks.
- **RTMP play.** A plain `running_` flag is shared between threads, and `Release` joins a thread that may never leave `uv_run`.
- **MP4 demuxer.** Timestamps are computed from the stts/ctts run-length tables, and they are rewritten after the samples are already ordered by them.
- **Box walks.** They advance by a size field that may be 0.

## Modules

### `RtmpClientSession.tla` (with `MCRtmpClientSession.tla`)

This module models the client session of `rtmp_client_session.cpp`.

Variables:

| Variable | Models |
|---|---|
| `phase` | `client_phase_` |
| `conn` | the state of `conn_` |
| `reading` | an `AsyncRead` is armed |
| `publish` | `req_.publish_flag_` |
| `rbuf` | `recv_buffer_` |

History variables, kept only for the properties:

| Variable | Records |
|---|---|
| `out` | what the client sent |
| `sent` | what the server sent |
| `handled` | what the chunk reader completed |
| `reports` | the `ctrl_cb_` and `data_cb_` callbacks, in order |

The byte stream is abstracted to *pieces*:
- A server message arrives as one piece, or as two. The first of the two leaves the chunk stream incomplete, which is `cs_ptr->IsReady()` being false.
- One `OnRead` delivers any number of pieces.
- Chunk headers, chunk sizes and AMF encoding are abstracted away. They are implemented in `rtmp_session_base`, `rtmp_control_handler` and `rtmp_handshake`, which are not part of the sources.

Actions:

| Action | Models |
|---|---|
| `Start` | `Start` |
| `OnConnect(ok)` | `OnConnect`, success and failure |
| `OnRead(k)` | `OnRead`, with the whole of `HandleMessage` run atomically, as the single libuv thread runs it |
| `OnReadError` | `OnRead` with an error code |
| `OnWriteError` | `OnWrite` with an error code |
| `RtmpWrite(av)` | `RtmpWrite` |

`HandleMessage` is the operator of the same name. Its phase blocks (`HandshakeBlock`, `RespBlock`, `CreateStreamBlock`, `PlayPublishBlock`, `MediaBlock`) are chained in source order, each entered only if the previous one fell through. `RespBlock` drops `recv_buffer_` on success for the createStream and play/publish responses (lines 238 and 281) and keeps it for connect's, as the code does. `ReceiveRespMessage` is a RECURSIVE operator, one call per iteration of its `while (true)`.

The server is the environment. `ServerAnswer` answers the next thing the client sent, the way common RTMP servers do:
- S0S1S2 to C0C1;
- WindowAckSize, SetPeerBandwidth, SetChunkSize, `_result`, and optionally `onBWDone`, to connect;
- `_result` to createStream;
- StreamBegin, `onStatus`, metadata and `MaxMedia` media messages to play, where the first may be empty;
- `onStatus` to publish.

Bounds (`MCRtmpClientSession.tla`):
- `MaxMedia = 2`: media order and a message after the first media are both exercised.
- `MaxWrites = 1`: one `RtmpWrite`.
- `MaxSplits = 1`: one message per server burst may be split. A split only matters where a read can end, and one split in each burst already lets a read end after any prefix of any burst, because `OnRead(k)` chooses every `k`.

The model has 28,843 states.

Fairness: weak fairness on `Start`, on `OnConnect`, on `OnRead` and on the server's answer. The libuv loop delivers every connect result and every readable byte to an armed read, and a conformant server answers. Transport errors and `RtmpWrite` are not fair: they may or may not happen. Deadlock is not checked (`CHECK_DEADLOCK FALSE`), because the server's output is bounded. Once it is consumed, the session waits for data that never comes, which is the idle state of the real program.

#### Refinement: `RtmpDialogue.tla`

`RtmpDialogue` is the abstract client dialogue of section 4.E of the specification. It is a role-parameterised state machine: init, C0C1 sent, connect sent, createStream sent, play or publish sent, stream ready, and closed. On entering each state it sends what that state is named after. One step may pass several states, because one read may carry several responses, and it may end in closed. A publishing client may write media whenever it is past init and not closed.

`RtmpClientSession` defines the refinement mapping:
- `DialogueState` maps `client_phase_` onto those states. A closed connection maps to closed. The two phases of each exchange, "send" and "await response", map to the same abstract state.
- The role is `req_.publish_flag_`.
- The output is the session's `out` history.

`ImplementsDialogue == Dialogue!Spec` is checked as a property of `session_pass`. It shows three things:
- The session sends the handshake and the commands in the order of the specification.
- It sends play or publish according to its role.
- It never moves backwards, and it never writes media outside an open publishing session.

A `PlayPublishBlock` that always sends play violates the property.

### `RtmpPlay.tla` (with `MCRtmpPlay.tla`)

This module models the play node of `rtmp_play.cpp` composed with its session: `RtmpClientSession` is instantiated as `S`, and the session's callbacks run inside the loop.

Two threads share the node:
- the caller's thread wires sinkers (`AddSinker`, `RemoveSinker`), calls `StartNetwork` (`StartNetworkOwnThread` or `StartNetworkCallerLoop`), and destroys the node (`Destroy`, then `Release` as `ReleaseCheck`, `ReleaseStop`, `ReleaseLoopClose`, `ReleaseJoin`, `ReleaseElse`). After the else branch, `AfterRelease` ends the destructor: if `thread_ptr_` is still set, destroying that unjoined `std::thread` calls `std::terminate`. `mpc` becomes "terminated" and `ProcessAlive` stops every step of `Next`;
- when `StartNetwork` gets no loop, the worker thread runs `OnWork` (`WorkerAlloc`, `WorkerInit`, `WorkerCheck`, `WorkerRunReturns`, `WorkerExit`).

`running_`, `loop_`, `thread_ptr_` and `client_session_` are plain members shared by both threads. Each read or write of them is one step, with program counters `mpc` and `wpc`.

libuv is not in the sources. From its documentation the model takes two facts:
- `uv_run` returns only when no handle or request is active (`Alive`);
- `uv_loop_close` fails while a handle is open.

`OnMessage` runs inside the session's `OnRead` step. It unwraps the FLV tag, splits AVCC frames with `Avcc2Nalus` and extracts SPS/PPS with `GetSpsPpsFromExtraData` (from `NaluFraming`), and fans the result out to the sinkers (`FanOut`).

The node reports through `ReportEvent`, and only once `SetReporter` has given it a reporter. `events` records the type of each report:
- `CtrlEventType` gives the type each control callback (`OnRtmpHandShakeSendC0C1` ... `OnClose`) reports under;
- `MessageEvents` adds the reports `OnMessage` makes: statics, then MetaData for a metadata message;
- `ReportCallbacks` appends, for each loop step, the reports of the callbacks the session made in that step, in order.

The JSON values are formatting and are left out. `rpt_ts_` starts at -1, so the first `OnMessage` always reports statics. Whether a later one does depends on the clock, so the model leaves it as a free choice.

Bounds (`MCRtmpPlay.tla`):
- one sinker;
- three media messages: an AVC sequence header, a frame of two NALUs, and an AAC frame;
- no writes and no splits; the session module checks splits on its own.

The pass run has 244,980 states and takes about 2 minutes with coverage on.

Fairness: weak fairness on the steps of `Release` and of the worker (scheduled threads), on the loop's connect and read deliveries, and on the server. The caller's own calls and transport errors are not assumed. Each fairness condition holds only while the process is alive (`ProcessAlive`), since nothing runs after `std::terminate`.

### `NaluFraming.tla` and `ByteStream.tla`

`NaluFraming` holds the helpers of `h264_h265_header.cpp` as operators over byte sequences:
- `Avcc2Nalus` (RECURSIVE `AvccLoop`);
- `GetSpsPpsFromExtraData`;
- `GetHevcDecInfoFromExtradata`, with `HevcArrays` and `HevcNalus`;
- `GetVpsSpsPpsFromHevcDecInfo`.

The C++ never checks a length it read against what is left. Such a read is reported in an `overread` or `fault` field rather than invented.

`ByteStream` holds the big-endian readers of `utils/byte_stream.hpp`, which is outside the sources. They are therefore modelled from the specification.

### `Mp4Box.tla`

This module holds the box parsers of `mp4_box.hpp` that fill `MovInfo::traks_info_`, as operators over the bytes of a moov box:
- `GetBoxHeaderInfo`, including the 64-bit `largesize` form;
- `MdhdBox_Parse`, `HdlrBox_Parse`;
- the sample tables: `SttsBox_Parse`, `CttsBox_Parse`, `StssBox_Parse`, `StscBox_Parse`, `StszBox_Parse`, `StcoBox_Parse`;
- the sample entries in `StsdBox_Parse`: `Avc1Box_Parse`, `Hvc1Box_Parse`, `VideoSequenceBox_Parse`, `HvcCBox_Parse`, `Mp4aBox_Parse`;
- the container walks of stbl, minf, mdia, trak and moov.

Each container walk is one RECURSIVE `Walk` dispatched on the container's level. An exception thrown by `HvcCBox_Parse` marks the trak (`thrown`).

The second half of the module writes a moov box from trak records (`MoovBytes`):
- avcC and hvcC configuration records, and an esds descriptor chain;
- stsz in its table form or its constant-size form.

The demuxer model therefore parses real bytes, and the parsed tables can be compared with the ones that were written.

### `Mp4Demux.tla` (with `MCMp4Demux.tla`)

This module models `mp4_demux.cpp` from `SourceData` to the packets it emits, on both of `SourceData`'s paths.

Variables:

| Variable | Models |
|---|---|
| `file` | the input: its top-level boxes (type, whether the size field is 0, size in units), how it is fed (`feed`), its traks, and the moov parse computed once per file (`parsed`, `first`) |
| `calls` | the `InputMp4Data` calls the tool has made, each a `SourceData` with an io reader |
| `reading`, `pos` | a `SourceData` call is running, and the box at `OnRead`'s offset or at the start of `buffer_` |
| `received` | the units of the file handed over as data packets |
| `traks_info` | `mov_.traks_info_` |
| `sample_items` | `sample_items_`, the multimap in key order |
| `emitted` | the packets passed to `sendMediaPacket`, in order (a history variable) |
| `crashed` | the process died: an uncaught exception, or an invalid read |

Actions:

| Action | Models |
|---|---|
| `SourceData` | one pass of `mp4toflv_streamer`'s fread loop: `InputMp4Data` wraps the read bytes and the io reader in a packet and calls `SourceData`, which starts `OnRead` at offset 0. The tool makes `ToolReads` = ceil(`FileUnits` / `ReadUnits`) such calls, one per non-empty `fread` of its 2048-byte buffer. |
| `ReadBox` | one iteration of `OnRead`'s loop. It advances `offset` by `box_size`. For moov (`ReadMoov`) it also runs `MoovBox::Parse`, `makeMovItems`, `adjustAllDts` and `handleMovItems` in the same step. |
| `EndOfFile` | the short header read at the end of the file, which returns from `OnRead` |
| `SourceDataBuffered` | `SourceData` with a data packet: `AppendData`, then a loop (`BufferWalk`) that parses every box lying whole in `buffer_` and breaks at the first that does not, then `ConsumeData` |

On the buffered path, the moov branch (`BufferedMoov`) runs `handleMovItems` with `io_reader_` still null. The process therefore dies there, after the config packets.

`makeMovItems` is made of the following operators:
- `ConfigLoop` sends the sequence headers: `handleH264SpsPps`, `handleH265VpsSpsPps`, `handleAACExtraData`. An unsupported codec throws.
- `getSampleInfoInChunk` and `TrakItems` are the nested stsc/stco/stsz loops.
- `InsertItem` is `std::multimap::insert`.

The remaining functions are operators of the same names:
- `getDurationBySampleIndex` and `getPtsBySampleIndex` keep the code's index arithmetic.
- `AlignScan` and `adjustAllDts` are the two loops of `adjustAllDts`.
- `handleMovItems` classifies NALUs with `H264_IS_*`, taken as `type = byte & 0x1f`, because the macros are outside the repository.

The properties are checked against reference readings of the tables written from ISO/IEC 14496-12: `RefDts`, `RefCts` and `RefOffset`, with 1-based samples and chunks.

Bounds (`MCMp4Demux.tla`):
- One video and one audio trak of at most 2 samples each. This is the least that gives a second stts/ctts run, a chunk of 2 samples and a second chunk.
- Deltas {1, 2}, ctts offsets {0, 1} and timescale 1000, so no conversion truncates.
- Two layouts: moov before mdat, and moov last after a free box. The `mp4_size0_mdat` run uses a third, `MCLayoutsMdatToEof`: ftyp, moov, and an mdat whose size field is 0, the only place section 4.C allows one.
- A box is 1 unit and moov is 2. Data packets are 2 units, so on either layout one packet ends inside moov and the buffered loop must break there.
- `ReadUnits`, the units one 2048-byte `fread` covers, is 5 in the pass runs, so each file is read in one call. The reparse run sets it to 3, so each file (4 or 5 units) takes two calls. A real MP4 takes many reads; two are enough for the second to re-walk the file.

The pass run feeds every file both ways. It has 25,200 distinct states and takes about 20 seconds. The values computed once per file (`Recorded`, `MoovResult`, `makeMovItems`) are bound with `Then` rather than LET, so TLC evaluates them once even when it collects coverage.

Fairness: weak fairness on `Next`. Both paths run synchronously on the caller's thread, and the tool calls `SourceData` until its input ends. Under this fairness `OnReadReturns` still fails on the size-0 mdat: the box walk's step there changes nothing, so the hang is the code's and not a scheduler's. The pass run does not check `OnReadReturns`, because none of its layouts has a size-0 box and every walk then ends by construction. Deadlock is not checked, because the tool stops once its input ends.

## Runs

| Run | Config | Expect | Shows |
|---|---|---|---|
| `session_pass` | `MCRtmpClientSession.cfg` | pass | `HandledExactlyOnce`: however TCP splits the server's messages, every message is read once and in order, and no `recv_buffer_.Reset()` drops a buffered message. `EventuallyReady`: the session reaches the media phase unless it fails; no path leaves the session with no read armed. `ImplementsDialogue`: the session refines the abstract dialogue `RtmpDialogue`. |
| `session_cmd_order` | `MCRtmpClientSession_ResponsesMatchCommands.cfg` | violation | `ResponsesMatchCommands` has two parts. First, each command waits for the previous command's result (`CommandAwaitsResult`). Second, each response callback carries the response it is named after. A read that ends right after WindowAckSize makes `ReceiveRespMessage` return `RTMP_OK`, so `HandleMessage` sends `createStream` before connect's `_result` (lines 203 and 334); this is the trace TLC reports. With that trace excluded, a server that sends `onBWDone` after connect's `_result` gets it reported as a second connect response (line 349). |
| `session_close_reported` | `MCRtmpClientSession_CloseReported.cfg` | violation | `CloseReported` states that the connection is closed exactly when `OnClose` has been reported. A failed connect, or a write error, closes the connection without `OnClose` (lines 120 and 134). A read error reports `OnClose` and leaves the connection open (line 143). TLC's shortest trace is the failed connect. The read-error direction is reached in three steps: Start, OnConnect, OnReadError. |
| `mp4_pass` | `MCMp4Demux.cfg` | pass | For files fed through the io reader or in data packets, two properties hold. `ParsedTablesMatchFile`: the box parsers read back every trak's handler, codec, timescale and tables. `ScheduleMatchesTables`: every sample is scheduled exactly once, at its table offset and with its size. |
| `mp4_dts_order` | `MCMp4Demux_EmittedDtsNonDecreasing.cfg` | violation | `adjustAllDts` shifts one track in place after the items were keyed by dts, so packets leave in decreasing DTS order (line 427). |
| `mp4_sample_times` | `MCMp4Demux_SampleTimesFollowTables.cfg` | violation | `getDurationBySampleIndex` gives the last sample of an stts run the next run's delta (line 448). |
| `mp4toflv_reparse` | `MCMp4Demux_SamplesEmittedOnce.cfg` | violation | With two 2 KB chunks, the tool's second `SourceData` re-walks the whole file and emits every sample again (`mp4toflv_streamer.cpp:109`). |
| `mp4_size0_mdat` | `MCMp4Demux_OnReadReturns.cfg` | violation | `OnReadReturns`: every `SourceData` call returns and the tool hands the whole file over. Section 4.C accepts a last mdat whose size field is 0 (run to end of file). `GetBoxHeaderInfo` returns 0 for it, `OnRead` reads 0 bytes, adds 0 to `offset` and parses the same box again, under weak fairness, for ever (line 130). |
| `mp4_moov_output` | `MCMp4Demux_MoovOutput.cfg` | violation | `MoovOutputMatchesFile`: the moov branch sends the codec configuration the file records (`ConfigPacketsMatchRecords`) and schedules every sample the tables list (`ScheduleMatchesTables`). The files have an H.265 and an AAC track of one sample, each with an stsz in its constant-size form. All three defects show in the one moov step of the trace. H.265 parameter sets are sent truncated, with the NAL type in place of the header: VPS `40 01 0c 01 ff ff` goes out as `00 00 00 01 20 40` (line 566). The AAC sequence header is the whole raw esds box (`mp4_box.hpp:1225`). The stsz is parsed into an empty size table (`mp4_box.hpp:2191`), `makeMovItems` reads past it (line 498), and the process dies with no sample scheduled. |
| `play_pass` | `MCRtmpPlay.cfg` | pass | `StartedSessionPlays`: a node on its own thread drives its session to the media phase unless the connection fails or the node is destroyed. `StopJoinsWhenDrained`: the join in `Release` returns once the loop has nothing left to run. `CloseIsFinal`: once the reporter has been told `close`, no step of either thread reports again or hands a sinker a packet. The failed read is not re-armed, and `Release` and `OnWork`'s exit close the session without calling back. |
| `play_stop` | `MCRtmpPlay_ReleaseStopsWorker.cfg` | violation | A node destroyed before its worker has set `loop_` skips the join (`rtmp_play.cpp:433`). `~RtmpPlay` then destroys the still-joinable `std::thread` in `thread_ptr_`, and the process ends in `std::terminate` (state 6 of the trace). |
| `play_nalu` | `MCRtmpPlay_NaluFanOut.cfg` | violation | `OnMessage` returns after the first NALU of a frame, so a frame of SEI plus IDR reaches the sinkers as the SEI only (`rtmp_play.cpp:139`). |

Each property of a passing run has a mutant in `PROJECT.json`: a plausible bug in the code that TLC then catches. For example:
- `NextOrReturnAlwaysBreak` leaves the read loop while data is still buffered, which breaks `HandledExactlyOnce`;
- `CttsBox_ParseSwapped` reads a ctts entry's count and offset in the wrong order, which breaks `ParsedTablesMatchFile`.

## Not modelled

- `rtmp_publish` and `ms_pull` have only headers in the repository.
- `mediasoup_pull_bench` and `mp4dump` are command-line drivers doing I/O and printing. `AnnexB2Nalus` is used only by `mp4dump`, and nothing in the sources calls `AnnexB2Avcc`. A reading of `AnnexB2Avcc` shows that it records each NALU's position after its start code but measures each NALU up to the next recorded position. Every NALU but the last therefore carries the next start code, which breaks the round trip of section 8. No run is spent on code that no path reaches.
- The `box_detail` output packets of the demuxer, and the `Dump` methods of the boxes, are formatting only.
- The FLV muxer downstream of the demuxer formats bytes and is not modelled.
- The bytes of chunk headers, AMF values and handshake digests are outside the sources. The model abstracts them to whole messages.
- Box sizes on the buffered path are counted in units rather than bytes. A packet that ends inside a box header (fewer than 8 bytes) is not distinguished from one that ends inside the body.
- Inputs are restricted to well-formed ones where the code's reaction to a malformed one is a local early return that no property is about:
  - `Start` always gets a URL that `GetRtmpUrlInfo` accepts. The failure return at `rtmp_client_session.cpp:33-37`, whose result `RtmpPlay::Init` ignores, is not taken.
  - The model server never sends an Acknowledgement control message, because it never receives a window's worth of bytes. The `RTMP_CONTROL_ACK` branch of `reportCtrlMsg` (lines 416-417), which only calls `OnRtmpCtrlAck`, is therefore never taken.
  - The io reader of the tools reads a whole file, so the short-read log-and-break of `handleMovItems` (lines 297-301) and the `ret < 16` return `OnRead` takes on a trailing box under 16 bytes (line 116) never happen. The end of the file is the one short header read `EndOfFile` models.
