------------------------------ MODULE Mp4Demux ------------------------------
(***************************************************************************)
(* The MP4 demuxer of src/src/format/mp4/mp4_demux.cpp, driven through    *)
(* SourceData with an io reader, as the tools mp4dump and                  *)
(* mp4toflv_streamer drive it, or with data packets that it buffers.       *)
(*                                                                         *)
(* OnRead walks the top-level boxes of the file; one step of the model is *)
(* one iteration of its while loop. The moov iteration parses the tracks  *)
(* into traks_info_ and runs makeMovItems, adjustAllDts and               *)
(* handleMovItems, all inside that iteration as in the code. The sample   *)
(* tables of a track are chosen in Init among the well-formed tables of   *)
(* at most MaxSamples samples: stts and ctts as run-length encodings,     *)
(* stsc as the run-length encoding of a split of the samples into chunks. *)
(* Sample bytes are abstracted to the header byte of the one NALU a video *)
(* sample holds; every packet the sinker receives is recorded in emitted. *)
(***************************************************************************)
EXTENDS Integers, Sequences, SequencesExt, FiniteSets, Mp4Box

CONSTANTS
    TrackKinds,    \* handler types of the tracks of moov, in trak order
    MaxSamples,    \* samples per track
    Deltas,        \* stts sample deltas
    CttsOffsets,   \* ctts composition offsets
    Timescales,    \* mdhd timescales
    VideoCodecs,   \* codecs of the video track's sample entry
    Sizes,         \* stsz sample sizes
    StszForms,     \* how a track's stsz is written: "table" or "uniform"
    Layouts,       \* top-level box sequences of the file
    ReadUnits,     \* units of the file one fread of the tool's 2048-byte buffer reads
    Feeds,         \* how the file is handed over: "reader" or "chunks"
    ChunkUnits     \* sizes of the packets of the "chunks" feed

ASSUME /\ TrackKinds \in Seq({"vide", "soun"})
       /\ MaxSamples \in Nat \ {0} /\ ReadUnits \in Nat \ {0}
       /\ Timescales \subseteq Nat \ {0}
       /\ Feeds \subseteq {"reader", "chunks"} /\ ChunkUnits \subseteq Nat \ {0}

VARIABLES
    file,          \* the boxes of the file and the tracks its moov holds
    calls,         \* SourceData calls made
    reading,       \* OnRead is running
    pos,           \* the box at OnRead's offset
    traks_info,    \* mov_.traks_info_
    sample_items,  \* sample_items_, the multimap ordered by dts (us)
    emitted,       \* history: the packets the sinker received, in order
    crashed,       \* the process died on an invalid memory read
    received       \* units of the file handed over in "chunks" packets

vars == <<file, calls, reading, pos, traks_info, sample_items, emitted, crashed, received>>

-----------------------------------------------------------------------------
(* Sample tables.                                                         *)
RECURSIVE Compositions(_)
Compositions(n) ==
    IF n = 0 THEN {<<>>}
    ELSE UNION {{<<k>> \o c : c \in Compositions(n - k)} : k \in 1..n}

RunsOf(n, Vals) ==
    UNION {{[i \in 1..Len(c) |-> [count |-> c[i], val |-> f[i]]] :
               f \in [1..Len(c) -> Vals]} : c \in Compositions(n)}

(* stsc for a split of the samples into chunks: an entry wherever the     *)
(* number of samples per chunk changes.                                   *)
StscOf(cc) ==
    LET firsts == SetToSortSeq({k \in 1..Len(cc) : k = 1 \/ cc[k] # cc[k - 1]}, <)
    IN [i \in 1..Len(firsts) |-> [first_chunk |-> firsts[i],
                                  samples_per_chunk |-> cc[firsts[i]]]]

(* Header bytes of the NALU a video sample holds: an IDR for a sync       *)
(* sample, a plain slice otherwise.                                       *)
IdrByte == [c \in {"H264", "H265"} |-> IF c = "H264" THEN 101 ELSE 38]
SliceByte == [c \in {"H264", "H265"} |-> IF c = "H264" THEN 65 ELSE 2]

(* The parameter sets a track's codec configuration record carries:      *)
(* SPS and PPS (avcC), VPS, SPS and PPS (hvcC), the AudioSpecificConfig   *)
(* (esds); each NALU starts with its NAL header.                          *)
ParamSets ==
    [H264 |-> <<<<103, 66>>, <<104, 206>>>>,
     H265 |-> <<<<64, 1, 12, 1, 255, 255>>, <<66, 1, 1, 1, 96, 0>>, <<68, 1, 193, 114, 176, 98>>>>,
     AAC |-> <<<<18, 16>>>>]

TrakChoices(t) ==
    LET vide == TrackKinds[t] = "vide"
    IN UNION {
      {[handler |-> TrackKinds[t], codec |-> codec, timescale |-> ts,
        stts |-> stts, ctts |-> ctts, stss |-> IF vide THEN {1} ELSE {},
        stsc |-> StscOf(cc), stco |-> [k \in 1..Len(cc) |-> 1000 * t + 100 * k],
        stsz |-> stsz, config |-> ParamSets[codec]] :
          codec \in (IF vide THEN VideoCodecs ELSE {"AAC"}),
          ts \in Timescales,
          stts \in RunsOf(n, Deltas),
          ctts \in {<<>>} \cup (IF vide THEN RunsOf(n, CttsOffsets) ELSE {}),
          cc \in Compositions(n),
          stsz \in [1..n -> Sizes]} : n \in 1..MaxSamples}

RECURSIVE TrakSeqs(_)
TrakSeqs(i) ==
    IF i = 0 THEN {<<>>}
    ELSE {s \o <<x>> : s \in TrakSeqs(i - 1), x \in TrakChoices(i)}

SumSeq(s) == FoldLeft(+, 0, s)

(* FoldLeft with the accumulator evaluated once per element.             *)
Then(e, F(_)) == CHOOSE r \in {F(v) : v \in {e}} : TRUE
FoldStrict(op(_, _), base, seq) ==
    FoldLeft(LAMBDA a, x : Then(a, LAMBDA v : op(v, x)), base, seq)

-----------------------------------------------------------------------------
(* getDurationBySampleIndex: the delta of the first stts entry whose      *)
(* range [sample_count, next) holds sample_index; 0 if none does.        *)
getDurationBySampleIndex(idx, trak) ==
    LET e == trak.stts
        before(i) == SumSeq([j \in 1..(i - 1) |-> e[j].count])
        hits == {i \in 1..Len(e) : before(i) <= idx /\ idx < before(i) + e[i].count}
    IN IF hits = {} THEN 0 ELSE e[Min(hits)].val

(* getPtsBySampleIndex: dts plus the offset of the first ctts entry at    *)
(* which the running sample count equals sample_index.                   *)
getPtsBySampleIndex(idx, dts, trak) ==
    LET e == trak.ctts
        upto(i) == SumSeq([j \in 1..i |-> e[j].count])
        hits == {i \in 1..Len(e) : upto(i) = idx}
    IN dts + (IF hits = {} THEN 0 ELSE e[Min(hits)].val)

(* One MovItem of getSampleInfoInChunk: sample si of track t at offset,   *)
(* its timestamps converted to microseconds when the timescale is set.    *)
(* sample_sizes_vec_[si - 1] past the end of the vector is an invalid     *)
(* read: the vector StszBox::Parse leaves empty has no storage, and the   *)
(* read faults.                                                           *)
MovItem(t, trak, si, offset, dts) ==
    LET conv(x) == IF trak.timescale > 0 THEN (x * 1000000) \div trak.timescale ELSE x
        fault == si > Len(trak.stsz)
    IN [av |-> IF trak.handler = "soun" THEN "audio" ELSE "video",
        codec |-> trak.codec, offset |-> offset,
        len |-> IF fault THEN 0 ELSE trak.stsz[si], fault |-> fault,
        dts |-> conv(dts), pts |-> conv(getPtsBySampleIndex(si, dts, trak)),
        mmkey |-> conv(dts),
        timescale |-> 1000000,
        key |-> si \in trak.stss,
        nalu |-> IF trak.handler = "soun" THEN 0
                 ELSE IF si \in trak.stss THEN IdrByte[trak.codec]
                 ELSE SliceByte[trak.codec],
        trak |-> t, sample |-> si]

(* Mutant: the offset within the chunk is not advanced past each sample. *)
getSampleInfoInChunkNoAdvance(acc, t, trak, chunk_offset, spc) ==
    IF trak.handler \notin {"soun", "vide"} THEN acc
    ELSE FoldStrict(LAMBDA a, i :
                    LET item == MovItem(t, trak, acc.sample_index + i, a.offset, a.dts)
                    IN [a EXCEPT !.items = Append(@, item),
                                 !.dts = @ + getDurationBySampleIndex(acc.sample_index + i, trak)],
                    [acc EXCEPT !.offset = chunk_offset],
                    [i \in 1..spc |-> i - 1])

(* getSampleInfoInChunk: nothing for a handler other than soun and vide;  *)
(* otherwise the items of the samples of one chunk, each at the chunk     *)
(* offset plus the sizes before it, its dts advanced by the duration of   *)
(* the sample before.                                                     *)
getSampleInfoInChunk(acc, t, trak, chunk_offset, spc) ==
    IF trak.handler \notin {"soun", "vide"} THEN acc
    ELSE FoldStrict(LAMBDA a, i :
                    LET item == MovItem(t, trak, acc.sample_index + i, a.offset, a.dts)
                    IN [a EXCEPT !.items = Append(@, item),
                                 !.offset = @ + item.len,
                                 !.dts = @ + getDurationBySampleIndex(acc.sample_index + i, trak)],
                    [acc EXCEPT !.offset = chunk_offset],
                    [i \in 1..spc |-> i - 1])

(* The stsc entry a chunk belongs to: [first_chunk, next first_chunk),    *)
(* the last entry open-ended.                                             *)
Found(trak, i, chunk_index) ==
    IF i = Len(trak.stsc) THEN chunk_index >= trak.stsc[i].first_chunk
    ELSE chunk_index >= trak.stsc[i].first_chunk
         /\ chunk_index < trak.stsc[i + 1].first_chunk

(* The sample walk of makeMovItems for one track: for every chunk and     *)
(* every stsc entry it is found in, the samples of that chunk.            *)
TrakItems(t, trak) ==
    LET perEntry(acc, ci) ==
          FoldStrict(LAMBDA a, i :
                     IF Found(trak, i, ci)
                     THEN LET b == getSampleInfoInChunk(a, t, trak, trak.stco[ci],
                                                        trak.stsc[i].samples_per_chunk)
                          IN [b EXCEPT !.sample_index = @ + trak.stsc[i].samples_per_chunk]
                     ELSE a,
                   acc, [i \in 1..Len(trak.stsc) |-> i])
    IN FoldStrict(perEntry, [sample_index |-> 1, dts |-> 0, offset |-> 0, items |-> <<>>],
                [ci \in 1..Len(trak.stco) |-> ci]).items

(* std::multimap::insert: after every element whose key is not greater.   *)
(* The key (mmkey) is the dts at insertion; adjustAllDts later shifts the *)
(* item's dts but not its key.                                            *)
InsertItem(mm, item) ==
    InsertAt(mm, Len(SelectSeq(mm, LAMBDA x : x.mmkey <= item.mmkey)) + 1, item)

(* A packet the sinker receives. nalu is the byte after the start code of *)
(* a video packet; data is the payload of a sequence-header packet (the   *)
(* payload of a sample packet is abstracted to nalu and left empty).     *)
Packet(av, codec, dts, pts, key, seqhdr, nalu, t, s, data) ==
    [av |-> av, codec |-> codec, dts |-> dts, pts |-> pts, key |-> key,
     seqhdr |-> seqhdr, nalu |-> nalu, trak |-> t, sample |-> s, data |-> data]

SeqHdr(av, codec, t, data) ==
    Packet(av, codec, 0, 0, FALSE, TRUE,
           IF av = "video" /\ Len(data) > 4 THEN data[5] ELSE 0, t, 0, data)

(* handleH264SpsPps: SPS then PPS behind a start code; throws when the    *)
(* record is refused or either is empty.                                  *)
handleH264SpsPps(t, trak) ==
    LET r == GetSpsPpsFromExtraData(trak.seqdata)
    IN IF r.ret < 0 \/ r.sps = <<>> \/ r.pps = <<>> THEN [pkts |-> <<>>, thrown |-> TRUE]
       ELSE [pkts |-> <<SeqHdr("video", "H264", t, H264_START_CODE \o r.sps),
                        SeqHdr("video", "H264", t, H264_START_CODE \o r.pps)>>,
             thrown |-> FALSE]

(* handleH265VpsSpsPps: both return codes are ignored. Each parameter set *)
(* is copied to buf + 5 behind the start code and buf[4] = nal_unit_type, *)
(* and then vps_len (sps_len, pps_len) bytes from buf are sent. Reading   *)
(* nal_data_vec[0] of an empty array is an invalid read (thrown).         *)
handleH265VpsSpsPps(t, trak) ==
    LET r == GetVpsSpsPpsFromHevcDecInfo(GetHevcDecInfoFromExtradata(trak.seqdata))
        sent(ty, nal) == SubSeq(H264_START_CODE \o <<ty>> \o nal, 1, Len(nal))
    IN [pkts |-> <<SeqHdr("video", "H265", t, sent(NAL_UNIT_VPS, r.vps)),
                   SeqHdr("video", "H265", t, sent(NAL_UNIT_SPS, r.sps)),
                   SeqHdr("video", "H265", t, sent(NAL_UNIT_PPS, r.pps))>>,
        thrown |-> r.fault]

(* handleAACExtraData: sequence_data_ as it is.                          *)
handleAACExtraData(t, trak) ==
    [pkts |-> <<SeqHdr("audio", "AAC", t, trak.seqdata)>>, thrown |-> FALSE]

(* makeMovItems' first loop, for one track; a codec without a handler     *)
(* throws "not support".                                                  *)
ConfigPackets(t, trak) ==
    CASE trak.handler = "vide" /\ trak.codec = "H264" -> handleH264SpsPps(t, trak)
      [] trak.handler = "vide" /\ trak.codec = "H265" -> handleH265VpsSpsPps(t, trak)
      [] trak.handler = "soun" /\ trak.codec = "AAC" -> handleAACExtraData(t, trak)
      [] trak.handler \in {"vide", "soun"} -> [pkts |-> <<>>, thrown |-> TRUE]
      [] OTHER -> [pkts |-> <<>>, thrown |-> FALSE]

(* The first loop over traks_info_ stops at the first exception; the     *)
(* packets of the tracks before it have been sent.                        *)
ConfigLoop(traks) ==
    Then([t \in 1..Len(traks) |-> ConfigPackets(t, traks[t])], LAMBDA cs :
    LET bad == {t \in 1..Len(traks) : cs[t].thrown}
        upto == IF bad = {} THEN Len(traks) ELSE Min(bad)
    IN [pkts |-> FlattenSeq([t \in 1..upto |-> cs[t].pkts]), thrown |-> bad # {}])

(* makeMovItems: config packets of every track of traks_info_, then the   *)
(* samples of every track inserted into sample_items_; fault when a       *)
(* config handler throws or one of the sample size reads faults.          *)
makeMovItems(traks, mm) ==
    Then(FlattenSeq([t \in 1..Len(traks) |-> TrakItems(t, traks[t])]), LAMBDA items :
    Then(ConfigLoop(traks), LAMBDA cl :
    [config |-> cl.pkts,
     items |-> IF cl.thrown THEN mm ELSE FoldStrict(InsertItem, mm, items),
     fault |-> cl.thrown \/ \E i \in 1..Len(items) : items[i].fault]))
(* adjustAllDts, first loop: the duration of the first stts entry of the  *)
(* last audio and of the last video track, in microseconds.               *)
FirstDuration(traks, h) ==
    LET ts == {t \in 1..Len(traks) : traks[t].handler = h
                                     /\ Len(traks[t].stts) > 0}
    IN IF ts = {} THEN 0
       ELSE (traks[Max(ts)].stts[1].val * 1000000) \div traks[Max(ts)].timescale

(* adjustAllDts, second loop: walk the items in key order, remembering    *)
(* the last audio and video dts, and stop at the first item of one kind   *)
(* seen after the other kind has passed 0.                                *)
RECURSIVE AlignScan(_, _, _, _, _, _)
AlignScan(mm, i, a, v, adur, vdur) ==
    IF i > Len(mm) THEN [a |-> a, v |-> v, update_video |-> FALSE]
    ELSE LET it == mm[i] IN
         CASE it.av = "audio" /\ v > 0 /\ a <= 0 ->
                [a |-> v + adur, v |-> v, update_video |-> FALSE]
           [] it.av = "audio" -> AlignScan(mm, i + 1, it.dts, v, adur, vdur)
           [] it.av = "video" /\ a > 0 /\ v <= 0 ->
                [a |-> a, v |-> a + vdur, update_video |-> TRUE]
           [] OTHER -> AlignScan(mm, i + 1, a, it.dts, adur, vdur)

(* adjustAllDts: shift the dts and pts of the audio items by a_dts, or of *)
(* the video items by v_dts, in place: the multimap keys stay as they    *)
(* were.                                                                  *)
adjustAllDts(traks, mm) ==
    Then(AlignScan(mm, 1, -1, -1, FirstDuration(traks, "soun"),
                   FirstDuration(traks, "vide")), LAMBDA r :
    LET shift(it) == CASE it.av = "audio" /\ ~r.update_video -> r.a
                       [] it.av = "video" /\ r.update_video -> r.v
                       [] OTHER -> 0
    IN [i \in 1..Len(mm) |-> [mm[i] EXCEPT !.dts = @ + shift(mm[i]),
                                           !.pts = @ + shift(mm[i])]])

(* The H264_IS_* tests of the NALU header byte (nal_unit_type = b & 0x1f).*)
H264_IS_SPS(b) == b % 32 = 7
H264_IS_PPS(b) == b % 32 = 8
H264_IS_KEYFRAME(b) == b % 32 = 5

(* handleMovItems: one packet per item in key order, with its timestamps  *)
(* in milliseconds; an H.264/H.265 video sample of more than 5 bytes is   *)
(* sent NALU by NALU, classified with the H.264 tests.                    *)
handleMovItems(mm) ==
    LET pkt(it) ==
          LET dts == (it.dts * 1000) \div it.timescale
              pts == (it.pts * 1000) \div it.timescale
              b == it.nalu
          IN IF it.av = "video" /\ it.codec \in {"H264", "H265"}
             THEN IF it.len <= 5 THEN <<>>
                  ELSE <<Packet(it.av, it.codec, dts, pts,
                                ~(H264_IS_SPS(b) \/ H264_IS_PPS(b)) /\ H264_IS_KEYFRAME(b),
                                H264_IS_SPS(b) \/ H264_IS_PPS(b), b, it.trak, it.sample, <<>>)>>
             ELSE <<Packet(it.av, it.codec, dts, pts, FALSE, FALSE, b, it.trak, it.sample, <<>>)>>
    IN FlattenSeq([i \in 1..Len(mm) |-> pkt(mm[i])])

(* What the moov iteration computes from traks_info_ once MoovBox::Parse  *)
(* has appended to it, and the multimap: whether a parser threw, the      *)
(* result of makeMovItems, then adjustAllDts and handleMovItems.          *)
MoovResult(traks, mm) ==
    Then(makeMovItems(traks, mm), LAMBDA made :
    Then(IF made.fault THEN mm ELSE adjustAllDts(traks, made.items), LAMBDA adjusted :
    [traks |-> traks, thrown |-> \E t \in 1..Len(traks) : traks[t].thrown,
     made |-> made, adjusted |-> adjusted,
     out |-> IF made.fault THEN <<>> ELSE handleMovItems(adjusted)]))

-----------------------------------------------------------------------------
(* A file: its top-level boxes, the tracks its moov holds, and how each  *)
(* track's stsz is written; a uniform stsz needs one size for all. The   *)
(* tracks MoovBox::Parse reads from the moov bytes depend on the file    *)
(* alone, so they are computed once per file (parsed) rather than on     *)
(* every evaluation of the moov step; so is the result of the first moov  *)
(* iteration (first), which starts from empty traks_info_ and multimap.  *)
Recorded(tr, f) ==
    Then(MoovBox_Parse(MoovBytes(tr, f), <<>>), LAMBDA parsed :
    [boxes |-> <<>>, feed |-> "", moov |-> tr, stszForms |-> f, parsed |-> parsed,
        first |-> MoovResult(parsed, <<>>)])

Init ==
    /\ file \in UNION {{[r EXCEPT !.boxes = l, !.feed = fd] : l \in Layouts, fd \in Feeds} :
                        r \in UNION {{Recorded(tr, f) :
                                        f \in {g \in [1..Len(TrackKinds) -> StszForms] :
                                                \A t \in 1..Len(TrackKinds) :
                                                   g[t] = "uniform" => Cardinality(Range(tr[t].stsz)) = 1}} :
                                        tr \in TrakSeqs(Len(TrackKinds))}}
    /\ calls = 0
    /\ reading = FALSE
    /\ pos = 1
    /\ traks_info = <<>>
    /\ sample_items = <<>>
    /\ emitted = <<>>
    /\ crashed = FALSE
    /\ received = 0

(* Box sizes are counted in units; the file ends FileUnits units in.     *)
FileUnits == SumSeq([i \in 1..Len(file.boxes) |-> file.boxes[i].units])

(* main's loop: fread fills read_data until it returns 0, and every       *)
(* non-empty read is handed to InputMp4Data, so the file takes            *)
(* ceil(FileUnits / ReadUnits) calls.                                     *)
ToolReads == (FileUnits + ReadUnits - 1) \div ReadUnits

(* InputMp4Data: the read bytes go into a packet that also carries the    *)
(* manager's io reader, and the packet is passed to SourceData.           *)
InputMp4Data ==
    /\ file.feed = "reader"
    /\ calls < ToolReads
    /\ calls' = calls + 1

(* SourceData with an io reader: the previous call has returned, and     *)
(* OnRead starts again from offset 0.                                     *)
SourceData ==
    /\ ~reading
    /\ ~crashed
    /\ InputMp4Data
    /\ reading' = TRUE
    /\ pos' = 1
    /\ UNCHANGED <<file, traks_info, sample_items, emitted, crashed, received>>

(* The moov branch of OnRead: MoovBox::Parse appends the tracks to        *)
(* traks_info_ (each trak box adds one TrakInfo and fills only that one,  *)
(* so the result is traks_info_ followed by file.parsed), then            *)
(* makeMovItems, adjustAllDts and handleMovItems run.                     *)
(* An exception from a box parser leaves MoovBox::Parse before any        *)
(* packet; an exception or a faulting sample size read in makeMovItems    *)
(* ends the process after the config packets sent so far. Nothing in the  *)
(* tools catches the exception.                                           *)
ReadMoov ==
    \E r \in {IF traks_info = <<>> /\ sample_items = <<>> THEN file.first
              ELSE MoovResult(traks_info \o file.parsed, sample_items)} :
       /\ traks_info' = r.traks
       /\ IF r.thrown
          THEN /\ crashed' = TRUE
               /\ reading' = FALSE
               /\ UNCHANGED <<sample_items, emitted>>
          ELSE IF r.made.fault
          THEN /\ crashed' = TRUE
               /\ reading' = FALSE
               /\ sample_items' = sample_items
               /\ emitted' = emitted \o r.made.config
          ELSE /\ sample_items' = r.adjusted
               /\ emitted' = emitted \o r.made.config \o r.out
               /\ UNCHANGED <<crashed, reading>>

OtherBox == UNCHANGED <<traks_info, sample_items, emitted, crashed, reading>>

(* Mutant: offset advances past the moov box and its header again.      *)
ReadBoxMoovHeaderTwice ==
    /\ file.feed = "reader"
    /\ reading
    /\ pos <= Len(file.boxes)
    /\ LET box == file.boxes[pos] IN
       /\ pos' = IF box.size0 THEN pos ELSE IF box.type = "moov" THEN pos + 2 ELSE pos + 1
       /\ IF box.type = "moov" THEN ReadMoov ELSE OtherBox
    /\ UNCHANGED <<file, calls, received>>

(* One iteration of OnRead's loop on the box at offset: parse it and      *)
(* advance by its size. A size field of 0 advances by nothing.           *)
ReadBox ==
    /\ file.feed = "reader"
    /\ reading
    /\ pos <= Len(file.boxes)
    /\ LET box == file.boxes[pos] IN
       /\ pos' = IF box.size0 THEN pos ELSE pos + 1
       /\ IF box.type = "moov" THEN ReadMoov ELSE OtherBox
    /\ UNCHANGED <<file, calls, received>>

(* The header read at the end of the file comes back short: OnRead       *)
(* returns.                                                               *)
EndOfFile ==
    /\ file.feed = "reader"
    /\ reading
    /\ pos > Len(file.boxes)
    /\ reading' = FALSE
    /\ UNCHANGED <<file, calls, pos, traks_info, sample_items, emitted, crashed, received>>

(* SourceData without an io reader. Box sizes are counted in units; box  *)
(* q ends BoxEnd(q) units in.                                             *)
BoxEnd(q) == SumSeq([i \in 1..q |-> file.boxes[i].units])

(* The loop over buffer_ from the box at pos, with avail units appended:  *)
(* it parses every box that lies whole in the buffer and breaks at the    *)
(* first one that does not. A size field of 0 fits and advances p by      *)
(* nothing, so the loop runs on that box for ever: the call never         *)
(* returns. ConsumeData drops the parsed boxes.                           *)
BufferWalk(avail) ==
    LET whole(q) == \A i \in pos..q : BoxEnd(i) <= avail /\ ~file.boxes[i].size0
        upto == Max({q \in (pos - 1)..Len(file.boxes) : whole(q)})
    IN [next |-> upto + 1,
        moov |-> \E i \in pos..upto : file.boxes[i].type = "moov",
        stuck |-> upto < Len(file.boxes) /\ file.boxes[upto + 1].size0
                  /\ BoxEnd(upto) < avail]

(* The moov branch of the buffered loop: MoovBox::Parse, makeMovItems,    *)
(* adjustAllDts and handleMovItems as in OnRead, except that io_reader_   *)
(* was never set: handleMovItems reads the first sample through a null    *)
(* io_reader_ and the process dies after the config packets.              *)
BufferedMoov ==
    LET r == file.first IN
    /\ traks_info' = r.traks
    /\ IF r.thrown
       THEN /\ crashed' = TRUE
            /\ UNCHANGED <<sample_items, emitted>>
       ELSE IF r.made.fault
       THEN /\ crashed' = TRUE
            /\ sample_items' = sample_items
            /\ emitted' = emitted \o r.made.config
       ELSE /\ sample_items' = r.adjusted
            /\ emitted' = emitted \o r.made.config
            /\ crashed' = (r.adjusted # <<>>)

(* SourceData with a data packet: AppendData, the box loop, ConsumeData.  *)
(* The tool hands the file over in packets of ChunkUnits units, the last *)
(* one short, until the input ends.                                      *)
SourceDataBuffered ==
    /\ file.feed = "chunks"
    /\ ~reading
    /\ ~crashed
    /\ received < FileUnits
    /\ \E k \in ChunkUnits :
          LET avail == IF received + k < FileUnits THEN received + k ELSE FileUnits
              w == BufferWalk(avail)
          IN /\ received' = avail
             /\ pos' = w.next
             /\ IF w.moov THEN BufferedMoov
                ELSE UNCHANGED <<traks_info, sample_items, emitted, crashed>>
             /\ reading' = (w.stuck /\ ~crashed')
    /\ UNCHANGED <<file, calls>>

Next == SourceData \/ ReadBox \/ EndOfFile \/ SourceDataBuffered

(* OnRead runs to completion on the caller's thread and the tool keeps    *)
(* handing data over until its input ends.                                *)
Spec == Init /\ [][Next]_vars /\ WF_vars(Next)
-----------------------------------------------------------------------------
TypeOK ==
    /\ calls \in 0..ToolReads
    /\ received \in 0..FileUnits
    /\ reading \in BOOLEAN
    /\ crashed \in BOOLEAN
    /\ pos \in 1..(Len(file.boxes) + 1)
    /\ \A t \in 1..Len(traks_info) : traks_info[t].handler \in {"vide", "soun"}
    /\ \A i \in 1..Len(sample_items) :
          /\ sample_items[i].av \in {"audio", "video"}
          /\ sample_items[i].trak \in 1..Len(traks_info)
    /\ \A i \in 1..Len(emitted) :
          emitted[i].seqhdr \in BOOLEAN /\ emitted[i].key \in BOOLEAN

(* The file's own tables of the track that traks_info_[t] was parsed     *)
(* from (a second SourceData appends the tracks again).                  *)
FileTrak(t) == file.moov[((t - 1) % Len(file.moov)) + 1]

(* Reference reading of the sample tables, 1-based as ISO/IEC 14496-12    *)
(* numbers samples and chunks.                                            *)
RunCovering(e, s) ==
    LET upto(i) == SumSeq([j \in 1..i |-> e[j].count])
        hits == {i \in 1..Len(e) : upto(i) - e[i].count < s /\ s <= upto(i)}
    IN IF hits = {} THEN 0 ELSE Min(hits)

RefDts(trak, s) ==
    SumSeq([j \in 1..(s - 1) |-> trak.stts[RunCovering(trak.stts, j)].val])

RefCts(trak, s) ==
    IF RunCovering(trak.ctts, s) = 0 THEN 0
    ELSE trak.ctts[RunCovering(trak.ctts, s)].val

SamplesPerChunk(trak, k) ==
    trak.stsc[Max({i \in 1..Len(trak.stsc) : trak.stsc[i].first_chunk <= k})].samples_per_chunk

FirstSampleOfChunk(trak, k) ==
    1 + SumSeq([j \in 1..(k - 1) |-> SamplesPerChunk(trak, j)])

ChunkOf(trak, s) ==
    Max({k \in 1..Len(trak.stco) : FirstSampleOfChunk(trak, k) <= s})

RefOffset(trak, s) ==
    LET k == ChunkOf(trak, s)
    IN trak.stco[k] + SumSeq([j \in FirstSampleOfChunk(trak, k)..(s - 1) |-> trak.stsz[j]])

FirstItem(t) == CHOOSE it \in Range(sample_items) : it.trak = t /\ it.sample = 1

SamplePackets == SelectSeq(emitted, LAMBDA p : p.sample > 0)

(* Once MoovBox::Parse has read the tracks, the schedule makeMovItems     *)
(* builds from the parsed stsc/stco/stsz holds every sample of every      *)
(* track of the file exactly once, at the file offset and with the size   *)
(* the file's tables give it.                                             *)
ScheduleMatchesTables ==
    LET ref == UNION {{[trak |-> t, sample |-> s, offset |-> RefOffset(FileTrak(t), s),
                        len |-> FileTrak(t).stsz[s]] : s \in 1..Len(FileTrak(t).stsz)} :
                        t \in 1..Len(traks_info)}
    IN /\ Len(sample_items) = Cardinality(ref)
       /\ {[trak |-> it.trak, sample |-> it.sample, offset |-> it.offset, len |-> it.len] :
             it \in Range(sample_items)} = ref

(* Every SourceData call returns and the tool hands the whole file over:  *)
(* OnRead's box walk reaches the end of the file, and the buffered loop  *)
(* leaves no call running, until the process ends or the input does.     *)
InputDone ==
    IF file.feed = "reader" THEN calls = ToolReads
    ELSE crashed \/ received = FileUnits

OnReadReturns == <>[](~reading /\ InputDone)

(* Section 8: sample packets are emitted in non-decreasing DTS order.     *)
EmittedDtsNonDecreasing ==
    \A i, j \in 1..Len(SamplePackets) :
        i < j => SamplePackets[i].dts <= SamplePackets[j].dts

(* Section 4.D.2: a sample's dts is the sum of the stts deltas of the     *)
(* samples before it, and its pts adds the ctts offset of its own entry;  *)
(* stated relative to the track's first sample, so that the shift of      *)
(* adjustAllDts cancels, in microseconds.                                 *)
SampleTimesFollowTables ==
    \A it \in Range(sample_items) :
        LET trak == FileTrak(it.trak)
        IN /\ it.dts - FirstItem(it.trak).dts
                 = (RefDts(trak, it.sample) * 1000000) \div trak.timescale
           /\ it.pts - FirstItem(it.trak).dts
                 = ((RefDts(trak, it.sample) + RefCts(trak, it.sample)) * 1000000)
                     \div trak.timescale

(* MoovBox::Parse and the box parsers under it read back, for every      *)
(* track, the handler, codec, timescale and the six sample tables the     *)
(* file was written with.                                                 *)
TableFields == {"handler", "codec", "timescale", "stts", "ctts", "stss", "stsc", "stsz", "stco"}

ParsedTablesMatchFile ==
    \A t \in 1..Len(traks_info) :
        [f \in TableFields |-> traks_info[t][f]] = [f \in TableFields |-> FileTrak(t)[f]]

(* Section 4.D.1: the sequence-header packets sent for a track are, in    *)
(* order, each parameter set of its configuration record behind a start   *)
(* code (SPS, PPS for H.264; VPS, SPS, PPS for H.265), or the raw         *)
(* AudioSpecificConfig for AAC: handleH264SpsPps, handleH265VpsSpsPps and *)
(* handleAACExtraData on the sequence_data_ the box parsers stored. A     *)
(* crash may cut the list short.                                          *)
ExpectedConfig(trak) ==
    IF trak.handler = "vide"
    THEN [i \in 1..Len(trak.config) |-> H264_START_CODE \o trak.config[i]]
    ELSE trak.config

ConfigPacketsMatchRecords ==
    \A t \in 1..Len(traks_info) :
        LET sent == SelectSeq(emitted, LAMBDA pk : pk.trak = t /\ pk.sample = 0)
            datas == [i \in 1..Len(sent) |-> sent[i].data]
        IN IF crashed THEN IsPrefix(datas, ExpectedConfig(FileTrak(t)))
           ELSE datas = ExpectedConfig(FileTrak(t))

(* Sections 4.D.1 and 4.D.2: the moov branch of OnRead sends the codec    *)
(* configuration the file records and schedules every sample its tables  *)
(* list, at the chunk offset and size they give.                         *)
MoovOutputMatchesFile == ConfigPacketsMatchRecords /\ ScheduleMatchesTables

(* Section 4.D: the demuxer emits each sample of the file once.           *)
SamplesEmittedOnce ==
    LET fileTrak(t) == ((t - 1) % Len(TrackKinds)) + 1
    IN \A i, j \in 1..Len(SamplePackets) :
         i < j => <<fileTrak(SamplePackets[i].trak), SamplePackets[i].sample>>
                  # <<fileTrak(SamplePackets[j].trak), SamplePackets[j].sample>>
=============================================================================
