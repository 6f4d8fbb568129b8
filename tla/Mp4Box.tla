------------------------------- MODULE Mp4Box -------------------------------
(***************************************************************************)
(* The box parsers of src/src/format/mp4/mp4_box.hpp that fill             *)
(* MovInfo::traks_info_ when Mp4Demuxer::OnRead parses moov, as operators *)
(* over the bytes d of the moov box. An offset is the 0-based distance    *)
(* from the start of d, as in the C++ pointer arithmetic. Every Parse     *)
(* returns start + box_size_, so a container walks its children by their  *)
(* size fields. A trak's TrakInfo is kept with the fields the demuxer     *)
(* reads: handler, codec, timescale, the six sample tables and           *)
(* sequence_data_ (seqdata). An exception thrown by a parser (hvcC) ends  *)
(* the parse; thrown marks the trak it was thrown in. The fields         *)
(* nothing downstream reads (durations, track ids, picture sizes, codec    *)
(* descriptors) are skipped over, as the boxes that hold only such fields *)
(* (mvhd, tkhd, edts, udta, vmhd, smhd, dinf, pasp, mp4a's fields) are.    *)
(***************************************************************************)
EXTENDS Integers, Sequences, SequencesExt, FiniteSets, NaluFraming

(* The four-character codes the parsers and the writer use, in ASCII.     *)
FourCC ==
    [moov |-> <<109, 111, 111, 118>>, trak |-> <<116, 114, 97, 107>>,
     mdia |-> <<109, 100, 105, 97>>, mdhd |-> <<109, 100, 104, 100>>,
     hdlr |-> <<104, 100, 108, 114>>, minf |-> <<109, 105, 110, 102>>,
     stbl |-> <<115, 116, 98, 108>>, stsd |-> <<115, 116, 115, 100>>,
     stts |-> <<115, 116, 116, 115>>, ctts |-> <<99, 116, 116, 115>>,
     stss |-> <<115, 116, 115, 115>>, stsc |-> <<115, 116, 115, 99>>,
     stsz |-> <<115, 116, 115, 122>>, stco |-> <<115, 116, 99, 111>>,
     avc1 |-> <<97, 118, 99, 49>>, hvc1 |-> <<104, 118, 99, 49>>,
     avcC |-> <<97, 118, 99, 67>>, hvcC |-> <<104, 118, 99, 67>>,
     vvcC |-> <<118, 118, 99, 67>>, av1C |-> <<97, 118, 49, 67>>,
     mp4a |-> <<109, 112, 52, 97>>, Opus |-> <<79, 112, 117, 115>>,
     vide |-> <<118, 105, 100, 101>>, soun |-> <<115, 111, 117, 110>>,
     mvhd |-> <<109, 118, 104, 100>>, tkhd |-> <<116, 107, 104, 100>>,
     vmhd |-> <<118, 109, 104, 100>>, smhd |-> <<115, 109, 104, 100>>,
     esds |-> <<101, 115, 100, 115>>]

(* GetBoxHeaderInfo: the 32-bit size, or the 64-bit largesize after the   *)
(* type when the size field is 1; the type is the next four bytes.        *)
GetBoxHeaderInfo(d, p) ==
    LET size32 == Read4Bytes(d, p)
    IN [size |-> IF size32 = 1 THEN Read8Bytes(d, p + 8) ELSE size32,
        type |-> SubSeq(d, p + 5, p + 8),
        offset |-> IF size32 = 1 THEN 16 ELSE 8]

(* Mp4BoxBase::Parse: the body of the box at s starts past its header,    *)
(* and the box ends box_size_ bytes after s.                              *)
Body(d, s) == s + GetBoxHeaderInfo(d, s).offset
End(d, s) == s + GetBoxHeaderInfo(d, s).size

(* GetCodecTypeByBoxType.                                                  *)
GetCodecTypeByBoxType(t) ==
    CASE t = FourCC.avcC -> "H264"
      [] t \in {FourCC.hvcC, FourCC.hvc1} -> "H265"
      [] t = FourCC.vvcC -> "H266"
      [] t = FourCC.av1C -> "AV1"
      [] t = FourCC.mp4a -> "AAC"
      [] t = FourCC.Opus -> "OPUS"
      [] OTHER -> "UNKNOWN"

(* The TrakInfo that MoovBox::Parse appends for a trak box; timescale_ has *)
(* no initializer, and every trak of the model's files has an mdhd.       *)
NewTrakInfo ==
    [handler |-> "", codec |-> "UNKNOWN", timescale |-> 0, stts |-> <<>>,
     ctts |-> <<>>, stss |-> {}, stsc |-> <<>>, stsz |-> <<>>, stco |-> <<>>,
     seqdata |-> <<>>, thrown |-> FALSE]

(* The bytes of the body of the box at s.                                 *)
BodyBytes(d, s) == SubSeq(d, Body(d, s) + 1, End(d, s))

RECURSIVE Walk(_, _, _, _, _)

-----------------------------------------------------------------------------
(* MdhdBox::Parse: the timescale follows 32-bit times in version 0 and    *)
(* 64-bit times otherwise.                                                *)
MdhdBox_Parse(d, s, trak) ==
    LET p == Body(d, s)
    IN [trak EXCEPT !.timescale = IF d[p + 1] = 0 THEN Read4Bytes(d, p + 12)
                                  ELSE Read4Bytes(d, p + 20)]

(* HdlrBox::Parse: handler_type after version and pre_defined, as the     *)
(* string Uint32ToString makes of it (only "vide" and "soun" matter).     *)
HdlrBox_Parse(d, s, trak) ==
    LET b == SubSeq(d, Body(d, s) + 9, Body(d, s) + 12)
    IN [trak EXCEPT !.handler = CASE b = FourCC.vide -> "vide"
                                  [] b = FourCC.soun -> "soun"
                                  [] OTHER -> "other"]

(* SttsBox::Parse and CttsBox::Parse: entry_count (count, value) pairs    *)
(* appended to the track's vector.                                        *)
Pairs(d, p) ==
    [i \in 1..Read4Bytes(d, p + 4) |-> [count |-> Read4Bytes(d, p + 8 * i),
                                       val |-> Read4Bytes(d, p + 8 * i + 4)]]

SttsBox_Parse(d, s, trak) == [trak EXCEPT !.stts = @ \o Pairs(d, Body(d, s))]

(* Mutant: sample_count and sample_offset read in swapped order.          *)
CttsBox_ParseSwapped(d, s, trak) ==
    [trak EXCEPT !.ctts = @ \o [i \in 1..Read4Bytes(d, Body(d, s) + 4) |->
        [count |-> Read4Bytes(d, Body(d, s) + 8 * i + 4),
         val |-> Read4Bytes(d, Body(d, s) + 8 * i)]]]

CttsBox_Parse(d, s, trak) == [trak EXCEPT !.ctts = @ \o Pairs(d, Body(d, s))]

(* StssBox::Parse: the sync sample numbers.                                *)
StssBox_Parse(d, s, trak) ==
    LET p == Body(d, s)
    IN [trak EXCEPT !.stss = @ \cup {Read4Bytes(d, p + 4 + 4 * i) : i \in 1..Read4Bytes(d, p + 4)}]

(* StscBox::Parse: 12-byte entries, the loop leaving at the first entry   *)
(* that would start at or past the end of the box.                        *)
StscBox_Parse(d, s, trak) ==
    LET p == Body(d, s)
        at(i) == p + 8 + 12 * (i - 1)
        n == Cardinality({i \in 1..Read4Bytes(d, p + 4) : at(i) < End(d, s)})
    IN [trak EXCEPT !.stsc = @ \o [i \in 1..n |-> [first_chunk |-> Read4Bytes(d, at(i)),
                                                 samples_per_chunk |-> Read4Bytes(d, at(i) + 4)]]]

(* StszBox::Parse: the per-sample sizes are read only when constant_size_ *)
(* is 0; otherwise sample_sizes_vec_ is left as it was.                   *)
StszBox_Parse(d, s, trak) ==
    LET p == Body(d, s)
    IN IF Read4Bytes(d, p + 4) = 0
       THEN [trak EXCEPT !.stsz = [i \in 1..Read4Bytes(d, p + 8) |-> Read4Bytes(d, p + 8 + 4 * i)]]
       ELSE trak

(* StcoBox::Parse: chunk_offsets_vec_ resized to entry_count and filled.  *)
StcoBox_Parse(d, s, trak) ==
    LET p == Body(d, s)
    IN [trak EXCEPT !.stco = [i \in 1..Read4Bytes(d, p + 4) |-> Read4Bytes(d, p + 4 + 4 * i)]]

(* StsdAvcInfo::Parse reads the fixed visual sample entry fields.         *)
StsdAvcInfoSize == 78

(* VideoSequenceBox::Parse and HvcCBox::Parse: the codec named by the     *)
(* box's own type.                                                        *)
VideoSequenceBox_Parse(d, s, trak) ==
    [trak EXCEPT !.codec = GetCodecTypeByBoxType(GetBoxHeaderInfo(d, s).type),
                 !.seqdata = BodyBytes(d, s)]

(* HvcCBox::Parse throws on more than 5120 bytes or a record that         *)
(* GetHevcDecInfoFromExtradata refuses.                                   *)
HvcCBox_Parse(d, s, trak) ==
    LET x == BodyBytes(d, s)
    IN IF Len(x) > 5 * 1024 \/ GetHevcDecInfoFromExtradata(x).ret < 0
       THEN [trak EXCEPT !.thrown = TRUE]
       ELSE [trak EXCEPT !.codec = GetCodecTypeByBoxType(GetBoxHeaderInfo(d, s).type),
                         !.seqdata = x]

(* Mp4aBox::Parse: past its 28 bytes of fields, whatever the box holds    *)
(* (its esds child box, header included) is copied to sequence_data_.    *)
Mp4aBox_Parse(d, s, trak) ==
    LET q == Body(d, s) + 28
    IN IF q < End(d, s) THEN [trak EXCEPT !.seqdata = SubSeq(d, q + 1, End(d, s))]
       ELSE trak

(* Avc1Box::Parse: the box right after the fixed fields is taken as the   *)
(* codec configuration, whatever its type; then the remaining children.   *)
Avc1Box_Parse(d, s, trak) ==
    LET v == Body(d, s) + StsdAvcInfoSize
        t == VideoSequenceBox_Parse(d, v, trak)
    IN IF End(d, v) = End(d, s) THEN t ELSE Walk(d, End(d, v), End(d, s), t, "avc1")

(* Hvc1Box::Parse: children after the fixed fields, while more than 6     *)
(* bytes are left.                                                        *)
Hvc1Box_Parse(d, s, trak) ==
    Walk(d, Body(d, s) + StsdAvcInfoSize, End(d, s) - 6, trak, "hvc1")

(* StsdBox::Parse: entry_count sample entries; a video track parses avc1  *)
(* and hvc1, an audio track takes its codec from the entry's type.        *)
RECURSIVE StsdEntries(_, _, _, _)
StsdEntries(d, p, n, trak) ==
    IF n = 0 THEN trak
    ELSE LET h == GetBoxHeaderInfo(d, p)
             t == CASE trak.handler = "vide" /\ h.type = FourCC.avc1 -> Avc1Box_Parse(d, p, trak)
                    [] trak.handler = "vide" /\ h.type = FourCC.hvc1 -> Hvc1Box_Parse(d, p, trak)
                    [] trak.handler = "soun" /\ h.type = FourCC.mp4a ->
                         Mp4aBox_Parse(d, p, [trak EXCEPT !.codec = GetCodecTypeByBoxType(h.type)])
                    [] trak.handler = "soun" ->
                         [trak EXCEPT !.codec = GetCodecTypeByBoxType(h.type)]
                    [] OTHER -> trak
         IN StsdEntries(d, p + h.size, n - 1, t)

StsdBox_Parse(d, s, trak) ==
    StsdEntries(d, Body(d, s) + 8, Read4Bytes(d, Body(d, s) + 4), trak)

-----------------------------------------------------------------------------
(* The containers. StblBox::Parse and the dispatch of its children.       *)
StblChild(d, p, trak) ==
    LET ty == GetBoxHeaderInfo(d, p).type
    IN CASE ty = FourCC.stsd -> StsdBox_Parse(d, p, trak)
         [] ty = FourCC.stts -> SttsBox_Parse(d, p, trak)
         [] ty = FourCC.ctts -> CttsBox_Parse(d, p, trak)
         [] ty = FourCC.stss -> StssBox_Parse(d, p, trak)
         [] ty = FourCC.stsc -> StscBox_Parse(d, p, trak)
         [] ty = FourCC.stsz -> StszBox_Parse(d, p, trak)
         [] ty = FourCC.stco -> StcoBox_Parse(d, p, trak)
         [] OTHER -> trak

StblBox_Parse(d, s, trak) == Walk(d, Body(d, s), End(d, s), trak, "stbl")

(* MinfBox::Parse: only stbl fills TrakInfo; the loop stops 6 bytes       *)
(* before the end.                                                        *)
MinfChild(d, p, trak) ==
    IF GetBoxHeaderInfo(d, p).type = FourCC.stbl THEN StblBox_Parse(d, p, trak) ELSE trak

MinfBox_Parse(d, s, trak) == Walk(d, Body(d, s), End(d, s) - 6, trak, "minf")

(* MdiaBox::Parse: mdhd, hdlr and minf, in the order they come.           *)
MdiaChild(d, p, trak) ==
    LET ty == GetBoxHeaderInfo(d, p).type
    IN CASE ty = FourCC.mdhd -> MdhdBox_Parse(d, p, trak)
         [] ty = FourCC.hdlr -> HdlrBox_Parse(d, p, trak)
         [] ty = FourCC.minf -> MinfBox_Parse(d, p, trak)
         [] OTHER -> trak

MdiaBox_Parse(d, s, trak) == Walk(d, Body(d, s), End(d, s) - 6, trak, "mdia")

(* TrakBox::Parse: only mdia fills TrakInfo.                               *)
TrakChild(d, p, trak) ==
    IF GetBoxHeaderInfo(d, p).type = FourCC.mdia THEN MdiaBox_Parse(d, p, trak) ELSE trak

TrakBox_Parse(d, s, traks) ==
    [traks EXCEPT ![Len(traks)] = Walk(d, Body(d, s), End(d, s), traks[Len(traks)], "trak")]

(* MoovBox::Parse: a trak box appends a TrakInfo and fills it.            *)
MoovChild(d, p, traks) ==
    IF GetBoxHeaderInfo(d, p).type = FourCC.trak
    THEN TrakBox_Parse(d, p, Append(traks, NewTrakInfo))
    ELSE traks

(* Hvc1Box::Parse's children: hvcC names the codec.                        *)
Hvc1Child(d, p, trak) ==
    IF GetBoxHeaderInfo(d, p).type = FourCC.hvcC THEN HvcCBox_Parse(d, p, trak) ELSE trak

Child(level, d, p, acc) ==
    CASE level = "moov" -> MoovChild(d, p, acc)
      [] level = "trak" -> TrakChild(d, p, acc)
      [] level = "mdia" -> MdiaChild(d, p, acc)
      [] level = "minf" -> MinfChild(d, p, acc)
      [] level = "stbl" -> StblChild(d, p, acc)
      [] level = "hvc1" -> Hvc1Child(d, p, acc)
      [] OTHER -> acc

(* The while loop of a container: parse the child at p and advance by its *)
(* size while p is below the loop's limit.                                *)
Walk(d, p, limit, acc, level) ==
    IF p < limit
    THEN Walk(d, p + GetBoxHeaderInfo(d, p).size, limit, Child(level, d, p, acc), level)
    ELSE acc

(* MoovBox::Parse on the moov box d, appending to traks_info_.            *)
MoovBox_Parse(d, traks) == Walk(d, Body(d, 0), End(d, 0), traks, "moov")

-----------------------------------------------------------------------------
(* A writer of the boxes as ISO/IEC 14496-12 lays them out: the input the *)
(* model feeds the parsers, built from the sample tables of each track.   *)
(* stszForm "table" lists every sample's size; "uniform" gives the one    *)
(* size all samples share (sample_size != 0), as the standard allows.     *)
U32(n) == <<(n \div 16777216) % 256, (n \div 65536) % 256, (n \div 256) % 256, n % 256>>

Zeros(k) == [i \in 1..k |-> 0]

BoxBytes(type, payload) == U32(8 + Len(payload)) \o FourCC[type] \o payload

FullBoxBytes(type, payload) == BoxBytes(type, Zeros(4) \o payload)

EntriesBytes(s, F(_)) == FlattenSeq([i \in 1..Len(s) |-> F(s[i])])

PairBytes(e) == U32(e.count) \o U32(e.val)

StscEntryBytes(e) == U32(e.first_chunk) \o U32(e.samples_per_chunk) \o U32(1)

U16(n) == <<(n \div 256) % 256, n % 256>>

(* AVCDecoderConfigurationRecord with one SPS and one PPS (config[1..2]). *)
AvcCBytes(c) ==
    <<1, 66, 0, 30, 255, 225>> \o U16(Len(c[1])) \o c[1] \o <<1>> \o U16(Len(c[2])) \o c[2]

(* HEVCDecoderConfigurationRecord: version 1, 21 header bytes, then three *)
(* complete arrays (VPS, SPS, PPS) of one NALU each (config[1..3]).      *)
HvcCBytes(c) ==
    <<1>> \o Zeros(21) \o <<3>>
    \o FlattenSeq([i \in 1..3 |-> <<128 + 31 + i>> \o U16(1) \o U16(Len(c[i])) \o c[i]])

(* An ES descriptor with a 4-byte length, and the esds box around the     *)
(* AudioSpecificConfig asc (ISO/IEC 14496-1 section 7.2.6).              *)
DescBytes(tag, body) == <<tag, 128, 128, 128, Len(body)>> \o body

EsdsBytes(asc) ==
    FullBoxBytes("esds",
        DescBytes(3, U16(1) \o <<0>>
                     \o DescBytes(4, <<64, 21>> \o Zeros(11) \o DescBytes(5, asc))
                     \o DescBytes(6, <<2>>)))

SampleEntryBytes(trak) ==
    CASE trak.codec = "H264" -> BoxBytes("avc1", Zeros(78) \o BoxBytes("avcC", AvcCBytes(trak.config)))
      [] trak.codec = "H265" -> BoxBytes("hvc1", Zeros(78) \o BoxBytes("hvcC", HvcCBytes(trak.config)))
      [] OTHER -> BoxBytes("mp4a", Zeros(28) \o EsdsBytes(trak.config[1]))

StszBytes(trak, stszForm) ==
    IF stszForm = "uniform"
    THEN FullBoxBytes("stsz", U32(trak.stsz[1]) \o U32(Len(trak.stsz)))
    ELSE FullBoxBytes("stsz", U32(0) \o U32(Len(trak.stsz)) \o EntriesBytes(trak.stsz, U32))

StblBytes(trak, stszForm) ==
    BoxBytes("stbl",
        FullBoxBytes("stsd", U32(1) \o SampleEntryBytes(trak))
        \o FullBoxBytes("stts", U32(Len(trak.stts)) \o EntriesBytes(trak.stts, PairBytes))
        \o (IF trak.ctts = <<>> THEN <<>>
            ELSE FullBoxBytes("ctts", U32(Len(trak.ctts)) \o EntriesBytes(trak.ctts, PairBytes)))
        \o (IF trak.stss = {} THEN <<>>
            ELSE FullBoxBytes("stss", U32(Cardinality(trak.stss))
                                      \o EntriesBytes(SetToSortSeq(trak.stss, <), U32)))
        \o FullBoxBytes("stsc", U32(Len(trak.stsc)) \o EntriesBytes(trak.stsc, StscEntryBytes))
        \o StszBytes(trak, stszForm)
        \o FullBoxBytes("stco", U32(Len(trak.stco)) \o EntriesBytes(trak.stco, U32)))

TrakBytes(trak, stszForm) ==
    BoxBytes("trak",
        FullBoxBytes("tkhd", Zeros(80))
        \o BoxBytes("mdia",
             FullBoxBytes("mdhd", U32(0) \o U32(0) \o U32(trak.timescale) \o U32(0) \o Zeros(4))
             \o FullBoxBytes("hdlr", U32(0) \o FourCC[trak.handler] \o Zeros(13))
             \o BoxBytes("minf",
                  (IF trak.handler = "vide" THEN FullBoxBytes("vmhd", Zeros(8))
                   ELSE FullBoxBytes("smhd", Zeros(4)))
                  \o StblBytes(trak, stszForm))))

MoovBytes(traks, stszForms) ==
    BoxBytes("moov", FullBoxBytes("mvhd", Zeros(96))
                     \o FlattenSeq([t \in 1..Len(traks) |-> TrakBytes(traks[t], stszForms[t])]))
=============================================================================
