---------------------------- MODULE NaluFraming ----------------------------
(***************************************************************************)
(* The NALU framing helpers of src/src/format/h264_h265_header.cpp that    *)
(* the RTMP play node applies to the video packets it receives, as         *)
(* operators over byte sequences (bytes are naturals below 256).           *)
(*                                                                         *)
(* The C++ reads through a raw pointer and never checks that a length it   *)
(* read fits in what is left. Such a read is undefined behaviour; the      *)
(* operators report it in a field overread instead of inventing the bytes  *)
(* past the end, so that a model can rule it out or observe it.            *)
(***************************************************************************)
EXTENDS Integers, Sequences, ByteStream

H264_START_CODE == <<0, 0, 0, 1>>

(* Avcc2Nalus rejects a NALU length above kMaxLen.                         *)
kMaxLen == 10 * 1000 * 1000

(* The loop of Avcc2Nalus over what is left of the buffer: read a 4-byte  *)
(* length, copy that many bytes behind a start code, advance. A length    *)
(* that runs past the end (or fewer than 4 bytes left for it) is copied   *)
(* from beyond the buffer, and data_len turns negative, ending the loop.  *)
RECURSIVE AvccLoop(_, _)
AvccLoop(d, nalus) ==
    IF d = <<>> THEN [ok |-> TRUE, nalus |-> nalus, overread |-> FALSE]
    ELSE IF Len(d) < 4 THEN [ok |-> TRUE, nalus |-> nalus, overread |-> TRUE]
    ELSE LET n == Read4Bytes(d, 0) IN
         IF n > kMaxLen THEN [ok |-> FALSE, nalus |-> nalus, overread |-> FALSE]
         ELSE IF 4 + n > Len(d)
              THEN [ok |-> TRUE, overread |-> TRUE,
                    nalus |-> Append(nalus, H264_START_CODE \o SubSeq(d, 5, Len(d)))]
              ELSE AvccLoop(SubSeq(d, 5 + n, Len(d)),
                            Append(nalus, H264_START_CODE \o SubSeq(d, 5, 4 + n)))

(* Avcc2Nalus: a buffer of fewer than 4 bytes is refused.                  *)
Avcc2Nalus(d) ==
    IF Len(d) < 4 THEN [ok |-> FALSE, nalus |-> <<>>, overread |-> FALSE]
    ELSE AvccLoop(d, <<>>)

(* GetSpsPpsFromExtraData on an AVCDecoderConfigurationRecord: check the  *)
(* 0xff 0xe1 marker at offsets 4 and 5 (only when more than 4 bytes),     *)
(* then take the first SPS and the first PPS by their 2-byte lengths.     *)
(* Offsets in the comments are the code's 0-based ones.                   *)
GetSpsPpsFromExtraData(x) ==
    LET at(i) == IF i < Len(x) THEN x[i + 1] ELSE 0   \* body[i]
        spsLen == at(6) * 256 + at(7)
        ppsLen == at(9 + spsLen) * 256 + at(10 + spsLen)
        last == 10 + spsLen + ppsLen                     \* last index read
    IN CASE Len(x) = 0 -> [ret |-> -1, sps |-> <<>>, pps |-> <<>>, overread |-> FALSE]
         [] Len(x) > 4 /\ (x[5] # 255 \/ x[6] # 225) ->
              [ret |-> -1, sps |-> <<>>, pps |-> <<>>, overread |-> FALSE]
         [] OTHER ->
              [ret |-> 0, overread |-> last >= Len(x),
               sps |-> SubSeq(x, 9, 8 + spsLen),
               pps |-> SubSeq(x, 12 + spsLen, 11 + spsLen + ppsLen)]
(* H.265 NAL unit types of the parameter sets (ITU-T H.265 table 7-1).    *)
NAL_UNIT_VPS == 32
NAL_UNIT_SPS == 33
NAL_UNIT_PPS == 34

(* The inner loop of GetHevcDecInfoFromExtradata over the k NALUs of one  *)
(* array, from 0-based offset p: a 2-byte length (read without a bound    *)
(* check) and that many bytes, refused when they run past the end.        *)
RECURSIVE HevcNalus(_, _, _, _)
HevcNalus(x, p, k, acc) ==
    IF k = 0 THEN [ret |-> 0, p |-> p, nalus |-> acc, overread |-> FALSE]
    ELSE IF p + 2 > Len(x) THEN [ret |-> -1, p |-> p, nalus |-> acc, overread |-> TRUE]
    ELSE LET len == Read2Bytes(x, p)
         IN IF p + 2 + len > Len(x)
            THEN [ret |-> -1, p |-> p, nalus |-> acc, overread |-> FALSE]
            ELSE HevcNalus(x, p + 2 + len, k - 1, Append(acc, SubSeq(x, p + 3, p + 2 + len)))

(* The outer loop over arrays_num arrays: at least 5 bytes must be left,  *)
(* then the type byte and the 2-byte NALU count. A failing array is not   *)
(* pushed; the arrays before it stay in nalu_vec.                         *)
RECURSIVE HevcArrays(_, _, _, _)
HevcArrays(x, p, n, acc) ==
    IF n = 0 THEN [ret |-> 0, nalu_vec |-> acc, overread |-> FALSE]
    ELSE IF p + 5 > Len(x) THEN [ret |-> -1, nalu_vec |-> acc, overread |-> FALSE]
    ELSE LET r == HevcNalus(x, p + 3, Read2Bytes(x, p + 1), <<>>)
         IN IF r.ret < 0 THEN [ret |-> -1, nalu_vec |-> acc, overread |-> r.overread]
            ELSE HevcArrays(x, r.p, n - 1,
                            Append(acc, [nal_unit_type |-> x[p + 1] % 64,
                                         nal_data_vec |-> r.nalus]))

(* GetHevcDecInfoFromExtradata: configuration_version must be 1; the 22   *)
(* fixed header bytes (profile, level, ... lengthSizeMinusOne) only fill  *)
(* fields and are read without checking extra_len; arrays_num is byte 22. *)
GetHevcDecInfoFromExtradata(x) ==
    IF Len(x) > 0 /\ x[1] # 1 THEN [ret |-> -1, nalu_vec |-> <<>>, overread |-> FALSE]
    ELSE IF Len(x) < 23 THEN [ret |-> -1, nalu_vec |-> <<>>, overread |-> TRUE]
    ELSE HevcArrays(x, 23, x[23], <<>>)

(* GetVpsSpsPpsFromHevcDecInfo: the first NALU of the last array of each  *)
(* parameter-set type (a later array overwrites an earlier one). An      *)
(* array of that type with no NALU is read at nal_data_vec[0] anyway:     *)
(* fault. ret is -1 when one of the three is missing.                     *)
ParamSetOf(info, ty) ==
    LET us == SelectSeq(info.nalu_vec, LAMBDA u : u.nal_unit_type = ty)
    IN IF us = <<>> \/ us[Len(us)].nal_data_vec = <<>> THEN <<>>
       ELSE us[Len(us)].nal_data_vec[1]

GetVpsSpsPpsFromHevcDecInfo(info) ==
    LET ps == [ty \in {NAL_UNIT_VPS, NAL_UNIT_SPS, NAL_UNIT_PPS} |-> ParamSetOf(info, ty)]
    IN [vps |-> ps[NAL_UNIT_VPS], sps |-> ps[NAL_UNIT_SPS], pps |-> ps[NAL_UNIT_PPS],
        ret |-> IF \E ty \in DOMAIN ps : ps[ty] = <<>> THEN -1 ELSE 0,
        fault |-> \E i \in 1..Len(info.nalu_vec) :
                     /\ info.nalu_vec[i].nal_unit_type \in DOMAIN ps
                     /\ info.nalu_vec[i].nal_data_vec = <<>>]
=============================================================================
