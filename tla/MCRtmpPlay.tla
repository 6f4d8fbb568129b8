----------------------------- MODULE MCRtmpPlay -----------------------------
(* The play node with a server that sends, after play, the metadata and   *)
(* three media messages: an AVC sequence header holding one SPS and one   *)
(* PPS, a frame of two NALUs (an SEI, then an IDR slice), and an AAC      *)
(* frame, each behind its FLV tag header.                                  *)
EXTENDS RtmpPlay

(* AVCC framing of a list of NALUs: each behind its 4-byte length.        *)
AvccEncode(ns) == FlattenSeq([i \in 1..Len(ns) |-> <<0, 0, 0, Len(ns[i])>> \o ns[i]])

Packet(av, seqhdr, nalus, data) == [av |-> av, seqhdr |-> seqhdr, nalus |-> nalus, data |-> data]

MCMediaContent ==
    (0 :> Packet("metadata", FALSE, <<>>, <<2, 0, 10>>))
    @@ (1 :> Packet("video", TRUE, <<>>,
                    <<23, 0, 0, 0, 0>> \o <<1, 66, 0, 30, 255, 225, 0, 1, 103, 1, 0, 1, 104>>))
    @@ (2 :> Packet("video", FALSE, <<<<6, 5>>, <<101, 136>>>>,
                    <<39, 1, 0, 0, 0>> \o AvccEncode(<<<<6, 5>>, <<101, 136>>>>)))
    @@ (3 :> Packet("audio", FALSE, <<>>, <<175, 1, 33, 16>>))

MCMaxMedia == 3
MCMaxWrites == 0
MCMaxSplits == 0
MCSinkers == {1}
=============================================================================
