------------------------ MODULE MCRtmpClientSession ------------------------
(* Bounds for model checking the RTMP client session.                     *)
EXTENDS RtmpClientSession

MCMaxMedia == 2
MCMaxWrites == 1
MCMaxSplits == 1
=============================================================================
