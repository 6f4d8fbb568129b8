------------------------- MODULE RtmpClientSession -------------------------
(***************************************************************************)
(* The RTMP client session of src/src/net/rtmp/rtmp_client_session.cpp:   *)
(* the phase machine driven by the TCP callbacks OnConnect, OnRead and     *)
(* OnWrite, talking to an RTMP server over one TCP connection.             *)
(*                                                                         *)
(* The byte stream is abstracted to pieces: every server message reaches  *)
(* the client as one piece or as two (a first part that leaves the chunk  *)
(* stream incomplete, then the part that completes it), and one OnRead     *)
(* delivers any number of consecutive pieces, as TCP may segment them.     *)
(* OnRead runs HandleMessage to completion, as the single-threaded libuv   *)
(* loop does; the loop of ReceiveRespMessage is the RECURSIVE operator     *)
(* ReceiveRespMessage below.                                               *)
(*                                                                         *)
(* The server is the environment: a conformant RTMP peer that answers     *)
(* each client command, in order, with the messages usual servers send.   *)
(***************************************************************************)
EXTENDS Integers, Sequences, SequencesExt, FiniteSets

CONSTANTS
    MaxMedia,   \* media messages the server sends after "play"
    MaxWrites,  \* RtmpWrite calls the publishing caller makes
    MaxSplits   \* messages of one server burst that may arrive in two pieces

ASSUME MaxMedia \in Nat /\ MaxWrites \in Nat /\ MaxSplits \in Nat

VARIABLES
    phase,     \* client_phase_
    conn,      \* the TcpClient conn_: "idle", "connecting", "connected", "closed"
    reading,   \* an AsyncRead is armed (TryRead was called and not yet answered)
    publish,   \* req_.publish_flag_
    rbuf,      \* recv_buffer_: pieces received and not yet consumed
    wire,      \* pieces the server has sent that TCP has not yet delivered
    out,       \* what the client has sent, in order (C0C1, C2, commands, media)
    srvSeen,   \* how many entries of out the server has processed
    sent,      \* history: every message the server sent, in order
    handled,   \* history: every message the client's chunk reader completed
    reports,   \* history: the ctrl_cb_ / data_cb_ callbacks, in order
    writes     \* RtmpWrite calls made so far

vars == <<phase, conn, reading, publish, rbuf, wire, out, srvSeen, sent,
          handled, reports, writes>>

-----------------------------------------------------------------------------
(* Return codes. RTMP_NEED_READ_MORE is a positive code distinct from     *)
(* RTMP_OK in rtmp_pub.hpp, which is not part of the sources; Cont is the *)
(* model's marker for "fall through to the next phase block".             *)
RTMP_OK == 0
RTMP_NEED_READ_MORE == 1
RTMP_ERR == -1
Cont == 2

Phases == {"client_init_phase", "client_c0c1_phase", "client_s0s1s2_phase",
           "client_connect_phase", "client_connect_resp_phase",
           "client_create_stream_phase", "client_create_stream_resp_phase",
           "client_create_play_phase", "client_create_publish_phase",
           "client_create_playpublish_resp_phase", "client_media_handle_phase"}

(* Server messages. type is the chunk-stream class the client dispatches  *)
(* on: "hs" (the S0S1S2 handshake bytes), "ctrl" (type ids 1..6), "cmd"  *)
(* (AMF0 command, 20), "media" (8, 9, 18, 15).                            *)
Msg(t, n, i, e) == [type |-> t, name |-> n, idx |-> i, empty |-> e]
S0S1S2       == Msg("hs", "S0S1S2", 0, FALSE)
WinAckSize   == Msg("ctrl", "WindowAckSize", 0, FALSE)
PeerBandwidth == Msg("ctrl", "SetPeerBandwidth", 0, FALSE)
SetChunkSize == Msg("ctrl", "SetChunkSize", 0, FALSE)
StreamBegin  == Msg("ctrl", "UserControl", 0, FALSE)
ConnectResult == Msg("cmd", "_result(connect)", 0, FALSE)
BWDone       == Msg("cmd", "onBWDone", 0, FALSE)
CreateStreamResult == Msg("cmd", "_result(createStream)", 0, FALSE)
PlayStart    == Msg("cmd", "onStatus(Play.Start)", 0, FALSE)
PublishStart == Msg("cmd", "onStatus(Publish.Start)", 0, FALSE)
MetaData     == Msg("media", "onMetaData", 0, FALSE)
Media(i, e)  == Msg("media", "av", i, e)
NoMsg        == Msg("none", "none", 0, FALSE)

Messages == {S0S1S2, WinAckSize, PeerBandwidth, SetChunkSize, StreamBegin,
             ConnectResult, BWDone, CreateStreamResult, PlayStart,
             PublishStart, MetaData}
            \cup {Media(i, e) : i \in 1..MaxMedia, e \in BOOLEAN}

Piece(m, l) == [msg |-> m, last |-> l]
Pieces == {Piece(m, l) : m \in Messages, l \in BOOLEAN}

Report(cb, m) == [cb |-> cb, msg |-> m]

(* What a run of pieces carries: the messages its completing pieces end.  *)
Completed(ps) == [i \in 1..Len(SelectSeq(ps, LAMBDA p : p.last)) |->
                    SelectSeq(ps, LAMBDA p : p.last)[i].msg]

-----------------------------------------------------------------------------
(* RtmpSend(char*, int): the handshake send. It reports by the phase it   *)
(* finds: the C2 send happens in client_s0s1s2_phase and is reported as   *)
(* a receipt of S0S1S2.                                                   *)
RtmpSend(s, data) ==
    [s EXCEPT !.out = Append(@, data),
              !.rep = CASE s.ph = "client_c0c1_phase" ->
                               Append(@, Report("OnRtmpHandShakeSendC0C1", NoMsg))
                        [] s.ph = "client_s0s1s2_phase" ->
                               Append(@, Report("OnRtmpHandShakeRecvS0S1S2", NoMsg))
                        [] OTHER -> @]

(* A command written by WriteDataByChunkStream on csid 3, after the       *)
(* ctrl_cb_ notification its sender makes.                                *)
SendCommand(s, cmd, cb) ==
    [s EXCEPT !.out = Append(@, cmd), !.rep = Append(@, Report(cb, NoMsg))]

RtmpConnect(s) == SendCommand(s, "connect", "OnRtmpConnectSend")
RtmpCreatestream(s) == SendCommand(s, "createStream", "OnRtmpCreateStreamSend")
RtmpPlay(s) == SendCommand(s, "play", "OnRtmpPlayPublishSend")
RtmpPublish(s) == SendCommand(s, "publish", "OnRtmpPlayPublishSend")

(* reportCtrlMsg: one callback per control type it knows; user control    *)
(* (type 4) is only logged.                                               *)
reportCtrlMsg(s, m) ==
    LET cb == CASE m.name = "SetChunkSize" -> "OnRtmpChunkSize"
                [] m.name = "WindowAckSize" -> "OnRtmpWindowSize"
                [] m.name = "SetPeerBandwidth" -> "OnRtmpBandWidth"
                [] OTHER -> "none"
    IN IF cb = "none" THEN s ELSE [s EXCEPT !.rep = Append(@, Report(cb, m))]

(* The report*RespAmf functions, always called with ret 0: the string,    *)
(* the numbers (transaction and stream id) and the objects flattened by   *)
(* getItemMap go to the control callback; the message stands for them.    *)
reportConnectRespAmf(s, m) == [s EXCEPT !.rep = Append(@, Report("OnRtmpConnectRecv", m))]
reportCreateStreamRespAmf(s, m) == [s EXCEPT !.rep = Append(@, Report("OnRtmpCreateStreamRecv", m))]
reportPlayPublishRespAmf(s, m) == [s EXCEPT !.rep = Append(@, Report("OnRtmpPlayPublishRecv", m))]

(* An AMF0 command is reported as the response of the phase the session   *)
(* is in when it is read, whatever command it is; in the play/publish    *)
(* response phase it also moves the session to media handling.          *)
HandleCommand(s, m) ==
    CASE s.ph = "client_connect_resp_phase" -> reportConnectRespAmf(s, m)
      [] s.ph = "client_create_stream_resp_phase" -> reportCreateStreamRespAmf(s, m)
      [] s.ph = "client_create_playpublish_resp_phase" ->
            [reportPlayPublishRespAmf(s, m) EXCEPT !.ph = "client_media_handle_phase"]
      [] OTHER -> s

(* After a message is handled: read on while recv_buffer_ holds data,     *)
(* else leave the loop with the code the branch leaves in ret.            *)
(* F applied to the value of e, e evaluated once.                        *)
Then(e, F(_)) == CHOOSE r \in {F(v) : v \in {e}} : TRUE

RECURSIVE ReceiveRespMessage(_)
(* Mutant: leave the loop after a message whether or not recv_buffer_     *)
(* still holds data.                                                      *)
NextOrReturnAlwaysBreak(s, code) == [s EXCEPT !.ret = code]

NextOrReturn(s, code) ==
    IF s.buf # <<>> THEN Then(s, ReceiveRespMessage) ELSE [s EXCEPT !.ret = code]

(* ReceiveRespMessage: ReadChunkStream consumes one piece; an incomplete  *)
(* chunk stream reads on or asks for more; a complete message is          *)
(* dispatched on its type id.                                             *)
ReceiveRespMessage(s) ==
    IF s.buf = <<>> THEN [s EXCEPT !.ret = RTMP_NEED_READ_MORE]
    ELSE
      LET p == Head(s.buf)
          t == [s EXCEPT !.buf = Tail(@)]
          u == [t EXCEPT !.hd = Append(@, p.msg)]
      IN CASE ~p.last ->
                IF t.buf # <<>> THEN Then(t, ReceiveRespMessage)
                ELSE [t EXCEPT !.ret = RTMP_NEED_READ_MORE]
           [] p.msg.type = "ctrl" ->
                Then(reportCtrlMsg(u, p.msg), LAMBDA v : NextOrReturn(v, RTMP_OK))
           [] p.msg.type = "cmd" ->
                Then(HandleCommand(u, p.msg), LAMBDA v : NextOrReturn(v, RTMP_OK))
           [] p.msg.type = "media" /\ p.msg.empty ->
                [u EXCEPT !.ret = RTMP_ERR]
           [] OTHER ->
                Then([u EXCEPT !.rep = Append(@, Report("OnMessage", p.msg))],
                     LAMBDA v : NextOrReturn(v, RTMP_NEED_READ_MORE))

HasS0S1S2(buf) == \E i \in 1..Len(buf) : buf[i].msg = S0S1S2 /\ buf[i].last

(* Mutant: the handshake block ends with "return ret" (0) instead of      *)
(* RTMP_NEED_READ_MORE.                                                   *)
HandshakeBlockReturnOk(s) ==
    IF ~HasS0S1S2(s.buf) THEN [s EXCEPT !.ret = RTMP_NEED_READ_MORE]
    ELSE LET c == RtmpConnect([RtmpSend([s EXCEPT !.ph = "client_s0s1s2_phase"], "C2")
                               EXCEPT !.ph = "client_connect_phase"])
         IN [c EXCEPT !.ph = "client_connect_resp_phase", !.buf = <<>>, !.ret = RTMP_OK]

(* The handshake block of HandleMessage: wait for all of S0S1S2, report   *)
(* it, send C2 and connect, and drop whatever else recv_buffer_ holds.    *)
HandshakeBlock(s) ==
    IF ~HasS0S1S2(s.buf) THEN [s EXCEPT !.ret = RTMP_NEED_READ_MORE]
    ELSE
      LET a == [s EXCEPT !.rep = Append(@, Report("OnRtmpHandShakeRecvS0S1S2", S0S1S2)),
                         !.ph = "client_s0s1s2_phase"]
          b == RtmpSend(a, "C2")
          c == RtmpConnect([b EXCEPT !.ph = "client_connect_phase"])
      IN [c EXCEPT !.ph = "client_connect_resp_phase", !.buf = <<>>,
                   !.ret = RTMP_NEED_READ_MORE]

(* A response block: read responses; on RTMP_OK move to phase nxt, and   *)
(* drop recv_buffer_ if the block calls Reset (all but connect's).        *)
RespBlock(s, from, nxt, reset) ==
    IF s.ret # Cont \/ s.ph # from THEN s
    ELSE Then(ReceiveRespMessage(s),
              LAMBDA r : IF r.ret = RTMP_OK
                         THEN [r EXCEPT !.ph = nxt, !.buf = IF reset THEN <<>> ELSE @,
                                        !.ret = Cont]
                         ELSE r)

(* The create-stream block: send createStream, drop recv_buffer_, wait   *)
(* for its answer.                                                        *)
CreateStreamBlock(s) ==
    IF s.ret # Cont \/ s.ph # "client_create_stream_phase" THEN s
    ELSE [RtmpCreatestream(s) EXCEPT !.buf = <<>>,
                                     !.ph = "client_create_stream_resp_phase",
                                     !.ret = RTMP_NEED_READ_MORE]

(* Mutant: play is sent whatever req_.publish_flag_ says.                *)
PlayPublishBlockAlwaysPlay(s) ==
    IF s.ret # Cont
       \/ s.ph \notin {"client_create_play_phase", "client_create_publish_phase"}
    THEN s
    ELSE [RtmpPlay(s) EXCEPT !.buf = <<>>, !.ph = "client_create_playpublish_resp_phase",
                             !.ret = RTMP_NEED_READ_MORE]

PlayPublishBlock(s) ==
    IF s.ret # Cont
       \/ s.ph \notin {"client_create_play_phase", "client_create_publish_phase"}
    THEN s
    ELSE LET r == IF s.ph = "client_create_play_phase" THEN RtmpPlay(s)
                  ELSE RtmpPublish(s)
         IN [r EXCEPT !.buf = <<>>, !.ph = "client_create_playpublish_resp_phase",
                      !.ret = RTMP_NEED_READ_MORE]

MediaBlock(s) ==
    IF s.ret # Cont \/ s.ph # "client_media_handle_phase" THEN s
    ELSE Then(ReceiveRespMessage(s),
              LAMBDA r : IF r.ret < RTMP_OK THEN r
                         ELSE [r EXCEPT !.ret = RTMP_NEED_READ_MORE])

(* HandleMessage: the phase blocks in source order, each entered only if  *)
(* the one before fell through.                                           *)
HandleMessage(s) ==
    IF s.ph = "client_c0c1_phase" THEN HandshakeBlock(s)
    ELSE
      Then(Then(Then(Then(Then(Then(
        RespBlock([s EXCEPT !.ret = Cont], "client_connect_resp_phase",
                  "client_create_stream_phase", FALSE),
        LAMBDA b1 : CreateStreamBlock(b1)),
        LAMBDA b2 : RespBlock(b2, "client_create_stream_resp_phase",
                              IF publish THEN "client_create_publish_phase"
                              ELSE "client_create_play_phase", TRUE)),
        LAMBDA b3 : PlayPublishBlock(b3)),
        LAMBDA b4 : RespBlock(b4, "client_create_playpublish_resp_phase",
                              "client_media_handle_phase", TRUE)),
        LAMBDA b5 : MediaBlock(b5)),
        LAMBDA b6 : IF b6.ret = Cont THEN [b6 EXCEPT !.ret = RTMP_OK] ELSE b6)

-----------------------------------------------------------------------------
Init ==
    /\ phase = "client_init_phase"
    /\ conn = "idle"
    /\ reading = FALSE
    /\ publish = FALSE
    /\ rbuf = <<>>
    /\ wire = <<>>
    /\ out = <<>>
    /\ srvSeen = 0
    /\ sent = <<>>
    /\ handled = <<>>
    /\ reports = <<>>
    /\ writes = 0

(* Start: take the request and connect.                                   *)
Start(isPublish) ==
    /\ conn = "idle"
    /\ publish' = isPublish
    /\ conn' = "connecting"
    /\ UNCHANGED <<phase, reading, rbuf, wire, out, srvSeen, sent, handled,
                   reports, writes>>

(* OnConnect: on success reset the buffer, send C0+C1 and arm a read; on  *)
(* failure close the connection.                                          *)
OnConnect(ok) ==
    /\ conn = "connecting"
    /\ IF ok
       THEN LET s == RtmpSend([ph |-> "client_c0c1_phase", buf |-> <<>>,
                               out |-> out, rep |-> reports, hd |-> handled,
                               ret |-> RTMP_OK], "C0C1")
            IN /\ conn' = "connected"
               /\ phase' = s.ph
               /\ rbuf' = s.buf
               /\ out' = s.out
               /\ reports' = s.rep
               /\ reading' = TRUE
       ELSE /\ conn' = "closed"
            /\ UNCHANGED <<phase, rbuf, out, reports, reading>>
    /\ UNCHANGED <<publish, wire, srvSeen, sent, handled, writes>>

(* OnRead: TCP hands over the next k pieces; HandleMessage runs; a        *)
(* negative code closes and reports, RTMP_NEED_READ_MORE arms the next     *)
(* read, anything else is only logged.                                    *)
OnRead(k) ==
    /\ reading
    /\ conn = "connected"
    /\ k \in 1..Len(wire)
    /\ \E s \in {HandleMessage([ph |-> phase, buf |-> rbuf \o SubSeq(wire, 1, k),
                                  out |-> out, rep |-> reports, hd |-> handled,
                                  ret |-> RTMP_OK])} :
          /\ wire' = SubSeq(wire, k + 1, Len(wire))
          /\ phase' = s.ph
          /\ rbuf' = s.buf
          /\ out' = s.out
          /\ handled' = s.hd
          /\ CASE s.ret < 0 ->
                    /\ conn' = "closed"
                    /\ reading' = FALSE
                    /\ reports' = Append(s.rep, Report("OnClose", NoMsg))
               [] s.ret = RTMP_NEED_READ_MORE ->
                    /\ reading' = TRUE
                    /\ reports' = s.rep
                    /\ UNCHANGED conn
               [] OTHER ->
                    /\ reading' = FALSE
                    /\ reports' = s.rep
                    /\ UNCHANGED conn
    /\ UNCHANGED <<publish, srvSeen, sent, writes>>

(* Mutant: the error path re-arms the read as the success path does.      *)
OnReadErrorRearm ==
    /\ reading
    /\ conn = "connected"
    /\ reports' = Append(reports, Report("OnClose", NoMsg))
    /\ UNCHANGED <<phase, conn, reading, publish, rbuf, wire, out, srvSeen, sent,
                   handled, writes>>

(* OnRead with an error code (the peer closed or reset): report the close *)
(* and stop reading; the connection itself is not closed.                 *)
OnReadError ==
    /\ reading
    /\ conn = "connected"
    /\ reading' = FALSE
    /\ reports' = Append(reports, Report("OnClose", NoMsg))
    /\ UNCHANGED <<phase, conn, publish, rbuf, wire, out, srvSeen, sent,
                   handled, writes>>

(* OnWrite with an error code: close the connection.                      *)
OnWriteError ==
    /\ conn = "connected"
    /\ out # <<>>
    /\ conn' = "closed"
    /\ reading' = FALSE
    /\ UNCHANGED <<phase, publish, rbuf, wire, out, srvSeen, sent, handled,
                   reports, writes>>

(* RtmpWrite: the publishing caller hands a packet over; video and audio  *)
(* go out on csid 6 and 4, metadata is dropped, other types are refused,  *)
(* and nothing is sent while the connection is not up.                    *)
(* Mutant: every packet handed over is written, whatever its type.        *)
RtmpWriteAnyType(avType) ==
    /\ publish
    /\ writes < MaxWrites
    /\ writes' = writes + 1
    /\ out' = IF conn = "connected" THEN Append(out, avType) ELSE out
    /\ UNCHANGED <<phase, conn, reading, publish, rbuf, wire, srvSeen, sent,
                   handled, reports>>

RtmpWrite(avType) ==
    /\ publish
    /\ writes < MaxWrites
    /\ writes' = writes + 1
    /\ out' = IF conn = "connected" /\ avType \in {"video", "audio"}
              THEN Append(out, "media") ELSE out
    /\ UNCHANGED <<phase, conn, reading, publish, rbuf, wire, srvSeen, sent,
                   handled, reports>>

-----------------------------------------------------------------------------
(* The server: answers the next thing the client sent. Each answer is a   *)
(* burst of messages; up to MaxSplits of them reach the client in two     *)
(* pieces.                                                                 *)
MediaBurst(emptyFirst) ==
    [i \in 1..MaxMedia |-> Media(i, i = 1 /\ emptyFirst)]

Answer(c, bw, emptyFirst) ==
    CASE c = "C0C1" -> <<S0S1S2>>
      [] c = "connect" -> <<WinAckSize, PeerBandwidth, SetChunkSize, ConnectResult>>
                           \o (IF bw THEN <<BWDone>> ELSE <<>>)
      [] c = "createStream" -> <<CreateStreamResult>>
      [] c = "play" -> <<StreamBegin, PlayStart, MetaData>> \o MediaBurst(emptyFirst)
      [] c = "publish" -> <<PublishStart>>
      [] OTHER -> <<>>

ToPieces(b, split) ==
    FlattenSeq([i \in 1..Len(b) |->
                  IF i \in split THEN <<Piece(b[i], FALSE), Piece(b[i], TRUE)>>
                  ELSE <<Piece(b[i], TRUE)>>])

ServerAnswer ==
    /\ conn = "connected"
    /\ srvSeen < Len(out)
    /\ \E bw \in BOOLEAN, emptyFirst \in BOOLEAN :
         LET b == Answer(out[srvSeen + 1], bw, emptyFirst)
         IN \E split \in {x \in SUBSET (1..Len(b)) : Cardinality(x) <= MaxSplits} :
              /\ wire' = wire \o ToPieces(b, split)
              /\ sent' = sent \o b
    /\ srvSeen' = srvSeen + 1
    /\ UNCHANGED <<phase, conn, reading, publish, rbuf, out, handled, reports,
                   writes>>

Next ==
    \/ \E p \in BOOLEAN : Start(p)
    \/ \E ok \in BOOLEAN : OnConnect(ok)
    \/ \E k \in 1..Len(wire) : OnRead(k)
    \/ OnReadError
    \/ OnWriteError
    \/ \E av \in {"video", "audio", "metadata", "other"} : RtmpWrite(av)
    \/ ServerAnswer

(* The libuv loop delivers every connect result and every readable byte,  *)
(* and the server answers every request; transport errors and the         *)
(* publishing caller are not assumed to happen.                           *)
Fairness ==
    /\ WF_vars(\E p \in BOOLEAN : Start(p))
    /\ WF_vars(\E ok \in BOOLEAN : OnConnect(ok))
    /\ WF_vars(\E k \in 1..Len(wire) : OnRead(k))
    /\ WF_vars(ServerAnswer)

Spec == Init /\ [][Next]_vars /\ Fairness

-----------------------------------------------------------------------------
TypeOK ==
    /\ phase \in Phases
    /\ conn \in {"idle", "connecting", "connected", "closed"}
    /\ reading \in BOOLEAN
    /\ publish \in BOOLEAN
    /\ rbuf \in Seq(Pieces)
    /\ wire \in Seq(Pieces)
    /\ out \in Seq({"C0C1", "C2", "connect", "createStream", "play", "publish", "media"})
    /\ srvSeen \in 0..Len(out)
    /\ sent \in Seq(Messages)
    /\ handled \in Seq(Messages)
    /\ reports \in Seq([cb : STRING, msg : Messages \cup {NoMsg}])
    /\ writes \in 0..MaxWrites

Failed == conn = "closed" \/ \E i \in 1..Len(reports) : reports[i].cb = "OnClose"

(* Every message the server sent after the handshake is read by the       *)
(* client exactly once and in order: what the chunk reader completed,     *)
(* then what recv_buffer_ still holds, then what is in flight, is the     *)
(* server's output. It fails if a recv_buffer_.Reset() in HandleMessage   *)
(* drops a message that was already received.                             *)
HandledExactlyOnce ==
    ~Failed =>
        handled \o Completed(SelectSeq(rbuf, LAMBDA p : p.msg # S0S1S2))
                \o Completed(SelectSeq(wire, LAMBDA p : p.msg # S0S1S2))
        = SelectSeq(sent, LAMBDA m : m # S0S1S2)

(* Once started, the session reaches the media phase (IsReady) unless the *)
(* connection fails: no read is left unarmed while the handshake or the   *)
(* command dialogue still waits for data.                                 *)
EventuallyReady ==
    <>(phase = "client_media_handle_phase" \/ Failed)

(* Section 4.E of the specification: each step of the dialogue is taken   *)
(* on the response to the previous command. createStream is sent only     *)
(* after connect's _result was read, play/publish only after              *)
(* createStream's _result.                                                *)
CommandAwaitsResult ==
    \A i \in 1..Len(out) :
        /\ out[i] = "createStream" =>
              \E j \in 1..Len(handled) : handled[j] = ConnectResult
        /\ out[i] \in {"play", "publish"} =>
              \E j \in 1..Len(handled) : handled[j] = CreateStreamResult

(* Section 4.E: the control callback surface reports each response with   *)
(* the values of that response (connect's result, createStream's stream  *)
(* id, play or publish's status). Together with CommandAwaitsResult: the  *)
(* dialogue moves on only on the right response, and every response       *)
(* callback carries the response to the command it is named after, not   *)
(* whatever AMF0 command was read while its phase was current.           *)
ResponsesMatchCommands ==
    /\ CommandAwaitsResult
    /\ \A i \in 1..Len(reports) :
          /\ reports[i].cb = "OnRtmpConnectRecv" => reports[i].msg = ConnectResult
          /\ reports[i].cb = "OnRtmpCreateStreamRecv" => reports[i].msg = CreateStreamResult
          /\ reports[i].cb = "OnRtmpPlayPublishRecv" => reports[i].msg \in {PlayStart, PublishStart}

(* Section 7: a fatal error both closes the session and is reported      *)
(* through on_close. The connection is closed exactly when the control    *)
(* callback has been told: no close goes unreported (OnConnect, OnWrite)  *)
(* and no reported session keeps its connection open (OnRead's error).    *)
CloseReported ==
    (conn = "closed") <=> \E i \in 1..Len(reports) : reports[i].cb = "OnClose"

-----------------------------------------------------------------------------
(* Refinement of the dialogue of section 4.E (module RtmpDialogue): the   *)
(* state of section 4.E is read off client_phase_, and is closed once    *)
(* conn_ is; the role is req_.publish_flag_.                              *)
DialogueState ==
    IF conn = "closed" THEN "closed"
    ELSE CASE phase = "client_init_phase" -> "init"
           [] phase \in {"client_c0c1_phase", "client_s0s1s2_phase"} -> "c0c1_sent"
           [] phase \in {"client_connect_phase", "client_connect_resp_phase"} -> "connect_sent"
           [] phase \in {"client_create_stream_phase", "client_create_stream_resp_phase"}
                 -> "create_stream_sent"
           [] phase = "client_media_handle_phase" -> "stream_ready"
           [] OTHER -> "playpublish_sent"

Dialogue == INSTANCE RtmpDialogue
              WITH state <- DialogueState,
                   role <- IF publish THEN "publish" ELSE "play",
                   out <- out

(* The session implements the dialogue of section 4.E: over every         *)
(* interleaving of reads, splits and transport errors, what it has sent   *)
(* is C0C1, then C2 and connect, createStream, and play or publish as its *)
(* role says, each once and on entering the phase it belongs to, the      *)
(* phases never go back, nothing is sent after conn_ is closed, and media *)
(* goes out only from a publishing client whose connection is up.         *)
ImplementsDialogue == Dialogue!Spec
=============================================================================
