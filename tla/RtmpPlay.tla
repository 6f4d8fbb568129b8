------------------------------ MODULE RtmpPlay ------------------------------
(***************************************************************************)
(* The RTMP play node of src/src/net/rtmp/rtmp_play.cpp composed with the  *)
(* client session it owns (module RtmpClientSession).                     *)
(*                                                                         *)
(* Two threads share the node: the caller's thread, which wires sinkers,   *)
(* calls StartNetwork and destroys the node (~RtmpPlay calls Release),     *)
(* and, when StartNetwork gets no loop, the worker thread running OnWork.  *)
(* running_, loop_, thread_ptr_ and client_session_ are plain members      *)
(* read and written by both threads; each read or write is one step.      *)
(*                                                                         *)
(* The session's callbacks run inside uv_run on the thread that runs the   *)
(* loop. libuv is not part of the sources; the model takes from its        *)
(* documented behaviour that uv_run(UV_RUN_DEFAULT) returns only when the  *)
(* loop has no active handle or request (a pending connect, a started      *)
(* read), and that uv_loop_close fails with UV_EBUSY while a handle is     *)
(* open. OnMessage runs inside the session's OnRead step, as the session   *)
(* calls data_cb_ synchronously.                                           *)
(***************************************************************************)
EXTENDS Integers, Sequences, SequencesExt, FiniteSets, NaluFraming

CONSTANTS
    MaxMedia, MaxWrites, MaxSplits,  \* the session's bounds
    Sinkers,       \* sinker names a caller may wire (numbers: std::map order)
    MediaContent   \* [0..MaxMedia -> packet]: 0 the metadata, i the i-th media

VARIABLES
    phase, conn, reading, publish, rbuf, wire, out, srvSeen, sent, handled,
    reports, writes,
    mode,       \* "none" before StartNetwork, "thread" (own loop), "caller"
    mpc,        \* the caller's thread
    wpc,        \* the worker thread (OnWork); "none" when there is none
    running,    \* running_
    threadSet,  \* thread_ptr_ != nullptr
    loopSet,    \* loop_ != nullptr
    loopClosed, \* uv_loop_close succeeded on loop_
    sessionSet, \* client_session_ != nullptr
    sinkers,    \* the names in sinkers_
    delivered,  \* history: what each sinker's SourceData received, in order
    reporterSet, \* report_ != nullptr (SetReporter was called)
    rptSet,     \* rpt_ts_ != -1: OnMessage has reported statics once
    events      \* history: the types of the report_->OnReport calls, in order

sessionVars == <<phase, conn, reading, publish, rbuf, wire, out, srvSeen,
                 sent, handled, reports, writes>>
playVars == <<mode, mpc, wpc, running, threadSet, loopSet, loopClosed,
              sessionSet, sinkers, delivered>>
reportVars == <<reporterSet, rptSet, events>>
vars == <<sessionVars, playVars, reportVars>>

S == INSTANCE RtmpClientSession

-----------------------------------------------------------------------------
(* The loop keeps uv_run going while the session connects or reads.       *)
Alive == sessionSet /\ (conn = "connecting" \/ (conn = "connected" /\ reading))

(* uv_loop_close finds an open handle: the session's TCP connection.      *)
HasHandle == sessionSet /\ conn \in {"connecting", "connected"}

(* The session's callbacks can run: the worker is inside uv_run, or the   *)
(* caller's loop drives a session that was not closed.                     *)
LoopRunning == \/ mode = "thread" /\ wpc = "run"
               \/ mode = "caller" /\ sessionSet

(* RtmpClientSession::Close: conn_.Close().                                *)
SessionClose ==
    /\ conn' = "closed"
    /\ reading' = FALSE
    /\ UNCHANGED <<phase, publish, rbuf, wire, out, srvSeen, sent, handled,
                   reports, writes>>

(* Init(): a new session on loop_, started to play (publish false).       *)
SessionStart == S!Start(FALSE)

(* OnMessage: the packets every sinker gets for one media message. Audio  *)
(* loses its 2-byte tag header, video its 5-byte one. A sequence header   *)
(* becomes an SPS and a PPS packet; a frame is split into Annex-B NALUs   *)
(* and, as the loop returns after handing over the first NALU, only that  *)
(* one goes out. Metadata is forwarded as it is.                          *)
OnMessage(pkt) ==
    CASE pkt.av = "audio" -> <<SubSeq(pkt.data, 3, Len(pkt.data))>>
      [] pkt.av = "video" /\ pkt.seqhdr ->
           LET r == GetSpsPpsFromExtraData(SubSeq(pkt.data, 6, Len(pkt.data)))
           IN IF r.ret < 0 \/ r.sps = <<>> \/ r.pps = <<>> THEN <<>>
              ELSE <<H264_START_CODE \o r.sps, H264_START_CODE \o r.pps>>
      [] pkt.av = "video" ->
           LET r == Avcc2Nalus(SubSeq(pkt.data, 6, Len(pkt.data)))
           IN IF ~r.ok \/ r.nalus = <<>> THEN <<>> ELSE <<r.nalus[1]>>
      [] OTHER -> <<pkt.data>>

PacketOf(m) == IF m.name = "onMetaData" THEN MediaContent[0] ELSE MediaContent[m.idx]

(* The sinkers_ loop: every sinker wired now gets the packets in order.   *)
FanOut(del, pkts) == [s \in Sinkers |-> IF s \in sinkers THEN del[s] \o pkts ELSE del[s]]

(* The data_cb_->OnMessage calls among the callbacks of one session step. *)
Deliver(newReports) ==
    FoldLeft(LAMBDA del, r : IF r.cb = "OnMessage" THEN FanOut(del, OnMessage(PacketOf(r.msg)))
                             ELSE del,
             delivered, newReports)

(* The report_->OnReport types of the control callbacks RtmpPlay          *)
(* implements, by the session callback that calls them. Each callback     *)
(* reports under one type, with its arguments as JSON or "error" for a    *)
(* negative code; the value is formatting and is left out.                *)
CtrlEventType ==
    [OnRtmpHandShakeSendC0C1 |-> "SendC0C1", OnRtmpHandShakeRecvS0S1S2 |-> "RecvS0S1S2",
     OnRtmpConnectSend |-> "RtmpConnectSend", OnRtmpConnectRecv |-> "RtmpConnectRecv",
     OnRtmpChunkSize |-> "ChunkSize", OnRtmpWindowSize |-> "WindowSize",
     OnRtmpBandWidth |-> "BandWidth", OnRtmpCtrlAck |-> "CtrlAck",
     OnRtmpCreateStreamSend |-> "CreateStreamSend",
     OnRtmpCreateStreamRecv |-> "CreateStreamRecv",
     OnRtmpPlayPublishSend |-> "PlayPublishSend",
     OnRtmpPlayPublishRecv |-> "PlayPublishRecv", OnClose |-> "close"]

ReportStatics == <<"statics">>
ReportMetaData == <<"MetaData">>

(* OnMessage's reports for one message: statics when due, then MetaData   *)
(* for a metadata message.                                                *)
MessageEvents(pkt, due) ==
    (IF due THEN ReportStatics ELSE <<>>)
      \o (IF pkt.av = "metadata" THEN ReportMetaData ELSE <<>>)

(* The reports of the callbacks one session step makes, in order; due is  *)
(* the set of its OnMessage calls that find statics due.                  *)
CallbackEvents(newReports, due) ==
    FlattenSeq([i \in 1..Len(newReports) |->
                  IF newReports[i].cb = "OnMessage"
                  THEN MessageEvents(PacketOf(newReports[i].msg), i \in due)
                  ELSE <<CtrlEventType[newReports[i].cb]>>])

(* ReportEvent: only a node that has a reporter reports.                  *)
ReportEvent(evs) == IF reporterSet THEN events \o evs ELSE events

(* The reporter side of a loop step. rpt_ts_ starts at -1, so the first   *)
(* OnMessage finds statics due; whether a later one does depends on the   *)
(* clock (more than 2000 ms since the last), so it is a free choice.      *)
ReportCallbacks ==
    LET new == SubSeq(reports', Len(reports) + 1, Len(reports'))
        msgs == {i \in 1..Len(new) : new[i].cb = "OnMessage"}
    IN \E due \in SUBSET msgs :
          /\ (~rptSet /\ msgs # {}) => Min(msgs) \in due
          /\ rptSet' = (rptSet \/ msgs # {})
          /\ events' = ReportEvent(CallbackEvents(new, due))
          /\ UNCHANGED reporterSet

-----------------------------------------------------------------------------
Init ==
    /\ S!Init
    /\ mode = "none"
    /\ mpc = "idle"
    /\ wpc = "none"
    /\ running = FALSE
    /\ threadSet = FALSE
    /\ loopSet = FALSE
    /\ loopClosed = FALSE
    /\ sessionSet = FALSE
    /\ sinkers = {}
    /\ delivered = [s \in Sinkers |-> <<>>]
    /\ reporterSet = FALSE
    /\ rptSet = FALSE
    /\ events = <<>>

(* SetReporter: the caller hands the node its reporter before starting it. *)
SetReporter ==
    /\ mpc = "idle"
    /\ ~reporterSet
    /\ reporterSet' = TRUE
    /\ UNCHANGED <<sessionVars, playVars, rptSet, events>>

(* AddSinker / RemoveSinker: sinkers_ keyed by name; the caller wires the *)
(* node before it starts it.                                               *)
AddSinker(s) ==
    /\ mpc = "idle"
    /\ s \notin sinkers
    /\ sinkers' = sinkers \cup {s}
    /\ UNCHANGED <<sessionVars, mode, mpc, wpc, running, threadSet, loopSet,
                   loopClosed, sessionSet, delivered>>
    /\ UNCHANGED reportVars

RemoveSinker(s) ==
    /\ mpc = "idle"
    /\ s \in sinkers
    /\ sinkers' = sinkers \ {s}
    /\ UNCHANGED <<sessionVars, mode, mpc, wpc, running, threadSet, loopSet,
                   loopClosed, sessionSet, delivered>>
    /\ UNCHANGED reportVars

(* StartNetwork without a loop: set running_ and start the worker.        *)
StartNetworkOwnThread ==
    /\ mpc = "idle"
    /\ mode' = "thread"
    /\ running' = TRUE
    /\ threadSet' = TRUE
    /\ wpc' = "alloc"
    /\ mpc' = "started"
    /\ UNCHANGED <<sessionVars, loopSet, loopClosed, sessionSet, sinkers, delivered>>
    /\ UNCHANGED reportVars

(* StartNetwork with the caller's loop: keep it and run Init() here.      *)
StartNetworkCallerLoop ==
    /\ mpc = "idle"
    /\ mode' = "caller"
    /\ loopSet' = TRUE
    /\ sessionSet' = TRUE
    /\ SessionStart
    /\ mpc' = "started"
    /\ UNCHANGED <<wpc, running, threadSet, loopClosed, sinkers, delivered>>
    /\ UNCHANGED reportVars

(* ~RtmpPlay: the caller destroys the node, which calls Release.          *)
Destroy ==
    /\ mpc \in {"idle", "started"}
    /\ mpc' = "rel_check"
    /\ UNCHANGED <<sessionVars, mode, wpc, running, threadSet, loopSet,
                   loopClosed, sessionSet, sinkers, delivered>>
    /\ UNCHANGED reportVars

(* Release: the test of running_, thread_ptr_ and loop_.                  *)
ReleaseCheck ==
    /\ mpc = "rel_check"
    /\ mpc' = IF running /\ threadSet /\ loopSet THEN "rel_stop" ELSE "rel_else"
    /\ UNCHANGED <<sessionVars, mode, wpc, running, threadSet, loopSet,
                   loopClosed, sessionSet, sinkers, delivered>>
    /\ UNCHANGED reportVars

(* A stop that never clears running_.                                     *)
ReleaseStopNoClear ==
    /\ mpc = "rel_stop"
    /\ mpc' = "rel_close"
    /\ UNCHANGED <<sessionVars, mode, wpc, running, threadSet, loopSet, loopClosed,
                   sessionSet, sinkers, delivered>>
    /\ UNCHANGED reportVars

ReleaseStop ==
    /\ mpc = "rel_stop"
    /\ running' = FALSE
    /\ mpc' = "rel_close"
    /\ UNCHANGED <<sessionVars, mode, wpc, threadSet, loopSet, loopClosed,
                   sessionSet, sinkers, delivered>>
    /\ UNCHANGED reportVars

(* uv_loop_close(loop_) from the caller's thread: UV_EBUSY while the      *)
(* session's connection is open, otherwise the loop is closed.            *)
ReleaseLoopClose ==
    /\ mpc = "rel_close"
    /\ loopClosed' = ~HasHandle
    /\ mpc' = "rel_join"
    /\ UNCHANGED <<sessionVars, mode, wpc, running, threadSet, loopSet,
                   sessionSet, sinkers, delivered>>
    /\ UNCHANGED reportVars

(* thread_ptr_->join() returns once OnWork has returned.                  *)
ReleaseJoin ==
    /\ mpc = "rel_join"
    /\ wpc = "done"
    /\ threadSet' = FALSE
    /\ loopSet' = FALSE
    /\ mpc' = "released"
    /\ UNCHANGED <<sessionVars, mode, wpc, running, loopClosed, sessionSet,
                   sinkers, delivered>>
    /\ UNCHANGED reportVars

(* After Release, ~RtmpPlay destroys its members. thread_ptr_ holds the   *)
(* only reference to the std::thread; if the else branch left it set, the *)
(* thread was never joined, and std::thread's destructor calls             *)
(* std::terminate, which ends every thread of the process.                 *)
AfterRelease == IF threadSet THEN "terminated" ELSE "released"

(* The else branch of Release: close the session if there is one; then   *)
(* the destructor ends.                                                   *)
ReleaseElse ==
    /\ mpc = "rel_else"
    /\ IF sessionSet THEN SessionClose ELSE UNCHANGED sessionVars
    /\ sessionSet' = FALSE
    /\ mpc' = AfterRelease
    /\ UNCHANGED <<mode, wpc, running, threadSet, loopSet, loopClosed, sinkers,
                   delivered>>
    /\ UNCHANGED reportVars

-----------------------------------------------------------------------------
(* OnWork, step by step.                                                  *)
WorkerAlloc ==
    /\ wpc = "alloc"
    /\ loopSet' = TRUE
    /\ wpc' = "init"
    /\ UNCHANGED <<sessionVars, mode, mpc, running, threadSet, loopClosed,
                   sessionSet, sinkers, delivered>>
    /\ UNCHANGED reportVars

(* An Init() that creates the session but never starts it.               *)
WorkerInitNoStart ==
    /\ wpc = "init"
    /\ sessionSet' = TRUE
    /\ wpc' = "check"
    /\ UNCHANGED <<sessionVars, mode, mpc, running, threadSet, loopSet, loopClosed,
                   sinkers, delivered>>
    /\ UNCHANGED reportVars

WorkerInit ==
    /\ wpc = "init"
    /\ sessionSet' = TRUE
    /\ SessionStart
    /\ wpc' = "check"
    /\ UNCHANGED <<mode, mpc, running, threadSet, loopSet, loopClosed, sinkers,
                   delivered>>
    /\ UNCHANGED reportVars

(* while (running_)                                                        *)
WorkerCheck ==
    /\ wpc = "check"
    /\ wpc' = IF running THEN "run" ELSE "exit"
    /\ UNCHANGED <<sessionVars, mode, mpc, running, threadSet, loopSet,
                   loopClosed, sessionSet, sinkers, delivered>>
    /\ UNCHANGED reportVars

(* uv_run returns when nothing keeps the loop alive.                      *)
WorkerRunReturns ==
    /\ wpc = "run"
    /\ ~Alive
    /\ wpc' = "check"
    /\ UNCHANGED <<sessionVars, mode, mpc, running, threadSet, loopSet,
                   loopClosed, sessionSet, sinkers, delivered>>
    /\ UNCHANGED reportVars

(* After the loop: close the session and forget it.                       *)
WorkerExit ==
    /\ wpc = "exit"
    /\ IF sessionSet THEN SessionClose ELSE UNCHANGED sessionVars
    /\ sessionSet' = FALSE
    /\ wpc' = "done"
    /\ UNCHANGED <<mode, mpc, running, threadSet, loopSet, loopClosed, sinkers,
                   delivered>>
    /\ UNCHANGED reportVars

-----------------------------------------------------------------------------
(* The session's callbacks, run by the loop; OnRead also runs OnMessage   *)
(* for every media message it completes.                                  *)
LoopOnConnect ==
    LoopRunning /\ \E ok \in BOOLEAN : S!OnConnect(ok) /\ UNCHANGED playVars /\ ReportCallbacks

LoopOnRead ==
    /\ LoopRunning
    /\ \E k \in 1..Len(wire) : S!OnRead(k)
    /\ delivered' = Deliver(SubSeq(reports', Len(reports) + 1, Len(reports')))
    /\ ReportCallbacks
    /\ UNCHANGED <<mode, mpc, wpc, running, threadSet, loopSet, loopClosed,
                   sessionSet, sinkers>>

LoopOnReadError == LoopRunning /\ S!OnReadError /\ UNCHANGED playVars /\ ReportCallbacks

LoopOnWriteError ==
    LoopRunning /\ S!OnWriteError /\ UNCHANGED <<playVars, reportVars>>

(* The server is a separate process.                                      *)
ServerAnswer == S!ServerAnswer /\ UNCHANGED <<playVars, reportVars>>

ReleaseSteps == ReleaseCheck \/ ReleaseStop \/ ReleaseLoopClose \/ ReleaseJoin \/ ReleaseElse

WorkerSteps == WorkerAlloc \/ WorkerInit \/ WorkerCheck \/ WorkerRunReturns \/ WorkerExit

(* Every step needs a live process: after std::terminate nothing runs.   *)
ProcessAlive == mpc # "terminated"

Next ==
  /\ ProcessAlive
  /\ \/ \E s \in Sinkers : AddSinker(s) \/ RemoveSinker(s)
     \/ SetReporter \/ StartNetworkOwnThread \/ StartNetworkCallerLoop
     \/ Destroy \/ ReleaseSteps \/ WorkerSteps
     \/ LoopOnConnect \/ LoopOnRead \/ LoopOnReadError \/ LoopOnWriteError
     \/ ServerAnswer

(* The caller's thread, once inside Release, and the worker thread are   *)
(* scheduled; the loop delivers connect results and readable data; the    *)
(* server answers. The caller's own calls (wiring, starting, destroying)  *)
(* and transport errors are not assumed.                                  *)
Fairness ==
    /\ WF_vars(ProcessAlive /\ ReleaseSteps)
    /\ WF_vars(ProcessAlive /\ WorkerSteps)
    /\ WF_vars(ProcessAlive /\ LoopOnConnect)
    /\ WF_sessionVars(ProcessAlive /\ LoopRunning /\ \E k \in 1..Len(wire) : S!OnRead(k))
    /\ WF_vars(ProcessAlive /\ ServerAnswer)

Spec == Init /\ [][Next]_vars /\ Fairness

-----------------------------------------------------------------------------
TypeOK ==
    /\ S!TypeOK
    /\ mode \in {"none", "thread", "caller"}
    /\ mpc \in {"idle", "started", "rel_check", "rel_stop", "rel_close",
                "rel_join", "rel_else", "released", "terminated"}
    /\ wpc \in {"none", "alloc", "init", "check", "run", "exit", "done"}
    /\ {running, threadSet, loopSet, loopClosed, sessionSet} \subseteq BOOLEAN
    /\ sinkers \subseteq Sinkers
    /\ delivered \in [Sinkers -> Seq(Seq(0..255))]
    /\ {reporterSet, rptSet} \subseteq BOOLEAN
    /\ events \in Seq(Range(CtrlEventType) \cup {"statics", "MetaData"})

(* Once the caller's thread is in the join of Release and nothing keeps   *)
(* the loop alive, the join returns: OnWork's uv_run comes back, the       *)
(* while (running_) test sees the cleared flag, and the worker closes the  *)
(* session and ends.                                                      *)
StopJoinsWhenDrained == (mpc = "rel_join" /\ ~Alive) ~> (mpc = "released")

(* A node started on its own thread drives its session to the media phase *)
(* unless the connection fails or the node is destroyed: OnWork creates    *)
(* and starts the session and runs the loop that serves its callbacks.     *)
StartedSessionPlays ==
    (mode = "thread" /\ mpc = "started")
      ~> (phase = "client_media_handle_phase" \/ S!Failed \/ mpc # "started")

(* Section 4.B: stop_network (here Release, run by ~RtmpPlay) joins the    *)
(* thread the node spawned: once the node is destroyed, Release returns   *)
(* and the worker thread has ended.                                       *)
ReleaseStopsWorker ==
    (mpc = "rel_check") ~> (mpc = "released" /\ wpc \in {"none", "done"})

(* Every NALU of every video frame the session hands to OnMessage reaches *)
(* every wired sinker as an Annex-B packet (section 4.D: one packet per   *)
(* NALU; the loop over nalus in OnMessage).                                *)
NaluFanOut ==
    \A s \in sinkers, i \in 1..Len(reports) :
        reports[i].cb = "OnMessage" =>
            \A n \in Range(PacketOf(reports[i].msg).nalus) :
                \E j \in 1..Len(delivered[s]) : delivered[s][j] = H264_START_CODE \o n

(* Sections 4.E and 7: a close ends what the node hands out. Once OnClose  *)
(* has reported "close", no later step of either thread reports another   *)
(* event or hands a sinker another packet: the read that failed is not   *)
(* re-armed, a failing HandleMessage closes the connection, and Release   *)
(* and OnWork's exit close the session without calling back.              *)
CloseIsFinal ==
    [][(\E i \in 1..Len(events) : events[i] = "close")
         => UNCHANGED <<events, delivered>>]_vars

=============================================================================
