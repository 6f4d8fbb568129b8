---------------------------- MODULE RtmpDialogue ----------------------------
(***************************************************************************)
(* What the RTMP client engine promises (section 4.E of the              *)
(* specification): a role-parameterised state machine that walks the     *)
(* handshake and the AMF0 command dialogue in order, sending on entry to  *)
(* each state what that state is named after, and ends in closed.        *)
(*                                                                         *)
(* The states are the ones of section 4.E in which the client waits; the  *)
(* intermediate "received" states are left at once, by the send of the   *)
(* next command. One step may take the dialogue over several states, as a *)
(* read may carry several responses, and may end in closed, as an error   *)
(* may follow them in the same read. A publishing client may send media   *)
(* at any time its connection is up.                                      *)
(***************************************************************************)
EXTENDS Naturals, Sequences, SequencesExt

VARIABLES
    state,  \* the state of section 4.E
    role,   \* "play" or "publish", fixed before the dialogue starts
    out     \* what the client has sent, in order

vars == <<state, role, out>>

Ladder == <<"init", "c0c1_sent", "connect_sent", "create_stream_sent",
            "playpublish_sent", "stream_ready">>

States == Range(Ladder) \cup {"closed"}

Rank(s) == CHOOSE i \in 1..Len(Ladder) : Ladder[i] = s

(* What the client sends on entering the i-th state of the ladder.        *)
SendsOn(i, r) ==
    CASE Ladder[i] = "c0c1_sent" -> <<"C0C1">>
      [] Ladder[i] = "connect_sent" -> <<"C2", "connect">>
      [] Ladder[i] = "create_stream_sent" -> <<"createStream">>
      [] Ladder[i] = "playpublish_sent" -> <<r>>
      [] OTHER -> <<>>

Init ==
    /\ state = "init"
    /\ role \in {"play", "publish"}
    /\ out = <<>>

(* The role is taken from the request before anything is sent.           *)
Configure(r) ==
    /\ state = "init"
    /\ role' = r
    /\ UNCHANGED <<state, out>>

(* The dialogue moves on from state to a later state j, sending what each *)
(* state passed over sends; the step may end with the session closed.    *)
Advance(j) ==
    /\ state \in Range(Ladder)
    /\ Rank(state) < j
    /\ out' = out \o FlattenSeq([i \in 1..(j - Rank(state)) |-> SendsOn(Rank(state) + i, role)])
    /\ state' \in {Ladder[j], "closed"}
    /\ UNCHANGED role

Close ==
    /\ state # "closed"
    /\ state' = "closed"
    /\ UNCHANGED <<role, out>>

WriteMedia ==
    /\ role = "publish"
    /\ state \notin {"init", "closed"}
    /\ out' = Append(out, "media")
    /\ UNCHANGED <<state, role>>

Next ==
    \/ \E r \in {"play", "publish"} : Configure(r)
    \/ \E j \in 1..Len(Ladder) : Advance(j)
    \/ Close
    \/ WriteMedia

Spec == Init /\ [][Next]_vars
=============================================================================
