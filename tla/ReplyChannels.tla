---------------------------- MODULE ReplyChannels ----------------------------
(***************************************************************************)
(* What a caller of ClaudeSession.call is promised about the channel it is *)
(* given (src/src/session/state.py, src/src/session/session.py): bytes,    *)
(* then one end-of-stream sentinel, then nothing.                          *)
(***************************************************************************)
CONSTANT Callers

VARIABLE reply   \* caller -> a state

\* empty: ended without a byte; ended: ended after some bytes.
States == {"none", "open", "bytes", "empty", "ended"}
Live == {"open", "bytes"}

Init == reply = [c \in Callers |-> "none"]

Open(c) ==
  /\ reply[c] = "none"
  /\ reply' = [reply EXCEPT ![c] = "open"]

Data(c) ==
  /\ reply[c] = "open"
  /\ reply' = [reply EXCEPT ![c] = "bytes"]

Over(state) == IF state = "open" THEN "empty" ELSE "ended"

Close(c) ==
  /\ reply[c] \in Live
  /\ reply' = [reply EXCEPT ![c] = Over(@)]

\* A restart or a dead worker ends every open reply at once.
CloseAll(S) ==
  /\ \A c \in S : reply[c] \in Live
  /\ reply' = [c \in Callers |-> IF c \in S THEN Over(reply[c]) ELSE reply[c]]

Next ==
  \/ \E c \in Callers : Open(c) \/ Data(c) \/ Close(c)
  \/ \E S \in SUBSET Callers : CloseAll(S)

SafeSpec == Init /\ [][Next]_reply

\* Every reply that was opened is eventually closed.
Spec == SafeSpec /\ \A c \in Callers : WF_reply(Close(c))
=============================================================================
