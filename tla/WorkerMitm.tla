------------------------------ MODULE WorkerMitm ------------------------------
(***************************************************************************)
(* One worker process (src/src/worker.py, src/src/mitm/addon.py): calls    *)
(* read from stdin wait for a lock, fill the pending slot, type into the   *)
(* TUI (PtyDriver) and wait for the CLI's next /v1/messages, which the     *)
(* mitm addon hijacks: it swaps the body and mirrors the response into     *)
(* the call's channel, from which _handle writes it to stdout.             *)
(*                                                                         *)
(* One event loop runs it all: an action is one stretch between awaits.    *)
(* Out: end of the process (amain's finally), which Session models.        *)
(***************************************************************************)
EXTENDS PtyDriver, Sequences, FiniteSets

CONSTANTS
  Calls,      (* request lines the main process writes, one each           *)
  MAX_FLOWS   (* bound: hijacked flows                                     *)

Nil == "nil"  \* no call
EOS == 0      \* the None that ends a channel, among the ids of flows

ASSUME WorkerAssumption ==
  /\ MAX_FLOWS \in Nat
  /\ Nil \notin Calls

VARIABLES
  lockq,     \* WorkerSession.lock: holder first, then the waiters in order
  phase,     \* where each call's _handle task is
  pending,   \* WorkerSession.pending: the call whose body waits for a flow
  response,  \* WorkerSession.response: the call whose channel that is
  consumed,  \* calls whose PendingRequest.consumed is set
  chan,      \* each call's channel: flows whose bytes, then EOS
  flows,     \* the hijacked flows, oldest first
  active,    \* _active_flow_id
  got,       \* the flows whose bytes went to stdout under each call's id
  out,       \* what the main process saw of each call, as in ReplyChannels
  probing,   \* amain is inside the probe_quota branch
  reported   \* the rate_limit events sent from a TUI text, by what it was

workerVars == <<lockq, phase, pending, response, consumed, chan, flows, active,
                got, out, probing, reported>>
vars == <<ptyVars, workerVars>>

Phases == {"idle", "locked", "repaint", "waiting", "expired", "failed", "reading",
           "done"}

\* closed: _FlowState.closed; it is in _flow_states as long as it is not.
Flow == [body : Calls, chan : Calls, state : {"open", "streaming", "over"},
         tapped : BOOLEAN, sent : BOOLEAN, closed : BOOLEAN]

FlowIds == 1 .. MAX_FLOWS

TypeOK ==
  /\ PtyTypeOK
  /\ lockq \in Seq(Calls)
  /\ phase \in [Calls -> Phases]
  /\ pending \in Calls \cup {Nil}
  /\ response \in Calls \cup {Nil}
  /\ consumed \subseteq Calls
  /\ chan \in [Calls -> Seq(FlowIds \cup {EOS})]
  /\ flows \in Seq(Flow) /\ Len(flows) <= MAX_FLOWS
  /\ active \in 0 .. Len(flows)
  /\ got \in [Calls -> SUBSET FlowIds]
  /\ out \in [Calls -> {"none", "open", "bytes", "empty", "ended"}]
  /\ probing \in BOOLEAN
  /\ reported \subseteq {"current", "past"}

Init ==
  /\ PtyInit
  /\ lockq = <<>>
  /\ phase = [r \in Calls |-> "idle"]
  /\ pending = Nil
  /\ response = Nil
  /\ consumed = {}
  /\ chan = [r \in Calls |-> <<>>]
  /\ flows = <<>>
  /\ active = 0
  /\ got = [r \in Calls |-> {}]
  /\ out = [r \in Calls |-> "none"]
  /\ probing = FALSE
  /\ reported = {}

Holds(r) == lockq # <<>> /\ Head(lockq) = r
To(r, p) == phase' = [phase EXCEPT ![r] = p]
Release == lockq' = Tail(lockq)
Put(c, x) == [chan EXCEPT ![c] = Append(@, x)]
Ended(r) == out' = [out EXCEPT ![r] = IF @ = "open" THEN "empty" ELSE "ended"]

-----------------------------------------------------------------------------
(* A call: WorkerSession.call and _handle.                                 *)

\* The main loop reads a request line; it reads none while it runs a probe.
ReadRequest(r) ==
  /\ phase[r] = "idle"
  /\ ~probing
  /\ To(r, "locked")
  /\ lockq' = Append(lockq, r)
  /\ out' = [out EXCEPT ![r] = "open"]
  /\ UNCHANGED <<ptyVars, pending, response, consumed, chan, flows, active,
                 got, probing, reported>>

\* trigger() raised: _handle answers with an error; the slot stays filled.
TriggerFails(r) ==
  /\ ~alive
  /\ To(r, "failed")
  /\ Release
  /\ Ended(r)
  /\ UNCHANGED ptyVars

\* The first stretch under the lock: a new channel, the slot, and trigger() up
\* to its first await.
Begin(r) ==
  /\ Holds(r)
  /\ phase[r] = "locked"
  /\ response' = r
  /\ pending' = r
  /\ \/ TriggerFails(r)
     \/ /\ alive
        /\ ForceDismiss
        /\ To(r, "repaint")
        /\ UNCHANGED <<lockq, out>>
     \/ /\ alive
        /\ ~MustDismiss
        /\ To(r, "waiting")
        /\ UNCHANGED <<ptyVars, lockq, out>>
  /\ UNCHANGED <<consumed, chan, flows, active, got, probing, reported>>

\* 80 ms later: the placeholder is typed, whatever the TUI shows by now.
Repainted(r) ==
  /\ phase[r] = "repaint"
  /\ \/ TriggerFails(r)
     \/ /\ To(r, "waiting")
        /\ UNCHANGED <<ptyVars, lockq, out>>
  /\ UNCHANGED <<pending, response, consumed, chan, flows, active, got,
                 probing, reported>>

\* consumed.wait() returns; the lock is given back with the response under way.
Hijacked(r) ==
  /\ phase[r] = "waiting"
  /\ r \in consumed
  /\ To(r, "reading")
  /\ Release
  /\ UNCHANGED <<ptyVars, pending, response, consumed, chan, flows, active, got,
                 out, probing, reported>>

\* The intercept timeout fires.  wait_for (Python 3.10) then cancels the inner
\* wait and takes some more rounds of the loop; that the event was set a moment
\* before, or is set in these rounds, is lost.
Expire(r) ==
  /\ phase[r] = "waiting"
  /\ To(r, "expired")
  /\ UNCHANGED <<ptyVars, lockq, pending, response, consumed, chan, flows,
                 active, got, out, probing, reported>>

\* Mutant: the slot keeps the body of the call that timed out.
GiveUpKeepsSlot(r) ==
  /\ phase[r] = "expired"
  /\ reported' = IF ResetFound
                 THEN reported \cup {IF passed THEN "past" ELSE "current"}
                 ELSE reported
  /\ chan' = Put(response, EOS)
  /\ To(r, "reading")
  /\ Release
  /\ UNCHANGED <<ptyVars, pending, response, consumed, flows, active, got, out,
                 probing>>

\* The TimeoutError branch: a limit event when a reset date was found, then the
\* slot is cleared and the channel closed.
GiveUp(r) ==
  /\ phase[r] = "expired"
  /\ reported' = IF ResetFound
                 THEN reported \cup {IF passed THEN "past" ELSE "current"}
                 ELSE reported
  /\ pending' = Nil
  /\ chan' = Put(response, EOS)
  /\ To(r, "reading")
  /\ Release
  /\ UNCHANGED <<ptyVars, response, consumed, flows, active, got, out, probing>>

\* _handle takes one item of its channel; usage and end follow the sentinel.
Relay(r) ==
  /\ phase[r] = "reading"
  /\ chan[r] # <<>>
  /\ chan' = [chan EXCEPT ![r] = Tail(@)]
  /\ LET item == Head(chan[r])
     IN \/ /\ item = EOS
           /\ To(r, "done")
           /\ Ended(r)
           /\ UNCHANGED got
        \/ /\ item # EOS
           /\ got' = [got EXCEPT ![r] = @ \cup {item}]
           /\ out' = [out EXCEPT ![r] = "bytes"]
           /\ UNCHANGED phase
  /\ UNCHANGED <<ptyVars, lockq, pending, response, consumed, flows, active,
                 probing, reported>>

-----------------------------------------------------------------------------
(* The addon: hooks of mitmproxy and the timers of _FlowState.             *)

\* Mutant: the slot is not cleared.
HijackKeepsSlot ==
  /\ pending # Nil
  /\ Len(flows) < MAX_FLOWS
  /\ flows' = Append(flows, [body |-> pending, chan |-> response, state |-> "open",
                             tapped |-> FALSE, sent |-> FALSE, closed |-> FALSE])
  /\ active' = Len(flows) + 1
  /\ consumed' = consumed \cup {pending}
  /\ UNCHANGED <<ptyVars, lockq, phase, pending, response, chan, got, out,
                 probing, reported>>

\* A /v1/messages call of the CLI arrives: for the placeholder of this call, for
\* one typed long ago, or by itself; the CLI may be dead by now.  With the slot
\* empty it passes unchanged.
Hijack ==
  /\ pending # Nil
  /\ Len(flows) < MAX_FLOWS
  /\ flows' = Append(flows, [body |-> pending, chan |-> response, state |-> "open",
                             tapped |-> FALSE, sent |-> FALSE, closed |-> FALSE])
  /\ active' = Len(flows) + 1
  /\ consumed' = consumed \cup {pending}
  /\ pending' = Nil
  /\ UNCHANGED <<ptyVars, lockq, phase, response, chan, got, out, probing, reported>>

\* responseheaders: only the flow hijacked last gets the tap.
ResponseHeaders(f) ==
  /\ flows[f].state = "open"
  /\ flows' = [flows EXCEPT ![f].state = "streaming",
                            ![f].tapped = f = active /\ ~flows[f].closed]
  /\ UNCHANGED <<ptyVars, lockq, phase, pending, response, consumed, chan,
                 active, got, out, probing, reported>>

\* _tap with data.  More chunks of a flow change nothing the model sees.
Tap(f) ==
  /\ flows[f].state = "streaming"
  /\ flows[f].tapped /\ ~flows[f].sent
  /\ chan' = IF flows[f].closed THEN chan ELSE Put(flows[f].chan, f)
  /\ flows' = [flows EXCEPT ![f].sent = TRUE]
  /\ UNCHANGED <<ptyVars, lockq, phase, pending, response, consumed, active,
                 got, out, probing, reported>>

\* Mutant: the sentinel is the tap's business.
CloseTapped(f, state) ==
  /\ chan' = IF flows[f].closed \/ ~flows[f].tapped THEN chan
             ELSE Put(flows[f].chan, EOS)
  /\ flows' = [flows EXCEPT ![f].state = state, ![f].closed = TRUE]

\* _FlowState.close, once per flow.
Close(f, state) ==
  /\ chan' = IF flows[f].closed THEN chan ELSE Put(flows[f].chan, EOS)
  /\ flows' = [flows EXCEPT ![f].state = state, ![f].closed = TRUE]

\* _tap with b"" closes the channel; an untapped flow ends unnoticed.
EndOfStream(f) ==
  /\ flows[f].state = "streaming"
  /\ \/ /\ flows[f].tapped
        /\ Close(f, "over")
     \/ /\ ~flows[f].tapped
        /\ flows' = [flows EXCEPT ![f].state = "over"]
        /\ UNCHANGED chan
  /\ UNCHANGED <<ptyVars, lockq, phase, pending, response, consumed, active,
                 got, out, probing, reported>>

\* error: the upstream reset the connection, or the CLI dropped it, on an Esc
\* or with its death.
FlowError(f) ==
  /\ flows[f].state # "over"
  /\ Close(f, "over")
  /\ UNCHANGED <<ptyVars, lockq, phase, pending, response, consumed, active,
                 got, out, probing, reported>>

\* _fire: no chunk for response_stall_timeout since the hijack or the last one.
Watchdog(f) ==
  /\ ~flows[f].closed
  /\ Close(f, flows[f].state)
  /\ UNCHANGED <<ptyVars, lockq, phase, pending, response, consumed, active,
                 got, out, probing, reported>>

-----------------------------------------------------------------------------
(* The /usage probe, inline in amain's read loop.                          *)

\* The main process sends one only to a worker that owes it nothing, and holds
\* its session lock for five seconds more (session.py:726-742).
ProbeQuota ==
  /\ "usage" \in Screens
  /\ ~probing
  /\ \A r \in Calls : phase[r] \in {"idle", "failed", "done"}
  /\ SendUsage
  /\ probing' = alive
  /\ UNCHANGED <<lockq, phase, pending, response, consumed, chan, flows, active,
                 got, out, reported>>

\* 2 s later: one more Esc.
ProbeEsc ==
  /\ probing
  /\ probing' = FALSE
  /\ screen' = IF alive THEN "prompt" ELSE screen
  /\ UNCHANGED <<alive, recent, tail, snippet, passed, window, lockq, phase,
                 pending, response, consumed, chan, flows, active, got, out,
                 reported>>

Terminal ==
  \/ \E s \in Screens \cup {"prompt"} : Shows(s)
  \/ \E debounced \in BOOLEAN : Drain(debounced)
  \/ \E m \in Screens : Scroll(m)
  \/ ResetPasses
  \/ WindowEnds
  \/ PtyDies

Call(r) ==
  ReadRequest(r) \/ Begin(r) \/ Repainted(r) \/ Hijacked(r) \/ Expire(r)
    \/ GiveUp(r) \/ Relay(r)

Addon(f) ==
  ResponseHeaders(f) \/ Tap(f) \/ EndOfStream(f) \/ FlowError(f) \/ Watchdog(f)

Next ==
  \/ Terminal /\ UNCHANGED workerVars
  \/ \E r \in Calls : Call(r)
  \/ Hijack
  \/ \E f \in DOMAIN flows : Addon(f)
  \/ ProbeQuota
  \/ ProbeEsc

Spec == Init /\ [][Next]_vars

-----------------------------------------------------------------------------
\* Calls are answered with their own bytes: what goes to stdout under a call's
\* id comes from the flow that carried its body, and no body is sent upstream
\* twice, though the slot, the channel and the active flow are one variable each
\* and the CLI calls whenever it likes.
OwnReply ==
  /\ \A r \in Calls : \A f \in got[r] : flows[f].body = r
  /\ \A f, g \in DOMAIN flows : flows[f].body = flows[g].body => f = g

\* A call that reads its channel can come to an end: the sentinel is in the
\* channel, or a flow with a watchdog will put one there, also when no response
\* headers ever came, the flow lost the tap, or the timeout and the hijack met.
AlwaysACloser ==
  \A r \in Calls :
    phase[r] = "reading" =>
      \/ \E i \in DOMAIN chan[r] : chan[r][i] = EOS
      \/ \E f \in DOMAIN flows : flows[f].chan = r /\ ~flows[f].closed

\* The CLI's late call never carries the body of a call that got its response or
\* was given up at the intercept timeout: it would be billed and read by nobody.
\* A call whose trigger() raised is no such call: its body stays in the slot, and
\* a request the dying CLI had already written still takes it.
NeverSentLate == [][Hijack => phase[pending] \notin {"reading", "done"}]_vars

-----------------------------------------------------------------------------
(* What the code says and does not do.                                     *)

\* The main process floors the window of such an event at 60 s, as it "defends
\* against a parse that yields a stale-past timestamp" (session.py:657-661).
\* But the frozen text is parsed again at every later timeout, and a date that
\* has passed is read as one of the next year.
NoStaleLimit == "past" \notin reported

\* "Holding state per flow.id ... keeps a stale flow that times out late from
\* clobbering a fresh hijack" (addon.py:200-202): but the fresh hijack takes the
\* tap from a response whose headers are still to come.
HijackedIsTapped ==
  \A f \in DOMAIN flows :
    flows[f].state = "streaming" => flows[f].tapped \/ flows[f].closed

\* "mitm never saw a /v1/messages it could claim" (worker.py:110): the timeout
\* may fire in the round of the hijack, and the reply then ends with nothing.
TimedOutMeansUnsent ==
  \A f \in DOMAIN flows : phase[flows[f].body] # "expired"
=============================================================================
