--------------------------- MODULE WorkerMitmProofs ---------------------------
(***************************************************************************)
(* Theorems about WorkerMitm, for any number of calls and of flows and any *)
(* screens: each call is answered with its own bytes and can come to an    *)
(* end, and no late call of the CLI carries the body of one that is over.  *)
(*                                                                         *)
(* The argument: between the moment a call fills the slot and the moment   *)
(* it reads, it holds the lock (LockInv), so the slot, if it is filled,    *)
(* and the response channel are those of one call that was not given up    *)
(* nor answered (SlotInv); a hijack pairs them for good (FlowInv).         *)
(***************************************************************************)
EXTENDS WorkerMitm, TLAPS

\* The call has filled the slot and has not begun to read its channel.
InFlight(r) == phase[r] \in {"repaint", "waiting", "expired"}

LockInv == \A r \in Calls : InFlight(r) => Holds(r) /\ response = r

\* After trigger() raised, the slot stays filled until the next call fills it.
SlotInv ==
  pending # Nil =>
    /\ response = pending
    /\ \A f \in DOMAIN flows : flows[f].body # pending
    /\ InFlight(pending) \/ phase[pending] = "failed"

FlowInv ==
  /\ \A f \in DOMAIN flows :
       /\ flows[f].chan = flows[f].body
       /\ phase[flows[f].body] \notin {"idle", "locked"}
  /\ \A f, g \in DOMAIN flows : flows[f].body = flows[g].body => f = g
  /\ \A r \in consumed : \E f \in DOMAIN flows : flows[f].body = r

Mirrors(f, r) == f \in DOMAIN flows /\ flows[f].chan = r

ChanInv ==
  \A r \in Calls :
    /\ \A i \in DOMAIN chan[r] : chan[r][i] # EOS => Mirrors(chan[r][i], r)
    /\ \A f \in got[r] : Mirrors(f, r)

HasEnd(c) == \E i \in DOMAIN c : c[i] = EOS

Closable(r) ==
  HasEnd(chan[r]) \/ \E f \in DOMAIN flows : flows[f].chan = r /\ ~flows[f].closed

CloserInv ==
  \A r \in Calls :
    phase[r] # "done" /\ (phase[r] = "reading" \/ r \in consumed) => Closable(r)

WorkerInv == TypeOK /\ LockInv /\ SlotInv /\ FlowInv /\ ChanInv /\ CloserInv

-----------------------------------------------------------------------------
(* The queue of the lock, and types.                                       *)

\* A new waiter does not take the lock from its holder.
LEMMA AppendHead ==
  ASSUME NEW S, NEW q \in Seq(S), NEW t \in S
  PROVE  /\ Append(q, t) \in Seq(S)
         /\ q # <<>> => Append(q, t) # <<>> /\ Head(Append(q, t)) = Head(q)
  OBVIOUS

\* A release leaves a queue.
LEMMA TailSeq ==
  ASSUME NEW S, NEW q \in Seq(S), q # <<>>
  PROVE  Tail(q) \in Seq(S)
  OBVIOUS

\* The CLI and the driver's drain task: the worker's own state is not theirs,
\* and a CLI that is gone stays gone.
LEMMA TerminalStep ==
  ASSUME PtyTypeOK, Terminal
  PROVE  PtyTypeOK' /\ (alive' => alive)
  <1> USE DEF PtyTypeOK
  <1>1. ASSUME NEW s \in Screens \cup {"prompt"}, Shows(s)
        PROVE  PtyTypeOK' /\ (alive' => alive)
    BY <1>1 DEF Shows
  <1>2. ASSUME NEW debounced \in BOOLEAN, Drain(debounced)
        PROVE  PtyTypeOK' /\ (alive' => alive)
    <2>1. Text \subseteq Screens
      BY DEF Text
    <2>2. \A view : Captured(view) \in BOOLEAN
      BY DEF Captured
    <2> QED
      BY <1>2, <2>1, <2>2 DEF Drain, Escape
  <1>3. ASSUME NEW m \in Screens, Scroll(m)
        PROVE  PtyTypeOK' /\ (alive' => alive)
    BY <1>3 DEF Scroll
  <1>4. CASE ResetPasses
    BY <1>4 DEF ResetPasses
  <1>5. CASE WindowEnds
    BY <1>5 DEF WindowEnds
  <1>6. CASE PtyDies
    BY <1>6 DEF PtyDies
  <1> QED
    BY <1>1, <1>2, <1>3, <1>4, <1>5, <1>6 DEF Terminal

\* Types, of a call's own steps.
LEMMA CallType ==
  ASSUME TypeOK, LockInv, NEW r \in Calls, Call(r)
  PROVE  TypeOK'
  <1> USE DEF TypeOK
  <1>1. CASE ReadRequest(r)
    BY <1>1, AppendHead DEF ReadRequest, To, Phases, ptyVars, PtyTypeOK
  <1>2. CASE Begin(r)
    <2>1. CASE TriggerFails(r)
      BY <1>2, <2>1, TailSeq DEF Begin, TriggerFails, Holds, To, Release, Ended,
         Phases, ptyVars, PtyTypeOK
    <2>2. CASE ForceDismiss /\ To(r, "repaint") /\ UNCHANGED <<lockq, out>>
      BY <1>2, <2>2 DEF Begin, ForceDismiss, Escape, To, Phases, PtyTypeOK
    <2>3. CASE To(r, "waiting") /\ UNCHANGED <<ptyVars, lockq, out>>
      BY <1>2, <2>3 DEF Begin, To, Phases, ptyVars, PtyTypeOK
    <2> QED
      BY <1>2, <2>1, <2>2, <2>3 DEF Begin
  <1>3. CASE Repainted(r)
    <2>1. CASE TriggerFails(r)
      BY <1>3, <2>1, TailSeq DEF Repainted, TriggerFails, LockInv, InFlight, Holds,
         To, Release, Ended, Phases, ptyVars, PtyTypeOK
    <2>2. CASE To(r, "waiting") /\ UNCHANGED <<ptyVars, lockq, out>>
      BY <1>3, <2>2 DEF Repainted, To, Phases, ptyVars, PtyTypeOK
    <2> QED
      BY <1>3, <2>1, <2>2 DEF Repainted
  <1>4. CASE Hijacked(r)
    BY <1>4, TailSeq DEF Hijacked, LockInv, InFlight, Holds, To, Release, Phases,
       ptyVars, PtyTypeOK
  <1>5. CASE Expire(r)
    BY <1>5 DEF Expire, To, Phases, ptyVars, PtyTypeOK
  <1>6. CASE GiveUp(r)
    <2>1. lockq' \in Seq(Calls) /\ phase' \in [Calls -> Phases]
      BY <1>6, TailSeq DEF GiveUp, LockInv, InFlight, Holds, To, Release, Phases
    <2>2. chan' \in [Calls -> Seq(FlowIds \cup {EOS})]
      BY <1>6, AppendHead DEF GiveUp, LockInv, InFlight, Put
    <2>3. reported' \subseteq {"current", "past"} /\ pending' = Nil
      BY <1>6 DEF GiveUp
    <2>4. PtyTypeOK'
      BY <1>6 DEF GiveUp, ptyVars, PtyTypeOK
    <2> QED
      BY <1>6, <2>1, <2>2, <2>3, <2>4 DEF GiveUp
  <1>7. CASE Relay(r)
    <2>1. /\ chan[r] \in Seq(FlowIds \cup {EOS}) /\ chan[r] # <<>>
          /\ Head(chan[r]) \in FlowIds \cup {EOS}
      BY <1>7 DEF Relay
    <2>2. chan' \in [Calls -> Seq(FlowIds \cup {EOS})]
      BY <1>7, <2>1, TailSeq DEF Relay
    <2>3. phase' \in [Calls -> Phases]
      BY <1>7 DEF Relay, To, Phases
    <2>6. got' \in [Calls -> SUBSET FlowIds]
      <3>1. \/ got' = got
            \/ \E f \in FlowIds : got' = [got EXCEPT ![r] = @ \cup {f}]
        BY <1>7, <2>1 DEF Relay
      <3> QED
        BY <3>1
    <2>5. out' \in [Calls -> {"none", "open", "bytes", "empty", "ended"}]
      BY <1>7 DEF Relay, Ended
    <2>4. PtyTypeOK'
      BY <1>7 DEF Relay, ptyVars, PtyTypeOK
    <2> QED
      BY <1>7, <2>2, <2>3, <2>4, <2>5, <2>6 DEF Relay
  <1> QED
    BY <1>1, <1>2, <1>3, <1>4, <1>5, <1>6, <1>7 DEF Call

\* What the addon's steps write into a flow leaves its call and its channel alone.
LEMMA FlowEdit ==
  ASSUME NEW e \in Flow, NEW s \in {"open", "streaming", "over"}, NEW b \in BOOLEAN
  PROVE  /\ \A d \in {[e EXCEPT !.state = s, !.tapped = b], [e EXCEPT !.sent = TRUE],
                      [e EXCEPT !.state = s], [e EXCEPT !.state = s, !.closed = TRUE]} :
              d \in Flow /\ d.body = e.body /\ d.chan = e.chan
         /\ [e EXCEPT !.state = s, !.tapped = b].closed = e.closed
         /\ [e EXCEPT !.sent = TRUE].closed = e.closed
         /\ [e EXCEPT !.state = s].closed = e.closed
         /\ [e EXCEPT !.state = s, !.closed = TRUE].closed
  BY DEF Flow

LEMMA AddonStep ==
  ASSUME TypeOK, NEW f \in DOMAIN flows, Addon(f)
  PROVE  /\ UNCHANGED <<ptyVars, lockq, phase, pending, response, consumed, active,
                        got, out, probing, reported>>
         /\ \E e \in Flow :
              /\ flows' = [flows EXCEPT ![f] = e]
              /\ e.body = flows[f].body /\ e.chan = flows[f].chan
              /\ \/ chan' = chan /\ (e.closed => flows[f].closed)
                 \/ chan' = Put(flows[f].chan, f) /\ (e.closed => flows[f].closed)
                 \/ chan' = Put(flows[f].chan, EOS)
  <1> DEFINE x == flows[f]
  <1>0. x \in Flow /\ flows \in Seq(Flow)
    BY DEF TypeOK
  <1>u. UNCHANGED <<ptyVars, lockq, phase, pending, response, consumed, active,
                    got, out, probing, reported>>
    BY DEF Addon, ResponseHeaders, Tap, EndOfStream, FlowError, Watchdog
  <1>c. ASSUME NEW s \in {"open", "streaming", "over"}, Close(f, s)
        PROVE  \E e \in Flow :
              /\ flows' = [flows EXCEPT ![f] = e]
              /\ e.body = x.body /\ e.chan = x.chan
              /\ \/ chan' = chan /\ (e.closed => x.closed)
                 \/ chan' = Put(x.chan, EOS)
    <2> DEFINE e == [x EXCEPT !.state = s, !.closed = TRUE]
    <2>1. flows' = [flows EXCEPT ![f] = e]
      BY <1>c, <1>0 DEF Close
    <2>2. e \in Flow /\ e.body = x.body /\ e.chan = x.chan
      BY <1>0, FlowEdit
    <2>3. chan' = IF x.closed THEN chan ELSE Put(x.chan, EOS)
      BY <1>c DEF Close
    <2> HIDE DEF e
    <2> QED BY <2>1, <2>2, <2>3
  <1>1. CASE ResponseHeaders(f)
    <2> DEFINE b == f = active /\ ~x.closed
    <2> DEFINE e == [x EXCEPT !.state = "streaming", !.tapped = b]
    <2>1. b \in BOOLEAN OBVIOUS
    <2>2. flows' = [flows EXCEPT ![f] = e]
      BY <1>1, <1>0 DEF ResponseHeaders
    <2> HIDE DEF b
    <2>3. e \in Flow /\ e.body = x.body /\ e.chan = x.chan /\ e.closed = x.closed
      BY <1>0, <2>1, FlowEdit
    <2>4. chan' = chan
      BY <1>1 DEF ResponseHeaders
    <2> HIDE DEF e
    <2> QED BY <2>2, <2>3, <2>4, <1>u
  <1>2. CASE Tap(f)
    <2> DEFINE e == [x EXCEPT !.sent = TRUE]
    <2>1. flows' = [flows EXCEPT ![f] = e]
      BY <1>2, <1>0 DEF Tap
    <2>2. e \in Flow /\ e.body = x.body /\ e.chan = x.chan /\ e.closed = x.closed
      BY <1>0, FlowEdit
    <2>3. chan' = IF x.closed THEN chan ELSE Put(x.chan, f)
      BY <1>2 DEF Tap
    <2> HIDE DEF e
    <2> QED BY <2>1, <2>2, <2>3, <1>u
  <1>3. CASE EndOfStream(f)
    <2>1. CASE Close(f, "over")
      BY <2>1, <1>c, <1>u
    <2>2. CASE flows' = [flows EXCEPT ![f].state = "over"] /\ chan' = chan
      <3> DEFINE e == [x EXCEPT !.state = "over"]
      <3>1. flows' = [flows EXCEPT ![f] = e]
        BY <2>2, <1>0
      <3>2. e \in Flow /\ e.body = x.body /\ e.chan = x.chan /\ e.closed = x.closed
        BY <1>0, FlowEdit
      <3> HIDE DEF e
      <3> QED BY <2>2, <3>1, <3>2, <1>u
    <2> QED BY <1>3, <2>1, <2>2 DEF EndOfStream
  <1>4. CASE FlowError(f)
    BY <1>4, <1>c, <1>u DEF FlowError
  <1>5. CASE Watchdog(f)
    BY <1>5, <1>0, <1>c, <1>u DEF Watchdog, Flow
  <1> QED
    BY <1>1, <1>2, <1>3, <1>4, <1>5 DEF Addon
\* Types, of the addon's steps and the probe.
LEMMA AddonType ==
  ASSUME TypeOK, SlotInv, 
         \/ Hijack
         \/ \E f \in DOMAIN flows : Addon(f)
         \/ ProbeQuota
         \/ ProbeEsc
  PROVE  TypeOK'
  <1> USE WorkerAssumption DEF TypeOK
  <1>1. CASE Hijack
    <2>1. pending \in Calls /\ response \in Calls
      BY <1>1 DEF Hijack, SlotInv
    <2> DEFINE new == [body |-> pending, chan |-> response, state |-> "open",
                       tapped |-> FALSE, sent |-> FALSE, closed |-> FALSE]
    <2>2. new \in Flow
      BY <2>1 DEF Flow
    <2>3. flows' = Append(flows, new) /\ Len(flows) < MAX_FLOWS
      BY <1>1 DEF Hijack
    <2> HIDE DEF new
    <2>4. flows' \in Seq(Flow) /\ Len(flows') = Len(flows) + 1
      BY <2>2, <2>3
    <2>5. active' \in 0 .. Len(flows') /\ Len(flows') <= MAX_FLOWS
      BY <1>1, <2>3, <2>4 DEF Hijack
    <2>6. PtyTypeOK'
      BY <1>1 DEF Hijack, ptyVars, PtyTypeOK
    <2> QED
      BY <1>1, <2>1, <2>4, <2>5, <2>6 DEF Hijack
  <1>2. ASSUME NEW f \in DOMAIN flows, Addon(f)
        PROVE  TypeOK'
    <2>0. flows[f] \in Flow
      OBVIOUS
    <2>1. f \in FlowIds /\ flows[f].chan \in Calls
      BY <2>0 DEF FlowIds, Flow
    <2>2. PICK e \in Flow :
            /\ flows' = [flows EXCEPT ![f] = e]
            /\ \/ chan' = chan
               \/ \E x \in {f, EOS} : chan' = Put(flows[f].chan, x)
      BY <1>2, AddonStep
    <2>3. flows' \in Seq(Flow) /\ Len(flows') = Len(flows)
      BY <2>2
    <2>4. chan' \in [Calls -> Seq(FlowIds \cup {EOS})]
      <3>1. \A c \in Calls, x \in {f, EOS} :
              Append(chan[c], x) \in Seq(FlowIds \cup {EOS})
        BY <2>1, AppendHead
      <3>2. ASSUME NEW x \in {f, EOS}, chan' = Put(flows[f].chan, x)
            PROVE  chan' \in [Calls -> Seq(FlowIds \cup {EOS})]
        BY <2>1, <3>1, <3>2 DEF Put
      <3> QED
        BY <2>2, <3>2
    <2>5. UNCHANGED <<ptyVars, lockq, phase, pending, response, consumed, active,
                      got, out, probing, reported>>
      BY <1>2, AddonStep
    <2> QED
      BY <2>3, <2>4, <2>5 DEF ptyVars, PtyTypeOK
  <1>3. CASE ProbeQuota
    BY <1>3 DEF ProbeQuota, SendUsage, PtyTypeOK
  <1>4. CASE ProbeEsc
    BY <1>4 DEF ProbeEsc, PtyTypeOK
  <1> QED
    BY <1>1, <1>2, <1>3, <1>4

-----------------------------------------------------------------------------
(* The slots and the lock.                                                 *)

\* What a step outside calls, hijacks and flows leaves alone.
Elsewhere ==
  UNCHANGED <<lockq, phase, pending, response, consumed, chan, flows, got, out>>

\* The steps of the terminal and of the probe are such steps.
LEMMA NextCases ==
  ASSUME TypeOK, [Next]_vars
  PROVE  \/ \E r \in Calls : Call(r)
         \/ Hijack
         \/ \E f \in DOMAIN flows : Addon(f)
         \/ Elsewhere
  <1>1. CASE Terminal /\ UNCHANGED workerVars
    BY <1>1, TerminalStep DEF TypeOK, workerVars, Elsewhere
  <1>2. CASE ProbeQuota
    BY <1>2 DEF ProbeQuota, SendUsage, Elsewhere
  <1>3. CASE ProbeEsc
    BY <1>3 DEF ProbeEsc, Elsewhere
  <1>4. CASE UNCHANGED vars
    BY <1>4 DEF vars, ptyVars, workerVars, Elsewhere
  <1> QED
    BY <1>1, <1>2, <1>3, <1>4 DEF Next

\* Flows keep their bodies and channels; what an addon's step changes else is
\* told by AddonStep.
LEMMA AddonKeeps ==
  ASSUME TypeOK, NEW f \in DOMAIN flows, Addon(f)
  PROVE  /\ DOMAIN flows' = DOMAIN flows
         /\ \A g \in DOMAIN flows : /\ flows'[g].body = flows[g].body
                                    /\ flows'[g].chan = flows[g].chan
         /\ UNCHANGED <<alive, lockq, phase, pending, response, consumed, got, out>>
  <1>1. UNCHANGED <<alive, lockq, phase, pending, response, consumed, got, out>>
    BY AddonStep DEF ptyVars
  <1>2. PICK e \in Flow : /\ flows' = [flows EXCEPT ![f] = e]
                          /\ e.body = flows[f].body /\ e.chan = flows[f].chan
    BY AddonStep
  <1> QED
    BY <1>1, <1>2 DEF TypeOK

\* Whoever fills the slot, types or waits for a flow holds the lock, and the
\* response channel is its own.
LEMMA LockStep ==
  ASSUME WorkerInv, [Next]_vars
  PROVE  LockInv'
  <1> USE DEF WorkerInv, TypeOK, LockInv, InFlight
  <1>1. ASSUME NEW r \in Calls, ReadRequest(r)
        PROVE  LockInv'
    BY <1>1, AppendHead DEF ReadRequest, To, Holds
  <1>2. ASSUME NEW r \in Calls, Begin(r)
        PROVE  LockInv'
    <2>1. \A s \in Calls \ {r} : ~InFlight(s)
      BY <1>2 DEF Begin, Holds
    <2>2. \A s \in Calls \ {r} : phase'[s] = phase[s]
      BY <1>2 DEF Begin, TriggerFails, To
    <2>3. CASE TriggerFails(r)
      BY <2>1, <2>2, <2>3 DEF TriggerFails, To
    <2>4. CASE UNCHANGED lockq
      BY <1>2, <2>1, <2>2, <2>4 DEF Begin, Holds
    <2> QED
      BY <1>2, <2>3, <2>4 DEF Begin
  <1>3. ASSUME NEW r \in Calls, Repainted(r)
        PROVE  LockInv'
    <2>1. Holds(r) /\ \A s \in Calls \ {r} : ~InFlight(s)
      BY <1>3 DEF Repainted, Holds
    <2>2. \A s \in Calls \ {r} : phase'[s] = phase[s]
      BY <1>3 DEF Repainted, TriggerFails, To
    <2>3. CASE TriggerFails(r)
      BY <2>1, <2>2, <2>3 DEF TriggerFails, To
    <2>4. CASE UNCHANGED lockq
      BY <1>3, <2>1, <2>2, <2>4 DEF Repainted, Holds
    <2> QED
      BY <1>3, <2>3, <2>4 DEF Repainted
  <1>4. ASSUME NEW r \in Calls, Hijacked(r) \/ GiveUp(r)
        PROVE  LockInv'
    <2>1. \A s \in Calls \ {r} : ~InFlight(s)
      BY <1>4 DEF Hijacked, GiveUp, Holds
    <2> QED
      BY <1>4, <2>1 DEF Hijacked, GiveUp, To
  <1>5. ASSUME NEW r \in Calls, Expire(r) \/ Relay(r)
        PROVE  LockInv'
    BY <1>5 DEF Expire, Relay, To, Holds
  <1>6. CASE Hijack
    BY <1>6 DEF Hijack, Holds
  <1>7. ASSUME NEW f \in DOMAIN flows, Addon(f)
        PROVE  LockInv'
    BY <1>7, AddonKeeps DEF Holds
  <1>8. CASE Elsewhere
    BY <1>8 DEF Elsewhere, Holds
  <1> QED
    BY <1>1, <1>2, <1>3, <1>4, <1>5, <1>6, <1>7, <1>8, NextCases DEF Call

\* The slot, if it is filled, is filled by the one call the CLI can still answer,
\* and the response channel is that of the same call.
LEMMA SlotStep ==
  ASSUME WorkerInv, [Next]_vars
  PROVE  SlotInv'
  <1> USE DEF WorkerInv, TypeOK, LockInv, SlotInv, FlowInv, InFlight
  <1>1. ASSUME NEW r \in Calls, ReadRequest(r)
        PROVE  SlotInv'
    BY <1>1 DEF ReadRequest, To, ptyVars
  <1>2. ASSUME NEW r \in Calls, Begin(r)
        PROVE  SlotInv'
    <2>1. /\ pending' = r /\ response' = r /\ flows' = flows
          /\ \A f \in DOMAIN flows : flows[f].body # r
      BY <1>2 DEF Begin
    <2>2. InFlight(r)' \/ phase'[r] = "failed"
      <3>1. CASE TriggerFails(r)
        BY <3>1 DEF TriggerFails, To
      <3>2. CASE To(r, "repaint") \/ To(r, "waiting")
        BY <3>2 DEF To
      <3> QED
        BY <1>2, <3>1, <3>2 DEF Begin
    <2> QED
      BY <2>1, <2>2
  <1>3. ASSUME NEW r \in Calls, Repainted(r)
        PROVE  SlotInv'
    <2>1. CASE TriggerFails(r)
      BY <1>3, <2>1 DEF Repainted, TriggerFails, To, ptyVars
    <2>2. CASE To(r, "waiting")
      BY <1>3, <2>2 DEF Repainted, TriggerFails, To, ptyVars
    <2> QED
      BY <1>3, <2>1, <2>2 DEF Repainted, TriggerFails
  <1>4. ASSUME NEW r \in Calls, Hijacked(r)
        PROVE  SlotInv'
    <2>1. response = r /\ \E f \in DOMAIN flows : flows[f].body = r
      BY <1>4 DEF Hijacked
    <2>2. pending = Nil
      BY <2>1
    <2> QED
      BY <1>4, <2>2 DEF Hijacked
  <1>5. ASSUME NEW r \in Calls, Expire(r) \/ Relay(r)
        PROVE  SlotInv'
    BY <1>5 DEF Expire, Relay, To, ptyVars
  <1>6. ASSUME NEW r \in Calls, GiveUp(r)
        PROVE  SlotInv'
    BY <1>6 DEF GiveUp
  <1>7. CASE Hijack
    BY <1>7 DEF Hijack
  <1>8. ASSUME NEW f \in DOMAIN flows, Addon(f)
        PROVE  SlotInv'
    BY <1>8, AddonKeeps
  <1>9. CASE Elsewhere
    BY <1>9 DEF Elsewhere
  <1> QED
    BY <1>1, <1>2, <1>3, <1>4, <1>5, <1>6, <1>7, <1>8, <1>9, NextCases DEF Call

-----------------------------------------------------------------------------
(* The flows and the channels.                                             *)

\* No call goes back to before its flow could exist.
LEMMA PhaseForward ==
  ASSUME WorkerInv, [Next]_vars, NEW s \in Calls, phase[s] \notin {"idle", "locked"}
  PROVE  phase'[s] \notin {"idle", "locked"}
  <1>1. ASSUME NEW r \in Calls, Call(r)
        PROVE  phase'[s] \notin {"idle", "locked"}
    BY <1>1 DEF WorkerInv, TypeOK, Call, ReadRequest, Begin, Repainted, Hijacked,
       Expire, GiveUp, Relay, TriggerFails, To
  <1>2. CASE Hijack
    BY <1>2 DEF Hijack
  <1> QED
    BY <1>1, <1>2, NextCases, AddonKeeps DEF Elsewhere, WorkerInv

\* A call's own steps touch no flow.
LEMMA CallKeepsFlows ==
  ASSUME NEW r \in Calls, Call(r)
  PROVE  UNCHANGED <<flows, consumed>>
  BY DEF Call, ReadRequest, Begin, Repainted, Hijacked, Expire, GiveUp, Relay

\* A hijack: the new flow is the first with the body of the call in the slot, and
\* writes to the channel of that call.
LEMMA HijackPairs ==
  ASSUME WorkerInv, Hijack
  PROVE  /\ pending \in Calls /\ (InFlight(pending) \/ phase[pending] = "failed")
         /\ Len(flows') = Len(flows) + 1
         /\ \A f \in DOMAIN flows : flows'[f] = flows[f] /\ flows[f].body # pending
         /\ flows'[Len(flows) + 1].body = pending
         /\ flows'[Len(flows) + 1].chan = pending
         /\ ~flows'[Len(flows) + 1].closed
  <1>1. /\ pending \in Calls /\ response = pending
        /\ InFlight(pending) \/ phase[pending] = "failed"
    BY DEF WorkerInv, TypeOK, SlotInv, Hijack
  <1>2. \A f \in DOMAIN flows : flows[f].body # pending
    BY DEF WorkerInv, SlotInv, Hijack
  <1> DEFINE new == [body |-> pending, chan |-> response, state |-> "open",
                     tapped |-> FALSE, sent |-> FALSE, closed |-> FALSE]
  <1>3. new.body = pending /\ new.chan = pending /\ ~new.closed
    BY <1>1
  <1>4. flows' = Append(flows, new) /\ flows \in Seq(Flow)
    BY DEF Hijack, WorkerInv, TypeOK
  <1> HIDE DEF new
  <1>5. Len(flows') = Len(flows) + 1 /\ flows'[Len(flows) + 1] = new
    BY <1>4
  <1>6. \A f \in DOMAIN flows : flows'[f] = flows[f]
    BY <1>4
  <1> QED
    BY <1>1, <1>2, <1>3, <1>5, <1>6

\* One flow at most has the body of a call, it writes to that call's channel, and
\* a call whose event is set has one.
LEMMA FlowStep ==
  ASSUME WorkerInv, TypeOK', [Next]_vars
  PROVE  FlowInv'
  <1> USE DEF FlowInv
  <1>t. flows \in Seq(Flow) /\ flows' \in Seq(Flow) /\ FlowInv
    BY DEF WorkerInv, TypeOK
  <1>b. \A f \in DOMAIN flows : flows[f] \in Flow
    BY <1>t
  <1>0. /\ \A f \in DOMAIN flows : flows[f].body \in Calls
        /\ flows \in Seq(Flow) /\ flows' \in Seq(Flow) /\ FlowInv
    BY <1>t, <1>b DEF Flow
  <1>1. ASSUME NEW r \in Calls, Call(r)
        PROVE  FlowInv'
    BY <1>0, <1>1, CallKeepsFlows, PhaseForward
  <1>2. CASE Hijack
    <2>1. /\ DOMAIN flows' = DOMAIN flows \cup {Len(flows) + 1}
          /\ Len(flows) + 1 \notin DOMAIN flows
      BY <1>0, <1>2, HijackPairs
    <2>2. phase' = phase /\ consumed' = consumed \cup {pending}
      BY <1>2 DEF Hijack
    <2>3. phase[pending] \notin {"idle", "locked"}
      BY <1>2, HijackPairs DEF InFlight
    <2> QED
      BY <1>0, <1>2, <2>1, <2>2, <2>3, HijackPairs
  <1>3. ASSUME NEW f \in DOMAIN flows, Addon(f)
        PROVE  FlowInv'
    BY <1>0, <1>3, AddonKeeps DEF WorkerInv
  <1>4. CASE Elsewhere
    BY <1>0, <1>4 DEF Elsewhere
  <1> QED
    BY <1>1, <1>2, <1>3, <1>4, NextCases DEF WorkerInv

\* Flows are not taken back, and keep their bodies and channels.
LEMMA MirrorsKept ==
  ASSUME WorkerInv, [Next]_vars, NEW f, NEW r, Mirrors(f, r)
  PROVE  Mirrors(f, r)'
  <1>1. ASSUME NEW s \in Calls, Call(s)
        PROVE  Mirrors(f, r)'
    BY <1>1, CallKeepsFlows DEF Mirrors
  <1>2. CASE Hijack
    <2>1. DOMAIN flows \subseteq DOMAIN flows'
      BY <1>2, HijackPairs DEF WorkerInv, TypeOK, Hijack
    <2> QED
      BY <1>2, <2>1, HijackPairs DEF Mirrors
  <1>3. ASSUME NEW g \in DOMAIN flows, Addon(g)
        PROVE  Mirrors(f, r)'
    BY <1>3, AddonKeeps DEF Mirrors, WorkerInv
  <1>4. CASE Elsewhere
    BY <1>4 DEF Elsewhere, Mirrors
  <1> QED
    BY <1>1, <1>2, <1>3, <1>4, NextCases DEF WorkerInv

\* What a step may do to the channel of a call: nothing; append something of a
\* flow that mirrors into it, or the end; or take its first item out.
Same(r) == chan'[r] = chan[r] /\ got'[r] = got[r]

Adds(r, x) ==
  /\ got'[r] = got[r]
  /\ chan'[r] = Append(chan[r], x)
  /\ x = EOS \/ Mirrors(x, r)

Reads(r) ==
  /\ chan[r] # <<>> /\ chan'[r] = Tail(chan[r])
  /\ \/ Head(chan[r]) = EOS /\ got'[r] = got[r] /\ phase'[r] = "done"
     \/ Head(chan[r]) # EOS /\ got'[r] = got[r] \cup {Head(chan[r])}

\* No step does anything else to it.
LEMMA ChannelStep ==
  ASSUME WorkerInv, [Next]_vars, NEW r \in Calls
  PROVE  Same(r) \/ Reads(r) \/ \E x : Adds(r, x)
  <1> USE DEF WorkerInv, TypeOK
  <1>1. ASSUME NEW s \in Calls, Relay(s)
        PROVE  Same(r) \/ Reads(r)
    <2>1. CASE s = r
      BY <1>1, <2>1 DEF Relay, To, Reads
    <2>2. CASE s # r
      BY <1>1, <2>2 DEF Relay, Same
    <2> QED
      BY <2>1, <2>2
  <1>2. ASSUME NEW s \in Calls, GiveUp(s)
        PROVE  Same(r) \/ Adds(r, EOS)
    BY <1>2 DEF GiveUp, Put, Same, Adds
  <1>3. ASSUME NEW s \in Calls,
               ReadRequest(s) \/ Begin(s) \/ Repainted(s) \/ Hijacked(s) \/ Expire(s)
        PROVE  Same(r)
    BY <1>3 DEF ReadRequest, Begin, Repainted, Hijacked, Expire, Same
  <1>4. CASE Hijack
    BY <1>4 DEF Hijack, Same
  <1>5. ASSUME NEW f \in DOMAIN flows, Addon(f)
        PROVE  Same(r) \/ Adds(r, f) \/ Adds(r, EOS)
    <2>1. got' = got
      BY <1>5, AddonKeeps
    <2>2. \/ chan' = chan
          \/ chan' = Put(flows[f].chan, f)
          \/ chan' = Put(flows[f].chan, EOS)
      BY <1>5, AddonStep
    <2>3. CASE flows[f].chan = r
      BY <2>1, <2>2, <2>3 DEF Put, Same, Adds, Mirrors
    <2>4. CASE flows[f].chan # r
      BY <2>1, <2>2, <2>4 DEF Put, Same
    <2> QED
      BY <2>3, <2>4
  <1>6. CASE Elsewhere
    BY <1>6 DEF Elsewhere, Same
  <1> QED
    BY <1>1, <1>2, <1>3, <1>4, <1>5, <1>6, NextCases DEF Call

\* What is in a channel or went out under a call's id is of a flow that mirrors
\* into that channel.
LEMMA ChanStep ==
  ASSUME WorkerInv, TypeOK', [Next]_vars
  PROVE  ChanInv'
  <1> SUFFICES ASSUME NEW r \in Calls
               PROVE  /\ \A i \in DOMAIN chan'[r] :
                           chan'[r][i] # EOS =>
                             /\ chan'[r][i] \in DOMAIN flows'
                             /\ flows'[chan'[r][i]].chan = r
                      /\ \A f \in got'[r] : f \in DOMAIN flows' /\ flows'[f].chan = r
    BY DEF ChanInv, Mirrors
  <1> DEFINE Good(f) == f \in DOMAIN flows' /\ flows'[f].chan = r
  <1>1. /\ \A i \in DOMAIN chan[r] : chan[r][i] # EOS => Mirrors(chan[r][i], r)
        /\ \A f \in got[r] : Mirrors(f, r)
        /\ chan[r] \in Seq(FlowIds \cup {EOS})
    BY DEF WorkerInv, ChanInv, TypeOK
  <1>2. \A f : Mirrors(f, r) => Good(f)
    BY MirrorsKept DEF Mirrors
  <1> HIDE DEF Good
  <1>3. ASSUME NEW x, Adds(r, x)
        PROVE  \A i \in DOMAIN chan'[r] : chan'[r][i] # EOS => Good(chan'[r][i])
    BY <1>1, <1>2, <1>3 DEF Adds
  <1>4. ASSUME Reads(r)
        PROVE  /\ \A i \in DOMAIN chan'[r] : chan'[r][i] # EOS => Good(chan'[r][i])
               /\ Head(chan[r]) # EOS => Good(Head(chan[r]))
    BY <1>1, <1>2, <1>4 DEF Reads
  <1>5. /\ \A i \in DOMAIN chan'[r] : chan'[r][i] # EOS => Good(chan'[r][i])
        /\ \A f \in got'[r] : Good(f)
    BY <1>1, <1>2, <1>3, <1>4, ChannelStep DEF Same, Adds, Reads
  <1> QED
    BY <1>5 DEF Good

-----------------------------------------------------------------------------
(* Ends, and the theorems.                                                 *)

\* An end in a channel stays there until the call reads it.
LEMMA EndStays ==
  ASSUME WorkerInv, [Next]_vars, NEW r \in Calls, HasEnd(chan[r]), phase'[r] # "done"
  PROVE  HasEnd(chan'[r])
  <1>1. PICK i \in DOMAIN chan[r] : chan[r][i] = EOS
    BY DEF HasEnd
  <1>2. chan[r] \in Seq(FlowIds \cup {EOS})
    BY DEF WorkerInv, TypeOK
  <1>3. CASE Same(r)
    BY <1>1, <1>3 DEF Same, HasEnd
  <1>4. CASE \E x : Adds(r, x)
    <2>1. i \in DOMAIN chan'[r] /\ chan'[r][i] = EOS
      BY <1>1, <1>2, <1>4 DEF Adds
    <2> QED
      BY <2>1 DEF HasEnd
  <1>5. CASE Reads(r)
    <2>1. i # 1
      BY <1>1, <1>2, <1>5 DEF Reads
    <2>2. i - 1 \in DOMAIN chan'[r] /\ chan'[r][i - 1] = EOS
      BY <1>1, <1>2, <1>5, <2>1 DEF Reads
    <2> QED
      BY <2>2 DEF HasEnd
  <1> QED
    BY <1>3, <1>4, <1>5, ChannelStep

\* A flow that is not closed keeps its channel closable, and closing it ends it.
LEMMA ClosableStays ==
  ASSUME WorkerInv, [Next]_vars, NEW r \in Calls, Closable(r), phase'[r] # "done"
  PROVE  Closable(r)'
  <1>0. /\ chan \in [Calls -> Seq(FlowIds \cup {EOS})]
        /\ chan[r] \in Seq(FlowIds \cup {EOS}) /\ flows \in Seq(Flow)
    BY DEF WorkerInv, TypeOK
  <1>1. CASE HasEnd(chan[r])
    BY <1>1, EndStays DEF Closable
  <1>2. ASSUME NEW f \in DOMAIN flows, flows[f].chan = r, ~flows[f].closed
        PROVE  Closable(r)'
    <2>1. CASE flows' = flows
      BY <1>2, <2>1 DEF Closable
    <2>2. CASE Hijack
      <3>1. f \in DOMAIN flows' /\ flows'[f] = flows[f]
        BY <1>0, <1>2, <2>2, HijackPairs DEF Hijack
      <3> QED
        BY <1>2, <3>1 DEF Closable
    <2>3. ASSUME NEW g \in DOMAIN flows, Addon(g)
          PROVE  Closable(r)'
      <3>0. TypeOK
        BY DEF WorkerInv
      <3>1. PICK e \in Flow :
              /\ flows' = [flows EXCEPT ![g] = e]
              /\ e.chan = flows[g].chan
              /\ \/ e.closed => flows[g].closed
                 \/ chan' = Put(flows[g].chan, EOS)
        BY <2>3, <3>0, AddonStep
      <3>2. CASE g # f
        <4>1. f \in DOMAIN flows' /\ flows'[f] = flows[f]
          BY <1>0, <3>1, <3>2
        <4> QED
          BY <1>2, <4>1 DEF Closable
      <3>3. CASE g = f /\ (e.closed => flows[g].closed)
        <4>1. f \in DOMAIN flows' /\ flows'[f].chan = r /\ ~flows'[f].closed
          BY <1>0, <1>2, <3>1, <3>3
        <4> QED
          BY <4>1 DEF Closable
      <3>4. CASE g = f /\ chan' = Put(flows[g].chan, EOS)
        <4>1. chan'[r] = Append(chan[r], EOS)
          BY <1>0, <1>2, <3>4 DEF Put
        <4>2. Len(chan[r]) + 1 \in DOMAIN chan'[r] /\ chan'[r][Len(chan[r]) + 1] = EOS
          BY <1>0, <4>1
        <4> QED
          BY <4>2 DEF Closable, HasEnd
      <3> QED
        BY <3>1, <3>2, <3>3, <3>4
    <2> QED
      BY <2>1, <2>2, <2>3, NextCases, CallKeepsFlows DEF Elsewhere, WorkerInv
  <1> QED
    BY <1>1, <1>2 DEF Closable

\* A call that reads, or whose event is set, has an end or a flow that will end it.
LEMMA CloserStep ==
  ASSUME WorkerInv, [Next]_vars
  PROVE  CloserInv'
  <1> SUFFICES ASSUME NEW r \in Calls, phase'[r] # "done",
                      phase'[r] = "reading" \/ r \in consumed'
               PROVE  Closable(r)'
    BY DEF CloserInv
  <1> USE DEF WorkerInv, TypeOK
  <1>0. phase[r] # "done"
    <2>1. ASSUME NEW s \in Calls, Call(s)
          PROVE  phase[r] = "done" => phase'[r] = "done"
      BY <2>1 DEF Call, ReadRequest, Begin, Repainted, Hijacked, Expire, GiveUp,
         Relay, TriggerFails, To
    <2> QED
      BY <2>1, NextCases, AddonKeeps DEF Hijack, Elsewhere
  <1>1. CASE phase[r] = "reading" \/ r \in consumed
    BY <1>0, <1>1, ClosableStays DEF CloserInv
  <1>2. CASE phase[r] # "reading" /\ r \notin consumed
    <2>1. CASE Hijack
      <3>1. r = pending
        BY <1>2, <2>1 DEF Hijack
      <3>2. DOMAIN flows' = 1 .. Len(flows) + 1
        BY <2>1, HijackPairs DEF Hijack
      <3>3. Len(flows) + 1 \in DOMAIN flows'
        BY <3>2
      <3> QED
        BY <2>1, <3>1, <3>3, HijackPairs DEF Closable
    <2>2. ASSUME NEW s \in Calls, Call(s)
          PROVE  Closable(r)'
      <3>1. consumed' = consumed /\ phase'[r] = "reading"
        BY <1>2, <2>2, CallKeepsFlows
      <3>2. GiveUp(r)
        BY <1>2, <2>2, <3>1 DEF Call, ReadRequest, Begin, Repainted, Hijacked,
           Expire, GiveUp, Relay, TriggerFails, To
      <3>3. chan'[r] = Append(chan[r], EOS)
        BY <3>2 DEF GiveUp, Put, LockInv, InFlight
      <3>4. Len(chan[r]) + 1 \in DOMAIN chan'[r] /\ chan'[r][Len(chan[r]) + 1] = EOS
        BY <3>3
      <3> QED
        BY <3>4 DEF Closable, HasEnd
    <2>3. UNCHANGED <<phase, consumed>> => FALSE
      BY <1>2
    <2> QED
      BY <2>1, <2>2, <2>3, NextCases, AddonKeeps DEF Elsewhere
  <1> QED
    BY <1>1, <1>2

\* The start satisfies all of it.
LEMMA InitInv == Init => WorkerInv
  <1> SUFFICES ASSUME Init
               PROVE  WorkerInv
    OBVIOUS
  <1>1. PtyTypeOK
    BY DEF Init, PtyInit, PtyTypeOK
  <1>2. TypeOK
    <2>1. /\ lockq \in Seq(Calls) /\ flows \in Seq(Flow) /\ Len(flows) <= MAX_FLOWS
          /\ active \in 0 .. Len(flows)
      BY WorkerAssumption DEF Init
    <2>2. /\ phase \in [Calls -> Phases]
          /\ chan \in [Calls -> Seq(FlowIds \cup {EOS})]
          /\ got \in [Calls -> SUBSET FlowIds]
          /\ out \in [Calls -> {"none", "open", "bytes", "empty", "ended"}]
      BY DEF Init, Phases
    <2>3. /\ pending \in Calls \cup {Nil} /\ response \in Calls \cup {Nil}
          /\ consumed \subseteq Calls /\ reported \subseteq {"current", "past"}
      BY DEF Init
    <2>4. probing \in BOOLEAN
      BY DEF Init
    <2> QED
      BY <1>1, <2>1, <2>2, <2>3, <2>4 DEF TypeOK
  <1>3. LockInv /\ SlotInv
    BY DEF Init, LockInv, SlotInv, InFlight
  <1>4. FlowInv /\ ChanInv /\ CloserInv
    BY DEF Init, FlowInv, ChanInv, CloserInv
  <1> QED
    BY <1>2, <1>3, <1>4 DEF WorkerInv

\* The invariant is inductive.
LEMMA StepInv == WorkerInv /\ [Next]_vars => WorkerInv'
  <1> SUFFICES ASSUME WorkerInv, [Next]_vars
               PROVE  WorkerInv'
    OBVIOUS
  <1>1. TypeOK'
    <2>1. CASE Terminal /\ UNCHANGED workerVars
      BY <2>1, TerminalStep DEF WorkerInv, TypeOK, workerVars
    <2>2. CASE UNCHANGED vars
      BY <2>2 DEF WorkerInv, TypeOK, PtyTypeOK, vars, ptyVars, workerVars
    <2> QED
      BY <2>1, <2>2, CallType, AddonType DEF WorkerInv, Next
  <1> QED
    BY <1>1, LockStep, SlotStep, FlowStep, ChanStep, CloserStep DEF WorkerInv

\* Types and the pairing of slot, flow and channel, in every state of every run.
THEOREM Invariance == Spec => []WorkerInv
  BY InitInv, StepInv, PTL DEF Spec

-----------------------------------------------------------------------------
\* Types, for any number of calls, flows and screens.
THEOREM TypeCorrect == Spec => []TypeOK
  <1>1. WorkerInv => TypeOK
    BY DEF WorkerInv
  <1> QED
    BY <1>1, Invariance, PTL

\* What goes to stdout under a call's id (worker.py:253) comes from the flow
\* that carried its body, and no body is sent upstream twice.
THEOREM RepliesOwn == Spec => []OwnReply
  <1>1. WorkerInv => OwnReply
    BY DEF WorkerInv, FlowInv, ChanInv, Mirrors, OwnReply
  <1> QED
    BY <1>1, Invariance, PTL

\* A call that reads its channel has its end there or a flow whose watchdog will
\* put one (addon.py:224), whatever lost the tap or met the timeout.
THEOREM CloserExists == Spec => []AlwaysACloser
  <1>1. WorkerInv => AlwaysACloser
    BY DEF WorkerInv, CloserInv, Closable, HasEnd, AlwaysACloser
  <1> QED
    BY <1>1, Invariance, PTL

\* No call of the CLI, however late and whether or not it is still alive, takes the
\* body of a call that has had its response or its intercept timeout.
THEOREM LateCallsHarmless == Spec => NeverSentLate
  <1>1. WorkerInv /\ [Next]_vars =>
          [Hijack => phase[pending] \notin {"reading", "done"}]_vars
    <2> SUFFICES ASSUME WorkerInv, Hijack
                 PROVE  phase[pending] \notin {"reading", "done"}
      OBVIOUS
    <2> QED
      BY HijackPairs DEF InFlight
  <1> QED
    BY <1>1, Invariance, PTL DEF Spec, NeverSentLate
=============================================================================
