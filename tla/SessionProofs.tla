---------------------------- MODULE SessionProofs ----------------------------
(***************************************************************************)
(* Proofs about Session, for any number of callers and restarts.           *)
(***************************************************************************)
EXTENDS Session, TLAPS

-----------------------------------------------------------------------------
(* Leaving the queue of the lock.                                          *)

\* A queue that a task left is still a queue.
LEMMA WithoutSeq ==
  ASSUME NEW S, NEW q \in Seq(S), NEW t
  PROVE  Without(q, t) \in Seq(S)
<1>1. CASE \E i \in DOMAIN q : q[i] = t
  <2> DEFINE k == CHOOSE i \in DOMAIN q : q[i] = t
  <2> DEFINE r == [j \in 1 .. Len(q) - 1 |-> IF j < k THEN q[j] ELSE q[j + 1]]
  <2>1. Without(q, t) = r
    BY <1>1 DEF Without
  <2>2. k \in 1 .. Len(q)
    BY <1>1
  <2>3. Len(q) - 1 \in Nat
    BY <2>2
  <2>4. \A j \in 1 .. Len(q) - 1 : r[j] \in S
    BY <2>2
  <2> HIDE DEF k
  <2>5. r \in [1 .. Len(q) - 1 -> S]
    BY <2>4
  <2> QED BY <2>1, <2>3, <2>5
<1>2. CASE ~ \E i \in DOMAIN q : q[i] = t
  BY <1>2 DEF Without
<1> QED BY <1>1, <1>2

\* Another task leaving the queue does not take the lock from its holder.
LEMMA WithoutHead ==
  ASSUME NEW S, NEW q \in Seq(S), NEW t, q # <<>>, Head(q) # t
  PROVE  Without(q, t) # <<>> /\ Head(Without(q, t)) = Head(q)
<1>1. CASE \E i \in DOMAIN q : q[i] = t
  <2> DEFINE k == CHOOSE i \in DOMAIN q : q[i] = t
  <2> DEFINE r == [j \in 1 .. Len(q) - 1 |-> IF j < k THEN q[j] ELSE q[j + 1]]
  <2>1. Without(q, t) = r
    BY <1>1 DEF Without
  <2>2. k \in 1 .. Len(q) /\ q[k] = t
    BY <1>1
  <2>3. k # 1
    BY <2>2
  <2> HIDE DEF k
  <2>4. Len(q) - 1 \in Nat /\ Len(q) - 1 >= 1
    BY <2>2, <2>3
  <2>5. r[1] = q[1]
    BY <2>2, <2>3, <2>4
  <2>6. r \in Seq(S)
    BY <2>1, WithoutSeq
  <2>7. DOMAIN r = 1 .. Len(q) - 1
    OBVIOUS
  <2> HIDE DEF r
  <2>8. 1 \in DOMAIN r
    BY <2>4, <2>7
  <2>9. r # <<>> /\ Head(r) = r[1]
    BY <2>6, <2>8
  <2>10. Head(q) = q[1]
    OBVIOUS
  <2> QED BY <2>1, <2>5, <2>9, <2>10
<1>2. CASE ~ \E i \in DOMAIN q : q[i] = t
  BY <1>2 DEF Without
<1> QED BY <1>1, <1>2

\* A task joining the queue leaves the holder where it is.
LEMMA AppendHead ==
  ASSUME NEW S, NEW q \in Seq(S), NEW t \in S
  PROVE  /\ Append(q, t) \in Seq(S)
         /\ q # <<>> => Append(q, t) # <<>> /\ Head(Append(q, t)) = Head(q)
  OBVIOUS

\* A release leaves a queue.
LEMMA TailSeq ==
  ASSUME NEW S, NEW q \in Seq(S), q # <<>>
  PROVE  Tail(q) \in Seq(S)
  OBVIOUS

-----------------------------------------------------------------------------
(* Types, one end per channel, and the lock.                               *)

\* The set every step's tasks come from.
LEMMA TaskTypes ==
  /\ Callers \subseteq Tasks /\ Ops \subseteq Tasks /\ Restarters \subseteq Tasks
  /\ {"keepalive", "force", "probe", "retire"} \subseteq Tasks
  /\ Callers \subseteq Channels /\ Ops \subseteq Channels /\ "keepalive" \in Channels
  /\ "retire" \notin Restarters /\ "retire" \notin Callers
  /\ "keepalive" \notin Restarters /\ "keepalive" \notin Callers
  BY SessionAssumption DEF Tasks, Restarters, Channels

Inv == TypeOK /\ ChannelInv /\ LockInv

\* A channel just opened.
LEMMA NewTyped == NewChannel \in Channel
  BY DEF NewChannel, Channel

\* Initially.
LEMMA InvInit == Init => Inv
<1> SUFFICES ASSUME Init PROVE Inv
  OBVIOUS
<1>1. lockq \in Seq(Tasks)
  BY DEF Init
<1>2. TypeOK
  <2>1. pc \in [Tasks -> Places]
    BY DEF Init, Places
  <2>2. chan \in [Channels -> Channel]
    BY NewTyped DEF Init
  <2>3. failures \in 0 .. THRESHOLD
    BY SessionAssumption DEF Init
  <2> QED BY <1>1, <2>1, <2>2, <2>3 DEF Init, TypeOK
<1>3. ChannelInv /\ LockInv
  BY <1>2 DEF Init, ChannelInv, LockInv, TypeOK
<1> QED BY <1>2, <1>3 DEF Inv

\* Flushing the table gives each of its channels its one end.
LEMMA FlushTyped == Inv => Flushed \in [Channels -> Channel]
<1> SUFFICES ASSUME Inv PROVE Flushed \in [Channels -> Channel]
  OBVIOUS
<1>1. ASSUME NEW c \in Channels PROVE Flushed[c] \in Channel
  <2>1. CASE c \in registered
    <3>1. chan[c] \in Channel /\ chan[c].nulls = 0
      BY <2>1 DEF Inv, TypeOK, ChannelInv
    <3>2. chan[c].data \in BOOLEAN
      BY <3>1 DEF Channel
    <3>3. Flushed[c] = [data |-> chan[c].data, nulls |-> chan[c].nulls + 1,
                        by |-> "flush"]
      BY <2>1 DEF Flushed
    <3> QED BY <3>1, <3>2, <3>3 DEF Channel
  <2>2. CASE c \notin registered
    BY <2>2 DEF Inv, TypeOK, Flushed
  <2> QED BY <2>1, <2>2
<1> QED BY <1>1 DEF Flushed

\* No step puts a second end on a channel, or takes the lock from its holder.
LEMMA InvStep == Inv /\ [Next]_vars => Inv'
<1> SUFFICES ASSUME Inv, [Next]_vars PROVE Inv'
  OBVIOUS
<1> USE TaskTypes
<1>a. THRESHOLD \in Nat /\ THRESHOLD >= 1
  BY SessionAssumption
<1>1. ASSUME NEW c \in Callers, Call(c) PROVE Inv'
  <2>1. TypeOK'
    BY <1>1, AppendHead DEF Inv, TypeOK, LockInv, Holds, Channel, Places,
       Call, Queue
  <2>2. ChannelInv'
    BY <1>1 DEF Inv, TypeOK, ChannelInv, Channel, Call, Queue
  <2>3. LockInv'
    BY <1>1, AppendHead DEF Inv, TypeOK, LockInv, Holds, Places, Call, Queue
  <2> QED BY <2>1, <2>2, <2>3 DEF Inv
<1>2. ASSUME NEW c \in Callers, Submit(c) PROVE Inv'
  <2>1. TypeOK'
    <3>1. lockq' \in Seq(Tasks)
      BY <1>2, TailSeq DEF Inv, TypeOK, LockInv, Holds, Submit, Accepted,
         Written, Refused, Registers, NewChannel
    <3>2. pc' \in [Tasks -> Places]
      BY <1>2 DEF Inv, TypeOK, Places, Submit, Accepted, Written, Refused,
         Registers, NewChannel
    <3>3. chan' \in [Channels -> Channel]
      BY <1>2, NewTyped DEF Inv, TypeOK, ChannelInv, Channel, Submit,
         Accepted, Written, Refused, Registers
    <3>4. /\ registered' \in SUBSET Channels /\ owed' \in SUBSET Channels
          /\ proc' \in {"starting", "up", "exited", "reaped"} /\ reader' \in BOOLEAN
          /\ forcing' \in BOOLEAN
      BY <1>2 DEF Inv, TypeOK, Submit, Accepted, Written, Refused,
         Registers, NewChannel
    <3>5. failures' \in 0 .. THRESHOLD
      BY <1>2, <1>a DEF Inv, TypeOK, Submit, Accepted, Written, Refused,
         Registers, NewChannel
    <3> QED BY <3>1, <3>2, <3>3, <3>4, <3>5 DEF TypeOK
  <2>2. ChannelInv'
    BY <1>2 DEF Inv, TypeOK, ChannelInv, Channel, Submit, Accepted,
       Written, Refused, Registers, NewChannel
  <2>3. LockInv'
    BY <1>2 DEF Inv, TypeOK, LockInv, Holds, Places, Submit, Accepted,
       Written, Refused, Registers, NewChannel
  <2> QED BY <2>1, <2>2, <2>3 DEF Inv
<1>3. ASSUME NEW c \in Callers, FirstByte(c) PROVE Inv'
  <2>1. TypeOK'
    BY <1>3, <1>a DEF Inv, TypeOK, LockInv, Holds, Channel, Places, FirstByte
  <2>2. ChannelInv'
    BY <1>3 DEF Inv, TypeOK, ChannelInv, Channel, FirstByte
  <2>3. LockInv'
    BY <1>3 DEF Inv, TypeOK, LockInv, Holds, Places, FirstByte
  <2> QED BY <2>1, <2>2, <2>3 DEF Inv
<1>4. ASSUME NEW c \in Callers, StreamEnd(c) PROVE Inv'
  <2>1. TypeOK'
    BY <1>4 DEF Inv, TypeOK, LockInv, Holds, Channel, Places, StreamEnd
  <2>2. ChannelInv'
    BY <1>4 DEF Inv, TypeOK, ChannelInv, Channel, StreamEnd
  <2>3. LockInv'
    BY <1>4 DEF Inv, TypeOK, LockInv, Holds, Places, StreamEnd
  <2> QED BY <2>1, <2>2, <2>3 DEF Inv
<1>5. ASSUME NEW c \in Callers, EmptyReply(c) PROVE Inv'
  <2>1. TypeOK'
    BY <1>5, <1>a DEF Inv, TypeOK, LockInv, Holds, Channel, Places,
       EmptyReply, CountFailure
  <2>2. ChannelInv'
    BY <1>5 DEF Inv, TypeOK, ChannelInv, Channel, EmptyReply, CountFailure
  <2>3. LockInv'
    BY <1>5 DEF Inv, TypeOK, LockInv, Holds, Places, EmptyReply, CountFailure
  <2> QED BY <2>1, <2>2, <2>3 DEF Inv
<1>6. ASSUME NEW c \in Channels, Chunk(c) PROVE Inv'
  <2>1. TypeOK'
    BY <1>6 DEF Inv, TypeOK, LockInv, Holds, Channel, Places, Chunk
  <2>2. ChannelInv'
    BY <1>6 DEF Inv, TypeOK, ChannelInv, Channel, Chunk
  <2>3. LockInv'
    BY <1>6 DEF Inv, TypeOK, LockInv, Holds, Places, Chunk
  <2> QED BY <2>1, <2>2, <2>3 DEF Inv
<1>7. ASSUME NEW c \in Channels, End(c) PROVE Inv'
  <2>1. TypeOK'
    <3>1. lockq' \in Seq(Tasks)
      BY <1>7 DEF Inv, TypeOK, LockInv, Holds, End
    <3>2. pc' \in [Tasks -> Places]
      BY <1>7 DEF Inv, TypeOK, Places, End
    <3>3. chan' \in [Channels -> Channel]
      BY <1>7 DEF Inv, TypeOK, ChannelInv, Channel, End
    <3>4. /\ registered' \in SUBSET Channels /\ owed' \in SUBSET Channels
          /\ proc' \in {"starting", "up", "exited", "reaped"} /\ reader' \in BOOLEAN
          /\ forcing' \in BOOLEAN
      BY <1>7 DEF Inv, TypeOK, End
    <3>5. failures' \in 0 .. THRESHOLD
      BY <1>7, <1>a DEF Inv, TypeOK, End
    <3> QED BY <3>1, <3>2, <3>3, <3>4, <3>5 DEF TypeOK
  <2>2. ChannelInv'
    BY <1>7 DEF Inv, TypeOK, ChannelInv, Channel, End
  <2>3. LockInv'
    BY <1>7 DEF Inv, TypeOK, LockInv, Holds, Places, End
  <2> QED BY <2>1, <2>2, <2>3 DEF Inv
<1>8. CASE Crash
  <2>1. TypeOK'
    BY <1>8 DEF Inv, TypeOK, LockInv, Holds, Channel, Places, Crash
  <2>2. ChannelInv'
    BY <1>8 DEF Inv, TypeOK, ChannelInv, Channel, Crash
  <2>3. LockInv'
    BY <1>8 DEF Inv, TypeOK, LockInv, Holds, Places, Crash
  <2> QED BY <2>1, <2>2, <2>3 DEF Inv
<1>9. CASE Reap
  <2>1. TypeOK'
    BY <1>9 DEF Inv, TypeOK, LockInv, Holds, Channel, Places, Reap
  <2>2. ChannelInv'
    BY <1>9 DEF Inv, TypeOK, ChannelInv, Channel, Reap
  <2>3. LockInv'
    BY <1>9 DEF Inv, TypeOK, LockInv, Holds, Places, Reap
  <2> QED BY <2>1, <2>2, <2>3 DEF Inv
<1>10. CASE ReaderEnds
  <2>1. TypeOK'
    BY <1>10, FlushTyped DEF Inv, TypeOK, LockInv, Holds, Channel, Places,
       ReaderEnds
  <2>2. ChannelInv'
    BY <1>10 DEF Inv, TypeOK, ChannelInv, Channel, ReaderEnds, Flushed
  <2>3. LockInv'
    BY <1>10 DEF Inv, TypeOK, LockInv, Holds, Places, ReaderEnds
  <2> QED BY <2>1, <2>2, <2>3 DEF Inv
<1>11. ASSUME NEW o \in Ops, Queue(o, "idle") PROVE Inv'
  <2>1. TypeOK'
    BY <1>11, AppendHead DEF Inv, TypeOK, LockInv, Holds, Channel, Places,
       Queue
  <2>2. ChannelInv'
    BY <1>11 DEF Inv, TypeOK, ChannelInv, Channel, Queue
  <2>3. LockInv'
    BY <1>11, AppendHead DEF Inv, TypeOK, LockInv, Holds, Places, Queue
  <2> QED BY <2>1, <2>2, <2>3 DEF Inv
<1>12. CASE Queue("force", "new")
  <2>1. TypeOK'
    BY <1>12, AppendHead DEF Inv, TypeOK, LockInv, Holds, Channel, Places,
       Queue
  <2>2. ChannelInv'
    BY <1>12 DEF Inv, TypeOK, ChannelInv, Channel, Queue
  <2>3. LockInv'
    BY <1>12, AppendHead DEF Inv, TypeOK, LockInv, Holds, Places, Queue
  <2> QED BY <2>1, <2>2, <2>3 DEF Inv
<1>13. ASSUME NEW t \in Restarters, StopBegin(t) PROVE Inv'
  <2>1. TypeOK'
    BY <1>13, WithoutSeq DEF Inv, TypeOK, LockInv, Holds, Channel, Places,
       StopBegin
  <2>2. ChannelInv'
    BY <1>13 DEF Inv, TypeOK, ChannelInv, Channel, StopBegin
  <2>3. LockInv'
    BY <1>13, WithoutSeq, WithoutHead DEF Inv, TypeOK, LockInv, Holds,
       Places, StopBegin
  <2> QED BY <2>1, <2>2, <2>3 DEF Inv
<1>14. ASSUME NEW t \in Restarters, StopEnd(t) PROVE Inv'
  <2>1. TypeOK'
    <3>1. lockq' \in Seq(Tasks)
      BY <1>14 DEF Inv, TypeOK, LockInv, Holds, StopEnd
    <3>2. pc' \in [Tasks -> Places]
      BY <1>14 DEF Inv, TypeOK, Places, StopEnd
    <3>3. chan' \in [Channels -> Channel]
      BY <1>14, FlushTyped DEF Inv, TypeOK, ChannelInv, Channel, StopEnd
    <3>4. /\ registered' \in SUBSET Channels /\ owed' \in SUBSET Channels
          /\ proc' \in {"starting", "up", "exited", "reaped"} /\ reader' \in BOOLEAN
          /\ forcing' \in BOOLEAN
      BY <1>14 DEF Inv, TypeOK, StopEnd
    <3>5. failures' \in 0 .. THRESHOLD
      BY <1>14, <1>a DEF Inv, TypeOK, StopEnd
    <3> QED BY <3>1, <3>2, <3>3, <3>4, <3>5 DEF TypeOK
  <2>2. ChannelInv'
    BY <1>14 DEF Inv, TypeOK, ChannelInv, Channel, StopEnd, Flushed
  <2>3. LockInv'
    BY <1>14 DEF Inv, TypeOK, LockInv, Holds, Places, StopEnd
  <2> QED BY <2>1, <2>2, <2>3 DEF Inv
<1>15. ASSUME NEW t \in Restarters, Ready(t) PROVE Inv'
  <2>1. TypeOK'
    <3>1. lockq' \in Seq(Tasks)
      BY <1>15, TailSeq DEF Inv, TypeOK, LockInv, Holds, Ready, AfterRestart
    <3>2. pc' \in [Tasks -> Places]
      BY <1>15 DEF Inv, TypeOK, Places, Ready, AfterRestart
    <3>3. chan' \in [Channels -> Channel]
      BY <1>15 DEF Inv, TypeOK, ChannelInv, Channel, Ready, AfterRestart
    <3>4. /\ registered' \in SUBSET Channels /\ owed' \in SUBSET Channels
          /\ proc' \in {"starting", "up", "exited", "reaped"} /\ reader' \in BOOLEAN
          /\ forcing' \in BOOLEAN
      BY <1>15 DEF Inv, TypeOK, Ready, AfterRestart
    <3>5. failures' \in 0 .. THRESHOLD
      BY <1>15, <1>a DEF Inv, TypeOK, Ready, AfterRestart
    <3> QED BY <3>1, <3>2, <3>3, <3>4, <3>5 DEF TypeOK
  <2>2. ChannelInv'
    BY <1>15 DEF Inv, TypeOK, ChannelInv, Channel, Ready, AfterRestart
  <2>3. LockInv'
    BY <1>15 DEF Inv, TypeOK, LockInv, Holds, Places, Ready, AfterRestart
  <2> QED BY <2>1, <2>2, <2>3 DEF Inv
<1>16. ASSUME NEW t \in Restarters, StartFails(t) PROVE Inv'
  <2>1. TypeOK'
    <3>1. lockq' \in Seq(Tasks)
      BY <1>16, TailSeq DEF Inv, TypeOK, LockInv, Holds, StartFails,
         AfterRestart
    <3>2. pc' \in [Tasks -> Places]
      BY <1>16 DEF Inv, TypeOK, Places, StartFails, AfterRestart
    <3>3. chan' \in [Channels -> Channel]
      BY <1>16 DEF Inv, TypeOK, ChannelInv, Channel, StartFails, AfterRestart
    <3>4. /\ registered' \in SUBSET Channels /\ owed' \in SUBSET Channels
          /\ proc' \in {"starting", "up", "exited", "reaped"} /\ reader' \in BOOLEAN
          /\ forcing' \in BOOLEAN
      BY <1>16 DEF Inv, TypeOK, StartFails, AfterRestart
    <3>5. failures' \in 0 .. THRESHOLD
      BY <1>16, <1>a DEF Inv, TypeOK, StartFails, AfterRestart
    <3> QED BY <3>1, <3>2, <3>3, <3>4, <3>5 DEF TypeOK
  <2>2. ChannelInv'
    BY <1>16 DEF Inv, TypeOK, ChannelInv, Channel, StartFails, AfterRestart
  <2>3. LockInv'
    BY <1>16 DEF Inv, TypeOK, LockInv, Holds, Places, StartFails, AfterRestart
  <2> QED BY <2>1, <2>2, <2>3 DEF Inv
<1>17. ASSUME NEW o \in Ops, PrewarmSubmit(o) PROVE Inv'
  <2>1. TypeOK'
    <3>1. lockq' \in Seq(Tasks)
      BY <1>17, TailSeq DEF Inv, TypeOK, LockInv, Holds, Restarters,
         PrewarmSubmit, Accepted, Written, Refused, Registers, NewChannel
    <3>2. pc' \in [Tasks -> Places]
      BY <1>17 DEF Inv, TypeOK, Places, PrewarmSubmit, Accepted, Written,
         Refused, Registers, NewChannel
    <3>3. chan' \in [Channels -> Channel]
      BY <1>17, NewTyped DEF Inv, TypeOK, ChannelInv, Channel,
         PrewarmSubmit, Accepted, Written, Refused, Registers
    <3>4. /\ registered' \in SUBSET Channels /\ owed' \in SUBSET Channels
          /\ proc' \in {"starting", "up", "exited", "reaped"} /\ reader' \in BOOLEAN
          /\ forcing' \in BOOLEAN
      BY <1>17 DEF Inv, TypeOK, PrewarmSubmit, Accepted, Written, Refused,
         Registers, NewChannel
    <3>5. failures' \in 0 .. THRESHOLD
      BY <1>17, <1>a DEF Inv, TypeOK, PrewarmSubmit, Accepted, Written,
         Refused, Registers, NewChannel
    <3> QED BY <3>1, <3>2, <3>3, <3>4, <3>5 DEF TypeOK
  <2>2. ChannelInv'
    BY <1>17 DEF Inv, TypeOK, ChannelInv, Channel, PrewarmSubmit, Accepted,
       Written, Refused, Registers, NewChannel
  <2>3. LockInv'
    BY <1>17 DEF Inv, TypeOK, LockInv, Holds, Places, Restarters,
       PrewarmSubmit, Accepted, Written, Refused, Registers, NewChannel
  <2> QED BY <2>1, <2>2, <2>3 DEF Inv
<1>18. ASSUME NEW o \in Ops, PrewarmEnd(o) PROVE Inv'
  <2>1. TypeOK'
    BY <1>18, TailSeq DEF Inv, TypeOK, LockInv, Holds, Channel, Places,
       Restarters, PrewarmEnd
  <2>2. ChannelInv'
    BY <1>18 DEF Inv, TypeOK, ChannelInv, Channel, PrewarmEnd
  <2>3. LockInv'
    BY <1>18 DEF Inv, TypeOK, LockInv, Holds, Places, Restarters, PrewarmEnd
  <2> QED BY <2>1, <2>2, <2>3 DEF Inv
<1>19. CASE Ping
  <2>1. TypeOK'
    BY <1>19, AppendHead DEF Inv, TypeOK, LockInv, Holds, Channel, Places,
       Ping, Queue
  <2>2. ChannelInv'
    BY <1>19 DEF Inv, TypeOK, ChannelInv, Channel, Ping, Queue
  <2>3. LockInv'
    BY <1>19, AppendHead DEF Inv, TypeOK, LockInv, Holds, Places, Ping, Queue
  <2> QED BY <2>1, <2>2, <2>3 DEF Inv
<1>20. CASE PingSkipped
  <2>1. TypeOK'
    BY <1>20, WithoutSeq DEF Inv, TypeOK, LockInv, Holds, Channel, Places,
       PingSkipped
  <2>2. ChannelInv'
    BY <1>20 DEF Inv, TypeOK, ChannelInv, Channel, PingSkipped
  <2>3. LockInv'
    BY <1>20, WithoutSeq, WithoutHead DEF Inv, TypeOK, LockInv, Holds,
       Places, PingSkipped
  <2> QED BY <2>1, <2>2, <2>3 DEF Inv
<1>21. CASE PingSubmit
  <2>1. TypeOK'
    <3>1. lockq' \in Seq(Tasks)
      BY <1>21, TailSeq DEF Inv, TypeOK, LockInv, Holds, PingSubmit,
         Accepted, Written, Refused, Registers, NewChannel
    <3>2. pc' \in [Tasks -> Places]
      BY <1>21 DEF Inv, TypeOK, Places, PingSubmit, Accepted, Written,
         Refused, Registers, NewChannel
    <3>3. chan' \in [Channels -> Channel]
      BY <1>21, NewTyped DEF Inv, TypeOK, ChannelInv, Channel, PingSubmit,
         Accepted, Written, Refused, Registers
    <3>4. /\ registered' \in SUBSET Channels /\ owed' \in SUBSET Channels
          /\ proc' \in {"starting", "up", "exited", "reaped"} /\ reader' \in BOOLEAN
          /\ forcing' \in BOOLEAN
      BY <1>21 DEF Inv, TypeOK, PingSubmit, Accepted, Written, Refused,
         Registers, NewChannel
    <3>5. failures' \in 0 .. THRESHOLD
      BY <1>21, <1>a DEF Inv, TypeOK, PingSubmit, Accepted, Written,
         Refused, Registers, NewChannel
    <3> QED BY <3>1, <3>2, <3>3, <3>4, <3>5 DEF TypeOK
  <2>2. ChannelInv'
    BY <1>21 DEF Inv, TypeOK, ChannelInv, Channel, PingSubmit, Accepted,
       Written, Refused, Registers, NewChannel
  <2>3. LockInv'
    BY <1>21 DEF Inv, TypeOK, LockInv, Holds, Places, PingSubmit, Accepted,
       Written, Refused, Registers, NewChannel
  <2> QED BY <2>1, <2>2, <2>3 DEF Inv
<1>22. CASE PingEnd
  <2>1. TypeOK'
    <3>1. lockq' \in Seq(Tasks)
      BY <1>22, TailSeq DEF Inv, TypeOK, LockInv, Holds, PingEnd, CountFailure
    <3>2. pc' \in [Tasks -> Places]
      BY <1>22 DEF Inv, TypeOK, Places, PingEnd, CountFailure
    <3>3. chan' \in [Channels -> Channel]
      BY <1>22 DEF Inv, TypeOK, ChannelInv, Channel, PingEnd, CountFailure
    <3>4. /\ registered' \in SUBSET Channels /\ owed' \in SUBSET Channels
          /\ proc' \in {"starting", "up", "exited", "reaped"} /\ reader' \in BOOLEAN
          /\ forcing' \in BOOLEAN
      BY <1>22 DEF Inv, TypeOK, PingEnd, CountFailure
    <3>5. failures' \in 0 .. THRESHOLD
      BY <1>22, <1>a DEF Inv, TypeOK, PingEnd, CountFailure
    <3> QED BY <3>1, <3>2, <3>3, <3>4, <3>5 DEF TypeOK
  <2>2. ChannelInv'
    BY <1>22 DEF Inv, TypeOK, ChannelInv, Channel, PingEnd, CountFailure
  <2>3. LockInv'
    BY <1>22 DEF Inv, TypeOK, LockInv, Holds, Places, PingEnd, CountFailure
  <2> QED BY <2>1, <2>2, <2>3 DEF Inv
<1>23. CASE ProbeBegin
  <2>1. TypeOK'
    BY <1>23 DEF Inv, TypeOK, LockInv, Holds, Channel, Places, ProbeBegin
  <2>2. ChannelInv'
    BY <1>23 DEF Inv, TypeOK, ChannelInv, Channel, ProbeBegin
  <2>3. LockInv'
    BY <1>23 DEF Inv, TypeOK, LockInv, Holds, Places, ProbeBegin
  <2> QED BY <2>1, <2>2, <2>3 DEF Inv
<1>24. CASE ProbeEnd
  <2>1. TypeOK'
    BY <1>24, TailSeq DEF Inv, TypeOK, LockInv, Holds, Channel, Places,
       ProbeEnd
  <2>2. ChannelInv'
    BY <1>24 DEF Inv, TypeOK, ChannelInv, Channel, ProbeEnd
  <2>3. LockInv'
    BY <1>24 DEF Inv, TypeOK, LockInv, Holds, Places, ProbeEnd
  <2> QED BY <2>1, <2>2, <2>3 DEF Inv
<1>25. CASE RetireBegin
  <2>1. TypeOK'
    BY <1>25, AppendHead DEF Inv, TypeOK, LockInv, Holds, Channel, Places,
       RetireBegin, Queue
  <2>2. ChannelInv'
    BY <1>25 DEF Inv, TypeOK, ChannelInv, Channel, RetireBegin, Queue
  <2>3. LockInv'
    BY <1>25, AppendHead DEF Inv, TypeOK, LockInv, Holds, Places,
       RetireBegin, Queue
  <2> QED BY <2>1, <2>2, <2>3 DEF Inv
<1>26. CASE RetireStop
  <2>1. TypeOK'
    BY <1>26, WithoutSeq DEF Inv, TypeOK, LockInv, Holds, Channel, Places,
       RetireStop
  <2>2. ChannelInv'
    BY <1>26 DEF Inv, TypeOK, ChannelInv, Channel, RetireStop
  <2>3. LockInv'
    BY <1>26, WithoutSeq, WithoutHead DEF Inv, TypeOK, LockInv, Holds,
       Places, RetireStop
  <2> QED BY <2>1, <2>2, <2>3 DEF Inv
<1>27. CASE RetireEnd
  <2>1. TypeOK'
    BY <1>27, FlushTyped DEF Inv, TypeOK, LockInv, Holds, Channel, Places,
       RetireEnd
  <2>2. ChannelInv'
    BY <1>27 DEF Inv, TypeOK, ChannelInv, Channel, RetireEnd, Flushed
  <2>3. LockInv'
    BY <1>27 DEF Inv, TypeOK, LockInv, Holds, Places, RetireEnd
  <2> QED BY <2>1, <2>2, <2>3 DEF Inv
<1>28. CASE UNCHANGED vars
  BY <1>28 DEF vars, Inv, TypeOK, ChannelInv, LockInv, Holds
<1> QED BY <1>1, <1>2, <1>3, <1>4, <1>5, <1>6, <1>7, <1>8, <1>9, <1>10,
      <1>11, <1>12, <1>13, <1>14, <1>15, <1>16, <1>17, <1>18, <1>19, <1>20, <1>21,
      <1>22, <1>23, <1>24, <1>25, <1>26, <1>27, <1>28 DEF Next

\* Every state has the right types; no channel ever gets a second end
\* (TypeOK bounds nulls by 1), whichever faults happen, stop_account included.
THEOREM TypeCorrect == Spec => []TypeOK
<1>1. Inv => TypeOK
  BY DEF Inv
<1> QED BY InvInit, InvStep, <1>1, PTL DEF Spec

-----------------------------------------------------------------------------
(* Nobody waits for a channel that was forgotten.                          *)

\* A step that drops a channel from the table ends it first.
LEMMA WaiterStep == Inv /\ NoLostWaiter /\ [Next]_vars => NoLostWaiter'
<1> SUFFICES ASSUME Inv, NoLostWaiter, [Next]_vars PROVE NoLostWaiter'
  OBVIOUS
<1> USE TaskTypes
<1>1. ASSUME NEW c \in Callers, Call(c) PROVE NoLostWaiter'
  BY <1>1 DEF Inv, TypeOK, ChannelInv, Channel, Places, NoLostWaiter, Call,
     Queue
<1>2. ASSUME NEW c \in Callers, Submit(c) PROVE NoLostWaiter'
  BY <1>2 DEF Inv, TypeOK, ChannelInv, Channel, Places, NoLostWaiter,
     Submit, Accepted, Written, Refused, Registers
<1>3. ASSUME NEW c \in Callers, FirstByte(c) PROVE NoLostWaiter'
  BY <1>3 DEF Inv, TypeOK, ChannelInv, Channel, Places, NoLostWaiter, FirstByte
<1>4. ASSUME NEW c \in Callers, StreamEnd(c) PROVE NoLostWaiter'
  BY <1>4 DEF Inv, TypeOK, ChannelInv, Channel, Places, NoLostWaiter, StreamEnd
<1>5. ASSUME NEW c \in Callers, EmptyReply(c) PROVE NoLostWaiter'
  BY <1>5 DEF Inv, TypeOK, ChannelInv, Channel, Places, NoLostWaiter,
     EmptyReply, CountFailure
<1>6. ASSUME NEW c \in Channels, Chunk(c) PROVE NoLostWaiter'
  BY <1>6 DEF Inv, TypeOK, ChannelInv, Channel, Places, NoLostWaiter, Chunk
<1>7. ASSUME NEW c \in Channels, End(c) PROVE NoLostWaiter'
  BY <1>7 DEF Inv, TypeOK, ChannelInv, Channel, Places, NoLostWaiter, End
<1>8. CASE Crash
  BY <1>8 DEF Inv, TypeOK, ChannelInv, Channel, Places, NoLostWaiter, Crash
<1>9. CASE Reap
  BY <1>9 DEF Inv, TypeOK, ChannelInv, Channel, Places, NoLostWaiter, Reap
<1>10. CASE ReaderEnds
  BY <1>10 DEF Inv, TypeOK, ChannelInv, Channel, Places, NoLostWaiter,
     ReaderEnds, Flushed
<1>11. ASSUME NEW o \in Ops, Queue(o, "idle") PROVE NoLostWaiter'
  BY <1>11 DEF Inv, TypeOK, ChannelInv, Channel, Places, NoLostWaiter, Queue
<1>12. CASE Queue("force", "new")
  BY <1>12 DEF Inv, TypeOK, ChannelInv, Channel, Places, NoLostWaiter, Queue
<1>13. ASSUME NEW t \in Restarters, StopBegin(t) PROVE NoLostWaiter'
  BY <1>13 DEF Inv, TypeOK, ChannelInv, Channel, Places, NoLostWaiter,
     StopBegin, Restarters
<1>14. ASSUME NEW t \in Restarters, StopEnd(t) PROVE NoLostWaiter'
  BY <1>14 DEF Inv, TypeOK, ChannelInv, Channel, Places, NoLostWaiter,
     StopEnd, Flushed, Restarters
<1>15. ASSUME NEW t \in Restarters, Ready(t) PROVE NoLostWaiter'
  BY <1>15 DEF Inv, TypeOK, ChannelInv, Channel, Places, NoLostWaiter,
     Ready, AfterRestart, Restarters
<1>16. ASSUME NEW t \in Restarters, StartFails(t) PROVE NoLostWaiter'
  BY <1>16 DEF Inv, TypeOK, ChannelInv, Channel, Places, NoLostWaiter,
     StartFails, AfterRestart, Restarters
<1>17. ASSUME NEW o \in Ops, PrewarmSubmit(o) PROVE NoLostWaiter'
  BY <1>17 DEF Inv, TypeOK, ChannelInv, Channel, Places, NoLostWaiter,
     PrewarmSubmit, Accepted, Written, Refused, Registers, Restarters
<1>18. ASSUME NEW o \in Ops, PrewarmEnd(o) PROVE NoLostWaiter'
  BY <1>18 DEF Inv, TypeOK, ChannelInv, Channel, Places, NoLostWaiter,
     PrewarmEnd, Restarters
<1>19. CASE Ping
  BY <1>19 DEF Inv, TypeOK, ChannelInv, Channel, Places, NoLostWaiter,
     Ping, Queue
<1>20. CASE PingSkipped
  BY <1>20 DEF Inv, TypeOK, ChannelInv, Channel, Places, NoLostWaiter,
     PingSkipped
<1>21. CASE PingSubmit
  BY <1>21 DEF Inv, TypeOK, ChannelInv, Channel, Places, NoLostWaiter,
     PingSubmit, Accepted, Written, Refused, Registers
<1>22. CASE PingEnd
  BY <1>22 DEF Inv, TypeOK, ChannelInv, Channel, Places, NoLostWaiter,
     PingEnd, CountFailure
<1>23. CASE ProbeBegin
  BY <1>23 DEF Inv, TypeOK, ChannelInv, Channel, Places, NoLostWaiter,
     ProbeBegin
<1>24. CASE ProbeEnd
  BY <1>24 DEF Inv, TypeOK, ChannelInv, Channel, Places, NoLostWaiter, ProbeEnd
<1>25. CASE RetireBegin
  BY <1>25 DEF Inv, TypeOK, ChannelInv, Channel, Places, NoLostWaiter,
     RetireBegin, Queue
<1>26. CASE RetireStop
  BY <1>26 DEF Inv, TypeOK, ChannelInv, Channel, Places, NoLostWaiter,
     RetireStop
<1>27. CASE RetireEnd
  BY <1>27 DEF Inv, TypeOK, ChannelInv, Channel, Places, NoLostWaiter,
     RetireEnd, Flushed
<1>28. CASE UNCHANGED vars
  BY <1>28 DEF vars, NoLostWaiter
<1> QED BY <1>1, <1>2, <1>3, <1>4, <1>5, <1>6, <1>7, <1>8, <1>9, <1>10,
      <1>11, <1>12, <1>13, <1>14, <1>15, <1>16, <1>17, <1>18, <1>19, <1>20, <1>21,
      <1>22, <1>23, <1>24, <1>25, <1>26, <1>27, <1>28 DEF Next

\* A caller that waits for the end of its reply is in the table the reader,
\* a restart or a stop will flush: nobody is left behind by any interleaving
\* of them, however the worker or the reader fails.
THEOREM NoWaiterLost == Spec => []NoLostWaiter
<1>1. Init => NoLostWaiter
  BY TaskTypes DEF Init, NoLostWaiter
<1> QED BY InvInit, InvStep, <1>1, WaiterStep, PTL DEF Spec

-----------------------------------------------------------------------------
(* Restarts.                                                               *)

\* Between two workers nobody is served, and what a live worker's reader
\* waits for the worker owes.
RestartInv ==
  /\ Inv
  /\ pc["retire"] # "starting"
  /\ WorkerInv
  /\ PrewarmFirst
  /\ LiveWorkerOwes

\* Whoever holds the lock is alone in it.
LEMMA OneHolder ==
  ASSUME Inv, NEW t \in Tasks, NEW u \in Tasks, Holds(t), Holds(u)
  PROVE  t = u
  BY DEF Holds

\* Every step keeps it, those of stop_account, which stops the worker without
\* the lock, included.
LEMMA RestartStep == RestartInv /\ [Next]_vars => RestartInv'
<1> SUFFICES ASSUME RestartInv, [Next]_vars PROVE RestartInv'
  OBVIOUS
<1> USE TaskTypes
<1>a. Inv'
  BY InvStep DEF RestartInv
<1>1. ASSUME NEW c \in Callers, Call(c) PROVE RestartInv'
  <2>1. pc'["retire"] # "starting" /\ WorkerInv'
    BY <1>1 DEF WorkerInv, RestartInv, Inv, TypeOK, LockInv, Holds, Places,
       Alive, Call, Queue
  <2>2. PrewarmFirst'
    BY <1>1 DEF WorkerInv, PrewarmFirst, RestartInv, Inv, TypeOK, LockInv,
       Holds, Places, Alive, Call, Queue
  <2>3. LiveWorkerOwes'
    BY <1>1 DEF WorkerInv, LiveWorkerOwes, RestartInv, Inv, TypeOK,
       LockInv, Holds, Places, Alive, Call, Queue
  <2> QED BY <1>a, <2>1, <2>2, <2>3 DEF RestartInv
<1>2. ASSUME NEW c \in Callers, Submit(c) PROVE RestartInv'
  <2>1. pc'["retire"] # "starting" /\ WorkerInv'
    BY <1>2 DEF WorkerInv, RestartInv, Inv, TypeOK, LockInv, Holds, Places,
       Alive, Restarters, Submit, Accepted, Written, Refused, Registers
  <2>2. PrewarmFirst'
    BY <1>2 DEF WorkerInv, PrewarmFirst, RestartInv, Inv, TypeOK, LockInv,
       Holds, Places, Alive, Restarters, Submit, Accepted, Written, Refused, Registers
  <2>3. LiveWorkerOwes'
    BY <1>2 DEF WorkerInv, LiveWorkerOwes, RestartInv, Inv, TypeOK,
       LockInv, Holds, Places, Alive, Submit, Accepted, Written, Refused,
       Registers
  <2> QED BY <1>a, <2>1, <2>2, <2>3 DEF RestartInv
<1>3. ASSUME NEW c \in Callers, FirstByte(c) PROVE RestartInv'
  <2>1. pc'["retire"] # "starting" /\ WorkerInv'
    BY <1>3 DEF WorkerInv, RestartInv, Inv, TypeOK, LockInv, Holds, Places,
       Alive, FirstByte
  <2>2. PrewarmFirst'
    BY <1>3 DEF WorkerInv, PrewarmFirst, RestartInv, Inv, TypeOK, LockInv,
       Holds, Places, Alive, FirstByte
  <2>3. LiveWorkerOwes'
    BY <1>3 DEF WorkerInv, LiveWorkerOwes, RestartInv, Inv, TypeOK,
       LockInv, Holds, Places, Alive, FirstByte
  <2> QED BY <1>a, <2>1, <2>2, <2>3 DEF RestartInv
<1>4. ASSUME NEW c \in Callers, StreamEnd(c) PROVE RestartInv'
  <2>1. pc'["retire"] # "starting" /\ WorkerInv'
    BY <1>4 DEF WorkerInv, RestartInv, Inv, TypeOK, LockInv, Holds, Places,
       Alive, StreamEnd
  <2>2. PrewarmFirst'
    BY <1>4 DEF WorkerInv, PrewarmFirst, RestartInv, Inv, TypeOK, LockInv,
       Holds, Places, Alive, StreamEnd
  <2>3. LiveWorkerOwes'
    BY <1>4 DEF WorkerInv, LiveWorkerOwes, RestartInv, Inv, TypeOK,
       LockInv, Holds, Places, Alive, StreamEnd
  <2> QED BY <1>a, <2>1, <2>2, <2>3 DEF RestartInv
<1>5. ASSUME NEW c \in Callers, EmptyReply(c) PROVE RestartInv'
  <2>1. pc'["retire"] # "starting" /\ WorkerInv'
    BY <1>5 DEF WorkerInv, RestartInv, Inv, TypeOK, LockInv, Holds, Places,
       Alive, EmptyReply, CountFailure
  <2>2. PrewarmFirst'
    BY <1>5 DEF WorkerInv, PrewarmFirst, RestartInv, Inv, TypeOK, LockInv,
       Holds, Places, Alive, EmptyReply, CountFailure
  <2>3. LiveWorkerOwes'
    BY <1>5 DEF WorkerInv, LiveWorkerOwes, RestartInv, Inv, TypeOK,
       LockInv, Holds, Places, Alive, EmptyReply, CountFailure
  <2> QED BY <1>a, <2>1, <2>2, <2>3 DEF RestartInv
<1>6. ASSUME NEW c \in Channels, Chunk(c) PROVE RestartInv'
  <2>1. pc'["retire"] # "starting" /\ WorkerInv'
    BY <1>6 DEF WorkerInv, RestartInv, Inv, TypeOK, LockInv, Holds, Places,
       Alive, Chunk
  <2>2. PrewarmFirst'
    BY <1>6 DEF WorkerInv, PrewarmFirst, RestartInv, Inv, TypeOK, LockInv,
       Holds, Places, Alive, Chunk
  <2>3. LiveWorkerOwes'
    BY <1>6 DEF WorkerInv, LiveWorkerOwes, RestartInv, Inv, TypeOK,
       LockInv, Holds, Places, Alive, Chunk
  <2> QED BY <1>a, <2>1, <2>2, <2>3 DEF RestartInv
<1>7. ASSUME NEW c \in Channels, End(c) PROVE RestartInv'
  <2>1. pc'["retire"] # "starting" /\ WorkerInv'
    BY <1>7 DEF WorkerInv, RestartInv, Inv, TypeOK, LockInv, Holds, Places,
       Alive, End
  <2>2. PrewarmFirst'
    BY <1>7 DEF WorkerInv, PrewarmFirst, RestartInv, Inv, TypeOK, LockInv,
       Holds, Places, Alive, End
  <2>3. LiveWorkerOwes'
    BY <1>7 DEF WorkerInv, LiveWorkerOwes, RestartInv, Inv, TypeOK,
       LockInv, Holds, Places, Alive, End
  <2> QED BY <1>a, <2>1, <2>2, <2>3 DEF RestartInv
<1>8. CASE Crash
  <2>1. pc'["retire"] # "starting" /\ WorkerInv'
    BY <1>8 DEF WorkerInv, RestartInv, Inv, TypeOK, LockInv, Holds, Places,
       Alive, Crash
  <2>2. PrewarmFirst'
    BY <1>8 DEF WorkerInv, PrewarmFirst, RestartInv, Inv, TypeOK, LockInv,
       Holds, Places, Alive, Crash
  <2>3. LiveWorkerOwes'
    BY <1>8 DEF WorkerInv, LiveWorkerOwes, RestartInv, Inv, TypeOK,
       LockInv, Holds, Places, Alive, Crash
  <2> QED BY <1>a, <2>1, <2>2, <2>3 DEF RestartInv
<1>9. CASE Reap
  <2>1. pc'["retire"] # "starting" /\ WorkerInv'
    BY <1>9 DEF WorkerInv, RestartInv, Inv, TypeOK, LockInv, Holds, Places,
       Alive, Reap
  <2>2. PrewarmFirst'
    BY <1>9 DEF WorkerInv, PrewarmFirst, RestartInv, Inv, TypeOK, LockInv,
       Holds, Places, Alive, Reap
  <2>3. LiveWorkerOwes'
    BY <1>9 DEF WorkerInv, LiveWorkerOwes, RestartInv, Inv, TypeOK,
       LockInv, Holds, Places, Alive, Reap
  <2> QED BY <1>a, <2>1, <2>2, <2>3 DEF RestartInv
<1>10. CASE ReaderEnds
  <2>1. pc'["retire"] # "starting" /\ WorkerInv'
    BY <1>10 DEF WorkerInv, RestartInv, Inv, TypeOK, LockInv, Holds,
       Places, Alive, ReaderEnds
  <2>2. PrewarmFirst'
    BY <1>10 DEF WorkerInv, PrewarmFirst, RestartInv, Inv, TypeOK, LockInv,
       Holds, Places, Alive, ReaderEnds
  <2>3. LiveWorkerOwes'
    BY <1>10 DEF WorkerInv, LiveWorkerOwes, RestartInv, Inv, TypeOK,
       LockInv, Holds, Places, Alive, ReaderEnds
  <2> QED BY <1>a, <2>1, <2>2, <2>3 DEF RestartInv
<1>11. ASSUME NEW o \in Ops, Queue(o, "idle") PROVE RestartInv'
  <2>1. pc'["retire"] # "starting" /\ WorkerInv'
    BY <1>11 DEF WorkerInv, RestartInv, Inv, TypeOK, LockInv, Holds,
       Places, Alive, Queue, Restarters
  <2>2. PrewarmFirst'
    BY <1>11 DEF WorkerInv, PrewarmFirst, RestartInv, Inv, TypeOK, LockInv,
       Holds, Places, Alive, Queue
  <2>3. LiveWorkerOwes'
    BY <1>11 DEF WorkerInv, LiveWorkerOwes, RestartInv, Inv, TypeOK,
       LockInv, Holds, Places, Alive, Queue
  <2> QED BY <1>a, <2>1, <2>2, <2>3 DEF RestartInv
<1>12. CASE Queue("force", "new")
  <2>1. pc'["retire"] # "starting" /\ WorkerInv'
    BY <1>12 DEF WorkerInv, RestartInv, Inv, TypeOK, LockInv, Holds,
       Places, Alive, Queue
  <2>2. PrewarmFirst'
    BY <1>12 DEF WorkerInv, PrewarmFirst, RestartInv, Inv, TypeOK, LockInv,
       Holds, Places, Alive, Queue
  <2>3. LiveWorkerOwes'
    BY <1>12 DEF WorkerInv, LiveWorkerOwes, RestartInv, Inv, TypeOK,
       LockInv, Holds, Places, Alive, Queue
  <2> QED BY <1>a, <2>1, <2>2, <2>3 DEF RestartInv
<1>13. ASSUME NEW t \in Restarters, StopBegin(t) PROVE RestartInv'
  <2>1. pc'["retire"] # "starting" /\ WorkerInv'
    BY <1>13 DEF WorkerInv, RestartInv, Inv, TypeOK, LockInv, Holds,
       Places, Alive, StopBegin
  <2>2. PrewarmFirst'
    BY <1>13 DEF WorkerInv, PrewarmFirst, RestartInv, Inv, TypeOK, LockInv,
       Holds, Places, Alive, StopBegin
  <2>3. LiveWorkerOwes'
    BY <1>13 DEF WorkerInv, LiveWorkerOwes, RestartInv, Inv, TypeOK,
       LockInv, Holds, Places, Alive, StopBegin
  <2> QED BY <1>a, <2>1, <2>2, <2>3 DEF RestartInv
<1>14. ASSUME NEW t \in Restarters, StopEnd(t) PROVE RestartInv'
  <2>1. pc'["retire"] # "starting" /\ WorkerInv'
    BY <1>14 DEF WorkerInv, RestartInv, Inv, TypeOK, LockInv, Holds,
       Places, Alive, StopEnd
  <2>2. PrewarmFirst'
    BY <1>14 DEF WorkerInv, PrewarmFirst, RestartInv, Inv, TypeOK, LockInv,
       Holds, Places, Alive, StopEnd
  <2>3. LiveWorkerOwes'
    BY <1>14 DEF WorkerInv, LiveWorkerOwes, RestartInv, Inv, TypeOK,
       LockInv, Holds, Places, Alive, StopEnd
  <2> QED BY <1>a, <2>1, <2>2, <2>3 DEF RestartInv
<1>15. ASSUME NEW t \in Restarters, Ready(t) PROVE RestartInv'
  <2>1. pc'["retire"] # "starting" /\ WorkerInv'
    BY <1>15 DEF WorkerInv, RestartInv, Inv, TypeOK, LockInv, Holds,
       Places, Alive, Ready, AfterRestart
  <2>2. PrewarmFirst'
    BY <1>15 DEF WorkerInv, PrewarmFirst, RestartInv, Inv, TypeOK, LockInv,
       Holds, Places, Alive, Ready, AfterRestart
  <2>3. LiveWorkerOwes'
    BY <1>15 DEF WorkerInv, LiveWorkerOwes, RestartInv, Inv, TypeOK,
       LockInv, Holds, Places, Alive, Ready, AfterRestart
  <2> QED BY <1>a, <2>1, <2>2, <2>3 DEF RestartInv
<1>16. ASSUME NEW t \in Restarters, StartFails(t) PROVE RestartInv'
  <2>1. pc'["retire"] # "starting" /\ WorkerInv'
    BY <1>16 DEF WorkerInv, RestartInv, Inv, TypeOK, LockInv, Holds,
       Places, Alive, StartFails, AfterRestart
  <2>2. PrewarmFirst'
    BY <1>16 DEF WorkerInv, PrewarmFirst, RestartInv, Inv, TypeOK, LockInv,
       Holds, Places, Alive, StartFails, AfterRestart
  <2>3. LiveWorkerOwes'
    BY <1>16 DEF WorkerInv, LiveWorkerOwes, RestartInv, Inv, TypeOK,
       LockInv, Holds, Places, Alive, StartFails, AfterRestart
  <2> QED BY <1>a, <2>1, <2>2, <2>3 DEF RestartInv
<1>17. ASSUME NEW o \in Ops, PrewarmSubmit(o) PROVE RestartInv'
  <2>1. pc'["retire"] # "starting" /\ WorkerInv'
    BY <1>17 DEF WorkerInv, RestartInv, Inv, TypeOK, LockInv, Holds,
       Places, Alive, Restarters, PrewarmSubmit, Accepted, Written,
       Refused, Registers
  <2>2. PrewarmFirst'
    BY <1>17 DEF WorkerInv, PrewarmFirst, RestartInv, Inv, TypeOK, LockInv,
       Holds, Places, Alive, Restarters, PrewarmSubmit, Accepted, Written,
       Refused, Registers
  <2>3. LiveWorkerOwes'
    BY <1>17 DEF WorkerInv, LiveWorkerOwes, RestartInv, Inv, TypeOK,
       LockInv, Holds, Places, Alive, PrewarmSubmit, Accepted, Written,
       Refused, Registers
  <2> QED BY <1>a, <2>1, <2>2, <2>3 DEF RestartInv
<1>18. ASSUME NEW o \in Ops, PrewarmEnd(o) PROVE RestartInv'
  <2>1. pc'["retire"] # "starting" /\ WorkerInv'
    BY <1>18 DEF WorkerInv, RestartInv, Inv, TypeOK, LockInv, Holds,
       Places, Alive, PrewarmEnd
  <2>2. PrewarmFirst'
    BY <1>18 DEF WorkerInv, PrewarmFirst, RestartInv, Inv, TypeOK, LockInv,
       Holds, Places, Alive, PrewarmEnd
  <2>3. LiveWorkerOwes'
    BY <1>18 DEF WorkerInv, LiveWorkerOwes, RestartInv, Inv, TypeOK,
       LockInv, Holds, Places, Alive, PrewarmEnd
  <2> QED BY <1>a, <2>1, <2>2, <2>3 DEF RestartInv
<1>19. CASE Ping
  <2>1. pc'["retire"] # "starting" /\ WorkerInv'
    BY <1>19 DEF WorkerInv, RestartInv, Inv, TypeOK, LockInv, Holds,
       Places, Alive, Ping, Queue
  <2>2. PrewarmFirst'
    BY <1>19 DEF WorkerInv, PrewarmFirst, RestartInv, Inv, TypeOK, LockInv,
       Holds, Places, Alive, Ping, Queue
  <2>3. LiveWorkerOwes'
    BY <1>19 DEF WorkerInv, LiveWorkerOwes, RestartInv, Inv, TypeOK,
       LockInv, Holds, Places, Alive, Ping, Queue
  <2> QED BY <1>a, <2>1, <2>2, <2>3 DEF RestartInv
<1>20. CASE PingSkipped
  <2>1. pc'["retire"] # "starting" /\ WorkerInv'
    BY <1>20 DEF WorkerInv, RestartInv, Inv, TypeOK, LockInv, Holds,
       Places, Alive, PingSkipped
  <2>2. PrewarmFirst'
    BY <1>20 DEF WorkerInv, PrewarmFirst, RestartInv, Inv, TypeOK, LockInv,
       Holds, Places, Alive, PingSkipped
  <2>3. LiveWorkerOwes'
    BY <1>20 DEF WorkerInv, LiveWorkerOwes, RestartInv, Inv, TypeOK,
       LockInv, Holds, Places, Alive, PingSkipped
  <2> QED BY <1>a, <2>1, <2>2, <2>3 DEF RestartInv
<1>21. CASE PingSubmit
  <2>1. pc'["retire"] # "starting" /\ WorkerInv'
    BY <1>21 DEF WorkerInv, RestartInv, Inv, TypeOK, LockInv, Holds,
       Places, Alive, Restarters, PingSubmit, Accepted, Written, Refused,
       Registers
  <2>2. PrewarmFirst'
    BY <1>21 DEF WorkerInv, PrewarmFirst, RestartInv, Inv, TypeOK, LockInv,
       Holds, Places, Alive, Restarters, PingSubmit, Accepted, Written, Refused,
       Registers
  <2>3. LiveWorkerOwes'
    BY <1>21 DEF WorkerInv, LiveWorkerOwes, RestartInv, Inv, TypeOK,
       LockInv, Holds, Places, Alive, PingSubmit, Accepted, Written, Refused,
       Registers
  <2> QED BY <1>a, <2>1, <2>2, <2>3 DEF RestartInv
<1>22. CASE PingEnd
  <2>1. pc'["retire"] # "starting" /\ WorkerInv'
    BY <1>22 DEF WorkerInv, RestartInv, Inv, TypeOK, LockInv, Holds,
       Places, Alive, PingEnd, CountFailure
  <2>2. PrewarmFirst'
    BY <1>22 DEF WorkerInv, PrewarmFirst, RestartInv, Inv, TypeOK, LockInv,
       Holds, Places, Alive, PingEnd, CountFailure
  <2>3. LiveWorkerOwes'
    BY <1>22 DEF WorkerInv, LiveWorkerOwes, RestartInv, Inv, TypeOK,
       LockInv, Holds, Places, Alive, PingEnd, CountFailure
  <2> QED BY <1>a, <2>1, <2>2, <2>3 DEF RestartInv
<1>23. CASE ProbeBegin
  <2>1. pc'["retire"] # "starting" /\ WorkerInv'
    BY <1>23 DEF WorkerInv, RestartInv, Inv, TypeOK, LockInv, Holds,
       Places, Alive, ProbeBegin
  <2>2. PrewarmFirst'
    BY <1>23 DEF WorkerInv, PrewarmFirst, RestartInv, Inv, TypeOK, LockInv,
       Holds, Places, Alive, ProbeBegin
  <2>3. LiveWorkerOwes'
    BY <1>23 DEF WorkerInv, LiveWorkerOwes, RestartInv, Inv, TypeOK,
       LockInv, Holds, Places, Alive, ProbeBegin
  <2> QED BY <1>a, <2>1, <2>2, <2>3 DEF RestartInv
<1>24. CASE ProbeEnd
  <2>1. pc'["retire"] # "starting" /\ WorkerInv'
    BY <1>24 DEF WorkerInv, RestartInv, Inv, TypeOK, LockInv, Holds,
       Places, Alive, ProbeEnd
  <2>2. PrewarmFirst'
    BY <1>24 DEF WorkerInv, PrewarmFirst, RestartInv, Inv, TypeOK, LockInv,
       Holds, Places, Alive, ProbeEnd
  <2>3. LiveWorkerOwes'
    BY <1>24 DEF WorkerInv, LiveWorkerOwes, RestartInv, Inv, TypeOK,
       LockInv, Holds, Places, Alive, ProbeEnd
  <2> QED BY <1>a, <2>1, <2>2, <2>3 DEF RestartInv
<1>25. CASE RetireBegin
  <2>1. pc'["retire"] # "starting" /\ WorkerInv'
    BY <1>25 DEF WorkerInv, RestartInv, Inv, TypeOK, LockInv, Holds, Places, Alive, RetireBegin, Queue
  <2>2. PrewarmFirst'
    BY <1>25 DEF WorkerInv, PrewarmFirst, RestartInv, Inv, TypeOK, LockInv,
       Holds, Places, Alive, RetireBegin, Queue
  <2>3. LiveWorkerOwes'
    BY <1>25 DEF WorkerInv, LiveWorkerOwes, RestartInv, Inv, TypeOK,
       LockInv, Holds, Places, Alive, RetireBegin, Queue
  <2> QED BY <1>a, <2>1, <2>2, <2>3 DEF RestartInv
<1>26. CASE RetireStop
  <2>1. pc'["retire"] # "starting" /\ WorkerInv'
    BY <1>26 DEF WorkerInv, RestartInv, Inv, TypeOK, LockInv, Holds, Places, Alive, RetireStop
  <2>2. PrewarmFirst'
    BY <1>26 DEF WorkerInv, PrewarmFirst, RestartInv, Inv, TypeOK, LockInv,
       Holds, Places, Alive, RetireStop
  <2>3. LiveWorkerOwes'
    BY <1>26 DEF WorkerInv, LiveWorkerOwes, RestartInv, Inv, TypeOK,
       LockInv, Holds, Places, Alive, RetireStop
  <2> QED BY <1>a, <2>1, <2>2, <2>3 DEF RestartInv
<1>27. CASE RetireEnd
  <2>1. pc'["retire"] # "starting" /\ WorkerInv'
    BY <1>27 DEF WorkerInv, RestartInv, Inv, TypeOK, LockInv, Holds, Places, Alive, RetireEnd
  <2>2. PrewarmFirst'
    BY <1>27 DEF WorkerInv, PrewarmFirst, RestartInv, Inv, TypeOK, LockInv,
       Holds, Places, Alive, RetireEnd
  <2>3. LiveWorkerOwes'
    BY <1>27 DEF WorkerInv, LiveWorkerOwes, RestartInv, Inv, TypeOK,
       LockInv, Holds, Places, Alive, RetireEnd
  <2> QED BY <1>a, <2>1, <2>2, <2>3 DEF RestartInv
<1>28. CASE UNCHANGED vars
  BY <1>28, <1>a DEF vars, RestartInv, WorkerInv, PrewarmFirst, LiveWorkerOwes
<1> QED BY <1>1, <1>2, <1>3, <1>4, <1>5, <1>6, <1>7, <1>8, <1>9, <1>10,
      <1>11, <1>12, <1>13, <1>14, <1>15, <1>16, <1>17, <1>18, <1>19, <1>20, <1>21,
      <1>22, <1>23, <1>24, <1>25, <1>26, <1>27, <1>28 DEF Next

\* The restarts keep what holds of the worker, of the lock and of the prewarm.
LEMMA RestartInvariant == Spec => []RestartInv
<1>1. Init => RestartInv
  BY InvInit, TaskTypes DEF Init, RestartInv, WorkerInv, PrewarmFirst,
     LiveWorkerOwes
<1> QED BY <1>1, RestartStep, PTL DEF Spec

\* restart, the forced restart, stop and retire: two of them never work on the
\* worker at a time, whatever crashes, failed spawns and dead readers do.
THEOREM RestartsSafe == Spec => []OneRestart
<1>1. RestartInv => OneRestart
  BY TaskTypes DEF RestartInv, Inv, LockInv, Holds, OneRestart
<1> QED BY <1>1, RestartInvariant, PTL

\* restart with prewarm: the lock is kept from the stop of the old process to the
\* end of the prewarm, so no caller is the first on the new one.
THEOREM PrewarmComesFirst == Spec => []PrewarmFirst
<1>1. RestartInv => PrewarmFirst
  BY DEF RestartInv
<1> QED BY <1>1, RestartInvariant, PTL

\* stop and the end of the read loop: a channel that waits on a ready worker was
\* submitted to that process, never to one before it.
THEOREM WorkerOwesItsOwn == Spec => []LiveWorkerOwes
<1>1. RestartInv => LiveWorkerOwes
  BY DEF RestartInv
<1> QED BY <1>1, RestartInvariant, PTL

-----------------------------------------------------------------------------
(* The forced restart.                                                     *)

StreakInv == Inv /\ ForceFlag /\ StreakActedOn

\* One more failure raises the flag and starts the task, or does neither.
LEMMA CountStep ==
  ASSUME StreakInv, NEW t \in Tasks, NEW next \in Places, t # "force",
         CountFailure(t, next)
  PROVE  ForceFlag' /\ StreakActedOn'
<1> USE TaskTypes, SessionAssumption DEF CountFailure, ForceFlag, StreakActedOn
<1>1. CASE failures + 1 >= THRESHOLD /\ ~forcing
  <2>1. failures < THRESHOLD
    BY <1>1 DEF StreakInv, Inv, TypeOK
  <2>2. failures' = failures + 1 /\ forcing' /\ pc'["force"] = "new"
    BY <1>1, <2>1 DEF StreakInv, Inv, TypeOK
  <2> QED BY <2>2
<1>2. CASE ~(failures + 1 >= THRESHOLD) /\ ~forcing
  <2>1. failures' = failures + 1 /\ ~forcing' /\ pc'["force"] = pc["force"]
    BY <1>2 DEF StreakInv, Inv, TypeOK
  <2> QED BY <1>2, <2>1 DEF StreakInv, Inv, TypeOK
<1>3. CASE forcing
  <2>1. forcing' /\ pc'["force"] = pc["force"]
    BY <1>3 DEF StreakInv, Inv, TypeOK
  <2> QED BY <1>3, <2>1 DEF StreakInv
<1> QED BY <1>1, <1>2, <1>3

\* The flag and the place of the task move together; the streak reaches the
\* threshold only where the flag is up or goes up.
LEMMA StreakStep == StreakInv /\ [Next]_vars => StreakInv'
<1> SUFFICES ASSUME StreakInv, [Next]_vars PROVE StreakInv'
  OBVIOUS
<1> USE TaskTypes, SessionAssumption DEF ForceFlag, StreakActedOn
<1>a. Inv'
  BY InvStep DEF StreakInv
<1> SUFFICES ForceFlag' /\ StreakActedOn'
  BY <1>a DEF StreakInv
<1>1. ASSUME NEW c \in Callers, Call(c) PROVE ForceFlag' /\ StreakActedOn'
  BY <1>1 DEF StreakInv, Inv, TypeOK, Call, Queue
<1>2. ASSUME NEW c \in Callers, Submit(c) PROVE ForceFlag' /\ StreakActedOn'
  BY <1>2 DEF StreakInv, Inv, TypeOK, Submit
<1>3. ASSUME NEW c \in Callers, FirstByte(c) PROVE ForceFlag' /\ StreakActedOn'
  BY <1>3 DEF StreakInv, Inv, TypeOK, FirstByte
<1>4. ASSUME NEW c \in Callers, StreamEnd(c) PROVE ForceFlag' /\ StreakActedOn'
  BY <1>4 DEF StreakInv, Inv, TypeOK, StreamEnd
<1>5. ASSUME NEW c \in Callers, EmptyReply(c) PROVE ForceFlag' /\ StreakActedOn'
  BY <1>5, CountStep DEF EmptyReply, Places
<1>6. ASSUME NEW c \in Channels, Chunk(c) PROVE ForceFlag' /\ StreakActedOn'
  BY <1>6 DEF StreakInv, Inv, TypeOK, Chunk
<1>7. ASSUME NEW c \in Channels, End(c) PROVE ForceFlag' /\ StreakActedOn'
  BY <1>7 DEF StreakInv, Inv, TypeOK, End
<1>8. CASE Crash
  BY <1>8 DEF StreakInv, Inv, TypeOK, Crash
<1>9. CASE Reap
  BY <1>9 DEF StreakInv, Inv, TypeOK, Reap
<1>10. CASE ReaderEnds
  BY <1>10 DEF StreakInv, Inv, TypeOK, ReaderEnds
<1>11. ASSUME NEW o \in Ops, Queue(o, "idle") PROVE ForceFlag' /\ StreakActedOn'
  BY <1>11 DEF StreakInv, Inv, TypeOK, Queue
<1>12. CASE Queue("force", "new")
  BY <1>12 DEF StreakInv, Inv, TypeOK, Queue
<1>13. ASSUME NEW t \in Restarters, StopBegin(t) PROVE ForceFlag' /\ StreakActedOn'
  BY <1>13 DEF StreakInv, Inv, TypeOK, StopBegin
<1>14. ASSUME NEW t \in Restarters, StopEnd(t) PROVE ForceFlag' /\ StreakActedOn'
  BY <1>14 DEF StreakInv, Inv, TypeOK, StopEnd
<1>15. ASSUME NEW t \in Restarters, Ready(t) PROVE ForceFlag' /\ StreakActedOn'
  BY <1>15 DEF StreakInv, Inv, TypeOK, Ready, AfterRestart
<1>16. ASSUME NEW t \in Restarters, StartFails(t) PROVE ForceFlag' /\ StreakActedOn'
  BY <1>16 DEF StreakInv, Inv, TypeOK, StartFails, AfterRestart
<1>17. ASSUME NEW o \in Ops, PrewarmSubmit(o) PROVE ForceFlag' /\ StreakActedOn'
  BY <1>17 DEF StreakInv, Inv, TypeOK, PrewarmSubmit
<1>18. ASSUME NEW o \in Ops, PrewarmEnd(o) PROVE ForceFlag' /\ StreakActedOn'
  BY <1>18 DEF StreakInv, Inv, TypeOK, PrewarmEnd
<1>19. CASE Ping
  BY <1>19 DEF StreakInv, Inv, TypeOK, Ping, Queue
<1>20. CASE PingSkipped
  BY <1>20 DEF StreakInv, Inv, TypeOK, PingSkipped
<1>21. CASE PingSubmit
  BY <1>21 DEF StreakInv, Inv, TypeOK, PingSubmit
<1>22. CASE PingEnd
  <2>1. CASE CountFailure("keepalive", "sleep")
    BY <2>1, CountStep DEF Places
  <2>2. CASE failures' = 0 /\ forcing' = forcing
             /\ pc' = [pc EXCEPT !["keepalive"] = "sleep"]
    BY <2>2 DEF StreakInv, Inv, TypeOK
  <2> QED BY <1>22, <2>1, <2>2 DEF PingEnd
<1>23. CASE ProbeBegin
  BY <1>23 DEF StreakInv, Inv, TypeOK, ProbeBegin
<1>24. CASE ProbeEnd
  BY <1>24 DEF StreakInv, Inv, TypeOK, ProbeEnd
<1>25. CASE RetireBegin
  BY <1>25 DEF StreakInv, Inv, TypeOK, RetireBegin, Queue
<1>26. CASE RetireStop
  BY <1>26 DEF StreakInv, Inv, TypeOK, RetireStop
<1>27. CASE RetireEnd
  BY <1>27 DEF StreakInv, Inv, TypeOK, RetireEnd
<1>28. CASE UNCHANGED vars
  BY <1>28 DEF StreakInv, Inv, TypeOK, vars
<1> QED BY <1>1, <1>2, <1>3, <1>4, <1>5, <1>6, <1>7, <1>8, <1>9, <1>10,
      <1>11, <1>12, <1>13, <1>14, <1>15, <1>16, <1>17, <1>18, <1>19, <1>20, <1>21,
      <1>22, <1>23, <1>24, <1>25, <1>26, <1>27, <1>28 DEF Next

\* Failures are counted right.
LEMMA StreakInvariant == Spec => []StreakInv
<1>1. Init => StreakInv
  BY InvInit, TaskTypes, SessionAssumption DEF Init, StreakInv, ForceFlag,
     StreakActedOn
<1> QED BY <1>1, StreakStep, PTL DEF Spec

\* _forced_restart: its flag is up exactly while the task is on its way, however
\* it ends, so that a stuck worker is not restarted twice and the next streak can
\* restart it again.
THEOREM ForcedOnce == Spec => []ForceFlag
<1>1. StreakInv => ForceFlag
  BY DEF StreakInv
<1> QED BY <1>1, StreakInvariant, PTL

\* mark_intercept_failure: a streak at the threshold always has a forced restart
\* on its way; a stuck worker is not left alone.
THEOREM StuckWorkerRestarted == Spec => []StreakActedOn
<1>1. StreakInv => StreakActedOn
  BY DEF StreakInv
<1> QED BY <1>1, StreakInvariant, PTL

-----------------------------------------------------------------------------
(* Session implements ReplyChannels (its safety part).                     *)

Reply == [c \in Callers |-> ReplyOf(c)]

\* The callers whose open reply a flush ends.
Cut == {c \in Callers : c \in registered /\ ReplyOf(c) \in Replies!Live}

\* Flushing the table ends the open replies of the callers in it, and those
\* of nobody else.
LEMMA FlushCloses ==
  ASSUME Inv, chan' = Flushed,
         \A c \in Callers : pc'[c] = pc[c]
  PROVE  Replies!CloseAll(Cut)
<1>1. ASSUME NEW c \in Callers
      PROVE  ReplyOf(c)' = IF c \in Cut THEN Replies!Over(ReplyOf(c)) ELSE ReplyOf(c)
  <2>1. c \in Channels
    BY TaskTypes
  <2>2. CASE c \in registered
    <3>1. chan[c].nulls = 0 /\ chan'[c].nulls = 1 /\ chan'[c].data = chan[c].data
      BY <2>1, <2>2 DEF Inv, TypeOK, ChannelInv, Flushed
    <3>2. pc'[c] = pc[c]
      OBVIOUS
    <3> QED BY <2>2, <3>1, <3>2 DEF ReplyOf, Cut, Replies!Over, Replies!Live
  <2>3. CASE c \notin registered
    <3>1. chan'[c] = chan[c]
      BY <2>1, <2>3 DEF Flushed
    <3> QED BY <2>3, <3>1 DEF ReplyOf, Cut
  <2> QED BY <2>2, <2>3
<1>2. \A c \in Cut : ReplyOf(c) \in Replies!Live
  BY DEF Cut
<1>3. Cut \subseteq Callers
  BY DEF Cut
<1> QED BY <1>1, <1>2, <1>3 DEF Replies!CloseAll

\* Every step of the session is a step on the replies, or none.
LEMMA RepliesStep ==
  Inv /\ [Next]_vars => [Replies!Next]_Reply
<1> SUFFICES ASSUME Inv, [Next]_vars PROVE [Replies!Next]_Reply
  OBVIOUS
<1> USE TaskTypes
<1>s. ASSUME \A c \in Callers : ReplyOf(c)' = ReplyOf(c) PROVE Reply' = Reply
  BY <1>s DEF Reply
<1>c. ASSUME NEW S \in SUBSET Callers, Replies!CloseAll(S) PROVE Replies!Next
  BY <1>c DEF Replies!Next
<1>1. ASSUME NEW c \in Callers, Call(c) PROVE [Replies!Next]_Reply
  BY <1>1, <1>s, SessionAssumption DEF Inv, TypeOK, ReplyOf, Restarters,
     Call, Queue
<1>2. ASSUME NEW c \in Callers, Submit(c) PROVE [Replies!Next]_Reply
  <2>1. CASE pc' = [pc EXCEPT ![c] = "waiting"] /\ (Accepted(c) \/ Written(c))
    <3>1. ReplyOf(c) = "none" /\ ReplyOf(c)' = "open"
      BY <1>2, <2>1 DEF Inv, TypeOK, Submit, Accepted, Written, Registers,
         NewChannel, ReplyOf
    <3>2. \A b \in Callers \ {c} : ReplyOf(b)' = ReplyOf(b)
      BY <1>2, <2>1 DEF Inv, TypeOK, Submit, Accepted, Written, Registers,
         ReplyOf
    <3>3. Replies!Open(c)
      BY <3>1, <3>2 DEF Replies!Open
    <3> QED BY <3>3 DEF Replies!Next
  <2>2. CASE pc' = [pc EXCEPT ![c] = "failed"] /\ (Refused(c) \/ Written(c))
    BY <1>2, <2>2, <1>s DEF Inv, TypeOK, Submit, Refused, Written,
       Registers, ReplyOf
  <2> QED BY <1>2, <2>1, <2>2 DEF Submit
<1>3. ASSUME NEW c \in Callers, FirstByte(c) PROVE [Replies!Next]_Reply
  BY <1>3, <1>s, SessionAssumption DEF Inv, TypeOK, ReplyOf, Restarters,
     FirstByte
<1>4. ASSUME NEW c \in Callers, StreamEnd(c) PROVE [Replies!Next]_Reply
  BY <1>4, <1>s, SessionAssumption DEF Inv, TypeOK, ReplyOf, Restarters,
     StreamEnd
<1>5. ASSUME NEW c \in Callers, EmptyReply(c) PROVE [Replies!Next]_Reply
  BY <1>5, <1>s, SessionAssumption DEF Inv, TypeOK, ReplyOf, Restarters,
     EmptyReply, CountFailure
<1>6. ASSUME NEW c \in Channels, Chunk(c) PROVE [Replies!Next]_Reply
  <2>1. \A b \in Callers \ {c} : ReplyOf(b)' = ReplyOf(b)
    BY <1>6 DEF Inv, TypeOK, Chunk, ReplyOf
  <2>2. CASE c \in Callers /\ ReplyOf(c) = "open"
    <3>1. ReplyOf(c)' = "bytes"
      BY <1>6, <2>2 DEF Inv, TypeOK, Channel, Chunk, ReplyOf
    <3>2. Replies!Data(c)
      BY <2>1, <2>2, <3>1 DEF Replies!Data
    <3> QED BY <2>2, <3>2 DEF Replies!Next
  <2>3. CASE c \in Callers /\ ReplyOf(c) # "open"
    <3>1. ReplyOf(c)' = ReplyOf(c)
      BY <1>6, <2>3 DEF Inv, TypeOK, ChannelInv, Chunk, ReplyOf
    <3> QED BY <2>1, <3>1, <1>s
  <2>4. CASE c \notin Callers
    BY <2>1, <2>4, <1>s
  <2> QED BY <2>2, <2>3, <2>4
<1>7. ASSUME NEW c \in Channels, End(c) PROVE [Replies!Next]_Reply
  <2>1. \A b \in Callers \ {c} : ReplyOf(b)' = ReplyOf(b)
    BY <1>7 DEF Inv, TypeOK, End, ReplyOf
  <2>2. CASE c \in Callers /\ c \in registered /\ reader /\ ReplyOf(c) \in Replies!Live
    <3>1. ReplyOf(c)' = Replies!Over(ReplyOf(c))
      BY <1>7, <2>2 DEF Inv, TypeOK, Channel, ChannelInv, End, ReplyOf,
         Replies!Over, Replies!Live
    <3>2. Replies!Close(c)
      BY <2>1, <2>2, <3>1 DEF Replies!Close
    <3> QED BY <2>2, <3>2 DEF Replies!Next
  <2>3. CASE c \in Callers /\ ~(c \in registered /\ reader /\ ReplyOf(c) \in Replies!Live)
    <3>1. ReplyOf(c)' = ReplyOf(c)
      BY <1>7, <2>3 DEF Inv, TypeOK, ChannelInv, End, ReplyOf, Replies!Live
    <3> QED BY <2>1, <3>1, <1>s
  <2>4. CASE c \notin Callers
    BY <2>1, <2>4, <1>s
  <2> QED BY <2>2, <2>3, <2>4
<1>8. CASE Crash
  BY <1>8, <1>s, SessionAssumption DEF Inv, TypeOK, ReplyOf, Restarters, Crash
<1>9. CASE Reap
  BY <1>9, <1>s, SessionAssumption DEF Inv, TypeOK, ReplyOf, Restarters, Reap
<1>10. CASE ReaderEnds
  <2>1. chan' = Flushed /\ \A c \in Callers : pc'[c] = pc[c]
    BY <1>10 DEF Inv, TypeOK, ReaderEnds, Restarters
  <2>2. Cut \in SUBSET Callers
    BY DEF Cut
  <2> QED BY <2>1, <2>2, <1>c, FlushCloses
<1>11. ASSUME NEW o \in Ops, Queue(o, "idle") PROVE [Replies!Next]_Reply
  BY <1>11, <1>s, SessionAssumption DEF Inv, TypeOK, ReplyOf, Restarters, Queue
<1>12. CASE Queue("force", "new")
  BY <1>12, <1>s, SessionAssumption DEF Inv, TypeOK, ReplyOf, Restarters, Queue
<1>13. ASSUME NEW t \in Restarters, StopBegin(t) PROVE [Replies!Next]_Reply
  BY <1>13, <1>s, SessionAssumption DEF Inv, TypeOK, ReplyOf, Restarters,
     StopBegin
<1>14. ASSUME NEW t \in Restarters, StopEnd(t) PROVE [Replies!Next]_Reply
  <2>1. chan' = Flushed /\ \A c \in Callers : pc'[c] = pc[c]
    BY <1>14, SessionAssumption DEF Inv, TypeOK, StopEnd, Restarters
  <2>2. Cut \in SUBSET Callers
    BY DEF Cut
  <2> QED BY <2>1, <2>2, <1>c, FlushCloses
<1>15. ASSUME NEW t \in Restarters, Ready(t) PROVE [Replies!Next]_Reply
  BY <1>15, <1>s, SessionAssumption DEF Inv, TypeOK, ReplyOf, Restarters,
     Ready, AfterRestart
<1>16. ASSUME NEW t \in Restarters, StartFails(t) PROVE [Replies!Next]_Reply
  BY <1>16, <1>s, SessionAssumption DEF Inv, TypeOK, ReplyOf, Restarters,
     StartFails, AfterRestart
<1>17. ASSUME NEW o \in Ops, PrewarmSubmit(o) PROVE [Replies!Next]_Reply
  BY <1>17, <1>s, SessionAssumption DEF Inv, TypeOK, ReplyOf, Restarters,
     PrewarmSubmit, Accepted, Written, Refused, Registers
<1>18. ASSUME NEW o \in Ops, PrewarmEnd(o) PROVE [Replies!Next]_Reply
  BY <1>18, <1>s, SessionAssumption DEF Inv, TypeOK, ReplyOf, Restarters,
     PrewarmEnd
<1>19. CASE Ping
  BY <1>19, <1>s, SessionAssumption DEF Inv, TypeOK, ReplyOf, Restarters,
     Ping, Queue
<1>20. CASE PingSkipped
  BY <1>20, <1>s, SessionAssumption DEF Inv, TypeOK, ReplyOf, Restarters,
     PingSkipped
<1>21. CASE PingSubmit
  BY <1>21, <1>s, SessionAssumption DEF Inv, TypeOK, ReplyOf, Restarters,
     PingSubmit, Accepted, Written, Refused, Registers
<1>22. CASE PingEnd
  BY <1>22, <1>s, SessionAssumption DEF Inv, TypeOK, ReplyOf, Restarters,
     PingEnd, CountFailure
<1>23. CASE ProbeBegin
  BY <1>23, <1>s, SessionAssumption DEF Inv, TypeOK, ReplyOf, Restarters,
     ProbeBegin
<1>24. CASE ProbeEnd
  BY <1>24, <1>s, SessionAssumption DEF Inv, TypeOK, ReplyOf, Restarters,
     ProbeEnd
<1>25. CASE RetireBegin
  BY <1>25, <1>s, SessionAssumption DEF Inv, TypeOK, ReplyOf, Restarters,
     RetireBegin, Queue
<1>26. CASE RetireStop
  BY <1>26, <1>s, SessionAssumption DEF Inv, TypeOK, ReplyOf, Restarters,
     RetireStop
<1>27. CASE RetireEnd
  <2>1. chan' = Flushed /\ \A c \in Callers : pc'[c] = pc[c]
    BY <1>27 DEF Inv, TypeOK, RetireEnd, Restarters
  <2>2. Cut \in SUBSET Callers
    BY DEF Cut
  <2> QED BY <2>1, <2>2, <1>c, FlushCloses
<1>28. CASE UNCHANGED vars
  BY <1>28, <1>s DEF vars, ReplyOf
<1> QED BY <1>1, <1>2, <1>3, <1>4, <1>5, <1>6, <1>7, <1>8, <1>9, <1>10,
      <1>11, <1>12, <1>13, <1>14, <1>15, <1>16, <1>17, <1>18, <1>19, <1>20, <1>21,
      <1>22, <1>23, <1>24, <1>25, <1>26, <1>27, <1>28 DEF Next

\* Whatever fails, a caller's channel carries bytes, then one end, then
\* nothing: the session implements the abstract reply channels.
THEOREM ImplementsReplies == Spec => RepliesSafe
<1>1. Init => Replies!Init
  BY TaskTypes DEF Init, Replies!Init, ReplyOf
<1>2. Inv /\ [Next]_vars => [Replies!Next]_Reply
  BY RepliesStep
<1> QED BY InvInit, InvStep, <1>1, <1>2, PTL DEF Spec, RepliesSafe,
      Replies!SafeSpec, Reply
=============================================================================
