------------------------ MODULE RateLimitTableProofs ------------------------
(***************************************************************************)
(* Proofs about RateLimitTable for every set of accounts and requests,     *)
(* every window and an unbounded clock.                                    *)
(***************************************************************************)
EXTENDS RateLimitTable, TLAPS

\* The mark a merge or a replacement leaves is well formed.
LEMMA MarkedType ==
  ASSUME TypeOK, NEW a \in Accounts, NEW kind \in {"rate_limit", "degraded"},
         NEW reason \in Reasons \cup {"prewarm-failed"}, NEW w \in Nat
  PROVE  Marked(a, kind, reason, w) \in Issue
<1>1. issue[a] \in Issue /\ now \in Nat
  BY DEF TypeOK
<1>2. Fresh(kind, reason, w) \in Issue
  BY <1>1 DEF Fresh, Issue
<1>3. [issue[a] EXCEPT !.set_at = now] \in Issue
  BY <1>1 DEF Issue
<1>4. Merged(issue[a], reason, w) \in Issue
  <2>1. Larger(issue[a].until, now + w) \in Nat
    BY <1>1 DEF Issue, Larger
  <2>2. \A x : classify_rate_limit_reason(x) \in Reasons
    BY DEF classify_rate_limit_reason, Reasons
  <2> QED
    BY <1>1, <2>1, <2>2 DEF Merged, Issue
<1> QED
  BY <1>2, <1>3, <1>4 DEF Marked

\* The escalating backoff stays between 0 and the cap.
LEMMA BackoffType ==
  ASSUME NEW n \in Nat
  PROVE  BackoffWindow(n) \in 0 .. CAP
BY WindowAssumption DEF BackoffWindow

\* What a step of the mark operators leaves in the table, for the typing.
LEMMA MarkIssueType ==
  ASSUME TypeOK, NEW a \in Accounts, NEW kind \in {"rate_limit", "degraded"},
         NEW reason \in Reasons \cup {"prewarm-failed"}, NEW w \in Nat,
         MarkIssue(a, kind, reason, w)
  PROVE  issue' \in [Accounts -> Issue]
BY MarkedType DEF MarkIssue, TypeOK

LEMMA MarkInferredType ==
  ASSUME TypeOK, NEW a \in Accounts, NEW reason \in Reasons, NEW w \in Nat,
         MarkInferred(a, reason, w)
  PROVE  issue' \in [Accounts -> Issue]
<1>1. WEEKLY_CAP \in Nat /\ "rate_limit" \in Reasons
  BY WindowAssumption DEF Reasons
<1> QED
  BY <1>1, MarkIssueType DEF MarkInferred

\* A mark until a stated moment keeps the table and its history well formed.
LEMMA MarkUntilType ==
  ASSUME TypeOK, NEW a \in Accounts, NEW reason \in Reasons, NEW u \in Nat,
         MarkUntil(a, reason, u)
  PROVE  /\ issue' \in [Accounts -> Issue]
         /\ stated' \in [Accounts -> [reason : Reasons \cup {"none"}, until : Nat]]
<1>1. NoIssue \in Issue /\ now \in Nat
  BY DEF NoIssue, Issue, TypeOK
<1>2. [kind |-> "rate_limit", reason |-> reason, set_at |-> now,
       until |-> u, pinned |-> TRUE] \in Issue
  BY <1>1 DEF Issue
<1>3. /\ [reason |-> reason, until |-> u] \in [reason : Reasons \cup {"none"}, until : Nat]
      /\ [reason |-> "none", until |-> 0] \in [reason : Reasons \cup {"none"}, until : Nat]
  OBVIOUS
<1> QED
  BY <1>1, <1>2, <1>3 DEF MarkUntil, TypeOK

\* The windows the detectors hand to the table are natural numbers.
LEMMA WindowTypes ==
  ASSUME TypeOK, NEW d \in det
  PROVE  /\ d \in Detection
         /\ Larger(FLOOR, Smaller(d.until - now, FORTNIGHT)) \in Nat
         /\ Larger(FLOOR, d.until - now) \in Nat
<1>1. d \in Detection /\ now \in Nat /\ d.until \in Nat
  BY DEF TypeOK, Detection
<1>2. FLOOR \in Nat /\ FORTNIGHT \in Nat
  BY WindowAssumption
<1> QED
  BY <1>1, <1>2 DEF Larger, Smaller

\* Type correctness: every step of the program keeps the table well formed.
THEOREM TypeCorrect == Spec => []TypeOK
<1>1. Init => TypeOK
  BY DEF Init, TypeOK, NoIssue, NoStreak, Issue
<1>2. TypeOK /\ [Next]_vars => TypeOK'
  <2> SUFFICES ASSUME TypeOK, [Next]_vars PROVE TypeOK'
    OBVIOUS
  <2> USE DEF TypeOK
  <2>1. CASE Tick
    BY <2>1 DEF Tick
  <2>2. ASSUME NEW r \in Requests, NEW a \in Accounts, Admit(r, a)
        PROVE  TypeOK'
    BY <2>2 DEF Admit, Inflight
  <2>3. ASSUME NEW x \in inflight, ChatSuccess(x)
        PROVE  TypeOK'
    <3>1. NoIssue \in Issue
      BY DEF NoIssue, Issue
    <3> QED
      BY <2>3, <3>1 DEF ChatSuccess
  <2>4. ASSUME NEW x \in inflight, ChatNoOutput(x)
        PROVE  TypeOK'
    BY <2>4 DEF ChatNoOutput
  <2>5. ASSUME NEW x \in inflight, Respond(x)
        PROVE  TypeOK'
    <3>1. PICK h \in {{}} \cup {{w} : w \in ResetWindows}, b \in BodyForms :
               Response429(x, h, b[1], b[2], b[3])
      BY <2>5 DEF Respond
    <3>2. x \in Inflight
      OBVIOUS
    <3>3. \A w \in h : now + w \in Nat
      BY <3>1, WindowAssumption
    <3>4. HeaderEvents(x, h) \subseteq Detection
      <4>1. \A w : classify_rate_limit_reason(w) \in Reasons
        BY DEF classify_rate_limit_reason, Reasons
      <4>2. ASSUME NEW w \in h
            PROVE  [req |-> x.req, acct |-> x.acct, form |-> "event",
                    timed |-> TRUE, until |-> now + w,
                    reason |-> classify_rate_limit_reason(w)] \in Detection
        BY <3>2, <3>3, <4>1 DEF Detection, Inflight
      <4> QED
        BY <4>2 DEF HeaderEvents
    <3>5. /\ b[1] \in {"none", "bare", "hint", "reset"}
          /\ b[2] \in Reasons
          /\ b[3] \in Nat
      BY WindowAssumption DEF BodyForms, Reasons
    <3>6. BodyFindings(x, h, b[1], b[2], b[3]) \subseteq Detection
      <4>1. (h # {}) \in BOOLEAN
        OBVIOUS
      <4>2. (IF b[1] = "reset" THEN now + b[3] ELSE 0) \in Nat
        BY <3>5
      <4>3. x.req \in Requests /\ x.acct \in Accounts
        BY <3>2 DEF Inflight
      <4>4. ASSUME b[1] # "none", NEW t \in BOOLEAN, NEW u \in Nat
            PROVE  [req |-> x.req, acct |-> x.acct, form |-> b[1], timed |-> t,
                    until |-> u, reason |-> b[2]] \in Detection
        BY <3>5, <4>3, <4>4 DEF Detection
      <4> QED
        BY <4>1, <4>2, <4>4 DEF BodyFindings
    <3> QED
      BY <3>1, <3>4, <3>6 DEF Response429
  <2>6. ASSUME NEW d \in det, HandleEvent(d)
        PROVE  TypeOK'
    <3>1. issue' \in [Accounts -> Issue]
      BY <2>6, WindowTypes, MarkInferredType DEF HandleEvent, Detection
    <3> QED
      BY <2>6, <3>1 DEF HandleEvent
  <2>7. ASSUME NEW d \in det, HandleBodyReset(d)
        PROVE  TypeOK'
    <3>1. \A w : classify_rate_limit_reason(w) \in Reasons
      BY DEF classify_rate_limit_reason, Reasons
    <3>2. issue' \in [Accounts -> Issue]
      BY <2>7, <3>1, WindowTypes, MarkInferredType DEF HandleBodyReset, Detection
    <3> QED
      BY <2>7, <3>2 DEF HandleBodyReset
  <2>8. ASSUME NEW d \in det, HandleBodyHint(d)
        PROVE  TypeOK'
    <3>1. HINT_WEEKLY \in Nat /\ HINT_5H \in Nat
      BY WindowAssumption
    <3>2. issue' \in [Accounts -> Issue]
      BY <2>8, <3>1, WindowTypes, MarkInferredType DEF HandleBodyHint, Detection
    <3> QED
      BY <2>8, <3>2 DEF HandleBodyHint
  <2>9. ASSUME NEW d \in det, HandleBodyBare(d)
        PROVE  TypeOK'
    <3>1. d.acct \in Accounts
      BY WindowTypes DEF Detection
    <3>2. NextStreak(streak[d.acct]) \in Nat
      BY <3>1 DEF NextStreak
    <3>3. BackoffWindow(NextStreak(streak[d.acct])) \in Nat
      BY <3>2, BackoffType, WindowAssumption
    <3>4. issue' \in [Accounts -> Issue]
      BY <2>9, <3>1, <3>3, MarkIssueType DEF HandleBodyBare, Escalate, Reasons
    <3> QED
      BY <2>9, <3>1, <3>2, <3>4 DEF HandleBodyBare, Escalate
  <2>10. ASSUME NEW a \in Accounts, SpawnFailed(a)
         PROVE  TypeOK'
    <3>1. DEGRADED \in Nat
      BY WindowAssumption
    <3>2. issue' \in [Accounts -> Issue]
      BY <2>10, <3>1, MarkIssueType DEF SpawnFailed
    <3> QED
      BY <2>10, <3>2 DEF SpawnFailed
  <2>11. ASSUME NEW a \in Accounts, NEW reason \in OperatorReasons,
                NEW w \in ResetWindows \cup {0}, OperatorSet(a, reason, w)
         PROVE  TypeOK'
    <3>1. reason \in Reasons /\ now + w \in Nat
      BY WindowAssumption
    <3> QED
      BY <2>11, <3>1, MarkUntilType DEF OperatorSet
  <2>12. ASSUME NEW a \in Accounts, OperatorClear(a)
         PROVE  TypeOK'
    BY <2>12 DEF OperatorClear, NoIssue, NoStreak, Issue
  <2>13. ASSUME NEW a \in Accounts, QuotaProbe(a)
         PROVE  TypeOK'
    <3>1. PICK m \in QuotaMarks : MarkUntil(a, m[1], now + m[2])
      BY <2>13 DEF QuotaProbe
    <3>2. m \in {"5hour_limit", "weekly_limit"} \X (ResetWindows \ {0})
      BY DEF QuotaMarks
    <3>3. m[1] \in Reasons /\ now + m[2] \in Nat
      <4>1. m[1] \in {"5hour_limit", "weekly_limit"} /\ m[2] \in ResetWindows
        BY <3>2
      <4>2. m[2] \in Nat
        BY <4>1, WindowAssumption
      <4> QED
        BY <4>1, <4>2 DEF Reasons
    <3> QED
      BY <2>13, <3>1, <3>3, MarkUntilType DEF QuotaProbe
  <2>14. ASSUME NEW a \in Accounts, ReadExpired(a)
         PROVE  TypeOK'
    BY <2>14 DEF ReadExpired, NoIssue, Issue
  <2>15. CASE UNCHANGED vars
    BY <2>15 DEF vars
  <2> QED
    BY <2>1, <2>2, <2>3, <2>4, <2>5, <2>6, <2>7, <2>8, <2>9, <2>10, <2>11,
       <2>12, <2>13, <2>14, <2>15 DEF Next
<1> QED
  BY <1>1, <1>2, PTL DEF Spec

-----------------------------------------------------------------------------
(* The bound on inferred blocks.                                           *)

\* Every window the detectors and the backoff pass lies inside the band.
LEMMA WindowsInBand ==
  /\ MID_BAND \in Nat
  /\ FLOOR \in 0 .. MID_BAND /\ WEEKLY_CAP \in 0 .. MID_BAND
  /\ HINT_5H \in 0 .. MID_BAND /\ HINT_WEEKLY \in 0 .. MID_BAND
  /\ DEGRADED \in 0 .. MID_BAND
  /\ \A n \in Nat : BackoffWindow(n) \in 0 .. MID_BAND
<1>1. /\ MID_BAND \in Nat /\ FLOOR \in Nat /\ SIX_HOURS \in Nat
      /\ CAP \in 0 .. MID_BAND
  BY WindowAssumption, BandAssumption
<1>2. \A n \in Nat : BackoffWindow(n) \in 0 .. MID_BAND
  BY <1>1, BackoffType
<1> QED
  BY <1>1, <1>2, BandAssumption

\* An entry within the bound and not dated ahead of the clock.
Bounded(i) == /\ i.set_at <= now
              /\ ~i.pinned => i.until <= i.set_at + MID_BAND

\* A mark with a window inside the band leaves the whole table bounded.
LEMMA MarkIssueBounded ==
  ASSUME InferredInv, NEW a \in Accounts, NEW kind \in {"rate_limit", "degraded"},
         NEW reason \in Reasons \cup {"prewarm-failed"},
         NEW w \in 0 .. MID_BAND, MarkIssue(a, kind, reason, w)
  PROVE  \A b \in Accounts : Bounded(issue'[b])
<1>1. /\ now \in Nat /\ MID_BAND \in Nat /\ issue[a] \in Issue
      /\ \A b \in Accounts : Bounded(issue[b])
  BY WindowsInBand DEF InferredInv, InferredBlockBounded, TypeOK, Bounded
<1>2. Bounded(Fresh(kind, reason, w))
  BY <1>1 DEF Fresh, Bounded
<1>3. Bounded([issue[a] EXCEPT !.set_at = now])
  BY <1>1 DEF Bounded, Issue
<1>4. Bounded(Merged(issue[a], reason, w))
  BY <1>1 DEF Merged, Bounded, Issue, Larger
<1>5. Bounded(Marked(a, kind, reason, w))
  BY <1>2, <1>3, <1>4 DEF Marked
<1>6. issue' = [issue EXCEPT ![a] = Marked(a, kind, reason, w)]
  BY DEF MarkIssue
<1>7. issue \in [Accounts -> Issue]
  BY DEF InferredInv, TypeOK
<1> QED
  BY <1>1, <1>5, <1>6, <1>7

\* The capped weekly window is inside the band, so inferred marks stay bounded.
LEMMA MarkInferredBounded ==
  ASSUME InferredInv, NEW a \in Accounts, NEW reason \in Reasons, NEW w \in Nat,
         reason # "weekly_limit" => w <= MID_BAND, MarkInferred(a, reason, w)
  PROVE  \A b \in Accounts : Bounded(issue'[b])
<1>1. "rate_limit" \in Reasons
  BY DEF Reasons
<1>2. CASE reason = "weekly_limit" /\ w > WEEKLY_CAP
  BY <1>1, <1>2, WindowsInBand, MarkIssueBounded DEF MarkInferred
<1>3. CASE ~(reason = "weekly_limit" /\ w > WEEKLY_CAP)
  <2>1. w \in 0 .. MID_BAND
    BY <1>3, WindowsInBand
  <2>2. MarkIssue(a, "rate_limit", reason, w)
    BY <1>3 DEF MarkInferred
  <2> QED
    BY <2>1, <2>2, MarkIssueBounded
<1> QED
  BY <1>2, <1>3

\* A 429 seen by one response never blocks its account for days: the bound on
\* inferred blocks holds in every reachable state.
THEOREM InferredBounded == Spec => []InferredBlockBounded
<1>1. Init => InferredInv
  <2>1. Init => TypeOK
    BY DEF Init, TypeOK, NoIssue, NoStreak, Issue
  <2> QED
    BY <2>1, WindowsInBand DEF Init, InferredInv, InferredBlockBounded, NoIssue
<1>2. InferredInv /\ TypeOK' /\ [Next]_vars => InferredInv'
  <2> SUFFICES ASSUME InferredInv, TypeOK', [Next]_vars PROVE InferredInv'
    OBVIOUS
  <2> DEFINE Near(d) == d.form = "event" /\ d.reason # "weekly_limit"
                        => d.until <= now + MID_BAND
  <2>0. /\ TypeOK /\ now \in Nat /\ now' \in Nat /\ now' >= now /\ MID_BAND \in Nat
        /\ \A b \in Accounts : Bounded(issue[b])
        /\ \A d \in det : d \in Detection /\ Near(d)
        /\ NoIssue.set_at = 0 /\ NoIssue.until = 0
    <3>1. /\ TypeOK /\ now \in Nat /\ now' \in Nat /\ MID_BAND \in Nat
          /\ \A b \in Accounts : Bounded(issue[b])
          /\ \A d \in det : d \in Detection /\ Near(d)
      BY WindowsInBand DEF InferredInv, TypeOK, InferredBlockBounded, Bounded
    <3>2. now' >= now
      BY <3>1 DEF Next, vars, Tick, Admit, ChatSuccess, ChatNoOutput, Respond,
           Response429, HandleEvent, HandleBodyReset, HandleBodyHint,
           HandleBodyBare, SpawnFailed, OperatorSet, OperatorClear, QuotaProbe,
           ReadExpired
    <3> QED
      BY <3>1, <3>2 DEF NoIssue
  <2>1. \A d \in det : d.form = "event" /\ d.reason # "weekly_limit"
                        => d.until <= now' + MID_BAND
    BY <2>0 DEF Detection
  <2>2. SUFFICES /\ \A b \in Accounts : /\ issue'[b].set_at <= now'
                                        /\ ~issue'[b].pinned
                                             => issue'[b].until <= issue'[b].set_at + MID_BAND
                 /\ \A d \in det' : d.form = "event" /\ d.reason # "weekly_limit"
                                   => d.until <= now' + MID_BAND
    BY DEF InferredInv, InferredBlockBounded
  <2>3. CASE /\ det' \subseteq det /\ now' = now
             /\ \A b \in Accounts : Bounded(issue'[b])
    BY <2>1, <2>3 DEF Bounded
  <2>4. CASE Tick
    BY <2>0, <2>1, <2>4 DEF Tick, Bounded, TypeOK, Issue
  <2>5. ASSUME NEW r \in Requests, NEW a \in Accounts, Admit(r, a)
        PROVE  det' \subseteq det /\ now' = now /\ issue' = issue
    BY <2>5 DEF Admit
  <2>6. ASSUME NEW x \in inflight, ChatSuccess(x)
        PROVE  /\ det' \subseteq det /\ now' = now
               /\ \A b \in Accounts : Bounded(issue'[b])
    BY <2>0, <2>6 DEF ChatSuccess, Bounded, TypeOK
  <2>7. ASSUME NEW x \in inflight, ChatNoOutput(x)
        PROVE  det' \subseteq det /\ now' = now /\ issue' = issue
    BY <2>7 DEF ChatNoOutput
  <2>8. ASSUME NEW x \in inflight, Respond(x)
        PROVE  /\ now' = now /\ issue' = issue
               /\ \A d \in det' : d.form = "event" /\ d.reason # "weekly_limit"
                                 => d.until <= now' + MID_BAND
    <3>1. PICK h \in {{}} \cup {{w} : w \in ResetWindows}, b \in BodyForms :
               Response429(x, h, b[1], b[2], b[3])
      BY <2>8 DEF Respond
    <3>2. \A w \in h : w \in Nat
      BY <3>1, WindowAssumption
    <3>3. \A d \in HeaderEvents(x, h) : d.reason # "weekly_limit"
                                         => d.until <= now + MID_BAND
      BY <3>2, <2>0 DEF HeaderEvents, classify_rate_limit_reason
    <3>4. b[1] # "event"
      BY DEF BodyForms
    <3>5. \A d \in BodyFindings(x, h, b[1], b[2], b[3]) : d.form # "event"
      BY <3>4 DEF BodyFindings
    <3> QED
      BY <3>1, <3>3, <3>5, <2>1 DEF Response429
  <2>9. ASSUME NEW d \in det, HandleEvent(d)
        PROVE  /\ det' \subseteq det /\ now' = now
               /\ \A b \in Accounts : Bounded(issue'[b])
    <3> DEFINE w == Larger(FLOOR, Smaller(d.until - now, FORTNIGHT))
    <3>1. d \in Detection /\ w \in Nat
      BY <2>0, WindowTypes
    <3>2. d.reason # "weekly_limit" => w <= MID_BAND
      BY <2>0, <2>9, <3>1, WindowsInBand, WindowAssumption
      DEF HandleEvent, Larger, Smaller, Detection
    <3>3. MarkInferred(d.acct, d.reason, w)
      BY <2>9 DEF HandleEvent
    <3>4. \A b \in Accounts : Bounded(issue'[b])
      BY <3>1, <3>2, <3>3, MarkInferredBounded DEF Detection
    <3> QED
      BY <2>9, <3>4 DEF HandleEvent
  <2>10. ASSUME NEW d \in det, HandleBodyReset(d)
         PROVE  /\ det' \subseteq det /\ now' = now
                /\ \A b \in Accounts : Bounded(issue'[b])
    <3> DEFINE w == Larger(FLOOR, d.until - now)
    <3>1. d \in Detection /\ w \in Nat
      BY <2>0, WindowTypes
    <3>2. /\ classify_rate_limit_reason(w) \in Reasons
          /\ classify_rate_limit_reason(w) # "weekly_limit" => w <= MID_BAND
      BY <3>1, WindowsInBand DEF classify_rate_limit_reason, Reasons
    <3>3. MarkInferred(d.acct, classify_rate_limit_reason(w), w)
      BY <2>10 DEF HandleBodyReset
    <3>4. \A b \in Accounts : Bounded(issue'[b])
      BY <3>1, <3>2, <3>3, MarkInferredBounded DEF Detection
    <3> QED
      BY <2>10, <3>4 DEF HandleBodyReset
  <2>11. ASSUME NEW d \in det, HandleBodyHint(d)
         PROVE  /\ det' \subseteq det /\ now' = now
                /\ \A b \in Accounts : Bounded(issue'[b])
    <3> DEFINE w == IF d.reason = "weekly_limit" THEN HINT_WEEKLY ELSE HINT_5H
    <3>1. d \in Detection /\ w \in Nat /\ w <= MID_BAND
      BY <2>0, WindowsInBand
    <3>2. MarkInferred(d.acct, d.reason, w)
      BY <2>11 DEF HandleBodyHint
    <3>3. \A b \in Accounts : Bounded(issue'[b])
      BY <3>1, <3>2, MarkInferredBounded DEF Detection
    <3> QED
      BY <2>11, <3>3 DEF HandleBodyHint
  <2>12. ASSUME NEW d \in det, HandleBodyBare(d)
         PROVE  /\ det' \subseteq det /\ now' = now
                /\ \A b \in Accounts : Bounded(issue'[b])
    <3>1. d.acct \in Accounts
      BY <2>0 DEF Detection
    <3>2. NextStreak(streak[d.acct]) \in Nat
      BY <2>0, <3>1 DEF NextStreak, TypeOK
    <3>3. BackoffWindow(NextStreak(streak[d.acct])) \in 0 .. MID_BAND
      BY <3>2, WindowsInBand
    <3>4. \A b \in Accounts : Bounded(issue'[b])
      BY <2>12, <3>1, <3>3, MarkIssueBounded DEF HandleBodyBare, Escalate, Reasons
    <3> QED
      BY <2>12, <3>4 DEF HandleBodyBare
  <2>13. ASSUME NEW a \in Accounts, SpawnFailed(a)
         PROVE  /\ det' \subseteq det /\ now' = now
                /\ \A b \in Accounts : Bounded(issue'[b])
    BY <2>13, WindowsInBand, MarkIssueBounded DEF SpawnFailed
  <2>14. ASSUME NEW a \in Accounts, NEW reason, NEW u, MarkUntil(a, reason, u)
         PROVE  \A b \in Accounts : Bounded(issue'[b])
    BY <2>0, <2>14 DEF MarkUntil, Bounded, TypeOK
  <2>15. ASSUME NEW a \in Accounts, OperatorClear(a) \/ ReadExpired(a)
         PROVE  \A b \in Accounts : Bounded(issue'[b])
    BY <2>0, <2>15 DEF OperatorClear, ReadExpired, Bounded, TypeOK
  <2>16. CASE \E a \in Accounts :
                \/ \E reason \in OperatorReasons, w \in ResetWindows \cup {0} :
                     OperatorSet(a, reason, w)
                \/ OperatorClear(a) \/ QuotaProbe(a) \/ ReadExpired(a)
    <3>1. det' \subseteq det /\ now' = now
      BY <2>16 DEF OperatorSet, OperatorClear, QuotaProbe, ReadExpired
    <3>2. \A b \in Accounts : Bounded(issue'[b])
      BY <2>14, <2>15, <2>16 DEF OperatorSet, QuotaProbe
    <3> QED
      BY <2>3, <3>1, <3>2
  <2>17. CASE UNCHANGED vars
    BY <2>0, <2>3, <2>17 DEF vars
  <2>18. CASE \E r \in Requests, a \in Accounts : Admit(r, a)
    BY <2>0, <2>3, <2>5, <2>18
  <2>19. CASE \E x \in inflight : ChatSuccess(x) \/ ChatNoOutput(x)
    BY <2>0, <2>3, <2>6, <2>7, <2>19
  <2>20. CASE \E x \in inflight : Respond(x)
    BY <2>0, <2>8, <2>20 DEF Bounded
  <2>21. CASE \E d \in det : \/ HandleEvent(d) \/ HandleBodyReset(d)
                              \/ HandleBodyHint(d) \/ HandleBodyBare(d)
    BY <2>3, <2>9, <2>10, <2>11, <2>12, <2>21
  <2>22. CASE \E a \in Accounts : SpawnFailed(a)
    BY <2>3, <2>13, <2>22
  <2> QED
    BY <2>4, <2>16, <2>17, <2>18, <2>19, <2>20, <2>21, <2>22 DEF Next
<1>3. InferredInv => InferredBlockBounded
  BY DEF InferredInv
<1> QED
  BY <1>1, <1>2, <1>3, TypeCorrect, PTL DEF Spec

-----------------------------------------------------------------------------
(* Authoritative weekly evidence, and what may weaken a block.             *)

\* Marks in force are never weakened by another detection.
LEMMA MarkedNotWeaker ==
  ASSUME TypeOK, NEW a \in Accounts, NEW kind \in {"rate_limit", "degraded"},
         NEW reason \in Reasons \cup {"prewarm-failed"}, NEW w \in Nat,
         Blocked(a), issue[a].kind = "rate_limit"
  PROVE  /\ ~Weaker(Marked(a, kind, reason, w), issue[a])
         /\ Marked(a, kind, reason, w).pinned = issue[a].pinned
<1>1. issue[a] \in Issue /\ now \in Nat
  BY DEF TypeOK
<1>2. CASE kind = "degraded"
  <2>1. Marked(a, kind, reason, w) = [issue[a] EXCEPT !.set_at = now]
    BY <1>2 DEF Marked
  <2>2. \A r : Level(r) \in {0, 1, 2}
    BY DEF Level
  <2> QED
    BY <1>1, <2>1, <2>2 DEF Weaker, Issue
<1>3. CASE kind = "rate_limit"
  <2>1. Marked(a, kind, reason, w) = Merged(issue[a], reason, w)
    BY <1>3 DEF Marked
  <2>2. \A r : Level(r) \in {0, 1, 2}
    BY DEF Level
  <2>3. Larger(issue[a].until, now + w) >= issue[a].until
    BY <1>1 DEF Larger, Issue
  <2> DEFINE new == Merged(issue[a], reason, w)
  <2>4. /\ new.kind = issue[a].kind /\ new.pinned = issue[a].pinned
        /\ new.until = Larger(issue[a].until, now + w)
    BY <1>1 DEF Merged, Issue
  <2>5. \/ new.reason = issue[a].reason
        \/ Level(new.reason) > Level(issue[a].reason)
    BY <1>1 DEF Merged, Issue
  <2>6. Level(new.reason) >= Level(issue[a].reason)
    BY <2>2, <2>5
  <2>7. new.until >= issue[a].until
    BY <2>3, <2>4
  <2>8. ~(new.until < issue[a].until)
    <3>1. new.until \in Nat /\ issue[a].until \in Nat
      BY <1>1, <2>4 DEF Larger, Issue
    <3> QED
      BY <2>7, <3>1
  <2>9. ~(Level(new.reason) < Level(issue[a].reason))
    BY <2>2, <2>6
  <2> QED
    BY <2>1, <2>4, <2>8, <2>9 DEF Weaker
<1> QED
  BY <1>2, <1>3

\* The same for every entry of the table after one mark.
LEMMA MarkIssueNotWeaker ==
  ASSUME TypeOK, NEW a \in Accounts, NEW kind \in {"rate_limit", "degraded"},
         NEW reason \in Reasons \cup {"prewarm-failed"}, NEW w \in Nat,
         MarkIssue(a, kind, reason, w),
         NEW b \in Accounts, Blocked(b), issue[b].kind = "rate_limit"
  PROVE  ~Weaker(issue'[b], issue[b]) /\ issue'[b].pinned = issue[b].pinned
<1>1. CASE a = b
  BY <1>1, MarkedNotWeaker DEF MarkIssue, TypeOK
<1>2. CASE a # b
  <2>1. issue'[b] = issue[b] /\ issue[b] \in Issue
    BY <1>2 DEF MarkIssue, TypeOK
  <2>2. \A r : Level(r) \in {0, 1, 2}
    BY DEF Level
  <2> QED
    BY <2>1, <2>2 DEF Weaker, Issue
<1> QED
  BY <1>1, <1>2

\* Handling any detection, or a failed spawn, is one mark with some window.
LEMMA DetectionIsMark ==
  ASSUME TypeOK,
         \/ \E d \in det : \/ HandleEvent(d) \/ HandleBodyReset(d)
                            \/ HandleBodyHint(d) \/ HandleBodyBare(d)
         \/ \E a \in Accounts : SpawnFailed(a)
  PROVE  \E a \in Accounts, kind \in {"rate_limit", "degraded"},
            reason \in Reasons \cup {"prewarm-failed"}, w \in Nat :
              MarkIssue(a, kind, reason, w)
<1> DEFINE Goal == \E a \in Accounts, kind \in {"rate_limit", "degraded"},
                     reason \in Reasons \cup {"prewarm-failed"}, w \in Nat :
                       MarkIssue(a, kind, reason, w)
<1>1. ASSUME NEW a \in Accounts, NEW reason \in Reasons, NEW w \in Nat,
             MarkInferred(a, reason, w)
      PROVE  Goal
  <2>1. WEEKLY_CAP \in Nat /\ "rate_limit" \in Reasons
    BY WindowAssumption DEF Reasons
  <2> QED
    BY <1>1, <2>1 DEF MarkInferred
<1>2. \A w : classify_rate_limit_reason(w) \in Reasons
  BY DEF classify_rate_limit_reason, Reasons
<1>3. ASSUME NEW d \in det, HandleEvent(d) PROVE Goal
  BY <1>1, <1>3, WindowTypes DEF HandleEvent, Detection
<1>4. ASSUME NEW d \in det, HandleBodyReset(d) PROVE Goal
  BY <1>1, <1>2, <1>4, WindowTypes DEF HandleBodyReset, Detection
<1>5. ASSUME NEW d \in det, HandleBodyHint(d) PROVE Goal
  <2>1. HINT_WEEKLY \in Nat /\ HINT_5H \in Nat
    BY WindowAssumption
  <2> QED
    BY <1>1, <1>5, <2>1, WindowTypes DEF HandleBodyHint, Detection
<1>6. ASSUME NEW d \in det, HandleBodyBare(d) PROVE Goal
  <2>1. d.acct \in Accounts
    BY WindowTypes DEF Detection
  <2>2. NextStreak(streak[d.acct]) \in Nat
    BY <2>1 DEF NextStreak, TypeOK
  <2>3. BackoffWindow(NextStreak(streak[d.acct])) \in Nat
    BY <2>2, BackoffType, WindowAssumption
  <2>4. MarkIssue(d.acct, "rate_limit", "rate_limit",
                  BackoffWindow(NextStreak(streak[d.acct])))
    BY <1>6 DEF HandleBodyBare, Escalate
  <2> QED
    BY <2>1, <2>3, <2>4 DEF Reasons
<1>7. ASSUME NEW a \in Accounts, SpawnFailed(a) PROVE Goal
  <2>1. DEGRADED \in Nat
    BY WindowAssumption
  <2> QED
    BY <1>7, <2>1 DEF SpawnFailed
<1> QED
  BY <1>3, <1>4, <1>5, <1>6, <1>7

\* No interleaving of detections weakens a rate-limit block that is in force;
\* only a completed chat of that account or an authority does.
THEOREM EvidenceWeakens == Spec => OnlyEvidenceWeakens
<1>1. TypeOK /\ [Next]_vars =>
        [\A a \in Accounts :
           Blocked(a) /\ issue[a].kind = "rate_limit" /\ Weaker(issue'[a], issue[a])
           => \/ \E x \in inflight : ChatSuccess(x) /\ x.acct = a
              \/ Authority(a)]_vars
  <2> SUFFICES ASSUME TypeOK, Next, NEW a \in Accounts,
                      Blocked(a), issue[a].kind = "rate_limit",
                      Weaker(issue'[a], issue[a])
               PROVE  \/ \E x \in inflight : ChatSuccess(x) /\ x.acct = a
                      \/ Authority(a)
    OBVIOUS
  <2>1. \A r : Level(r) \in {0, 1, 2}
    BY DEF Level
  <2>2. issue[a] \in Issue /\ now \in Nat
    BY DEF TypeOK
  <2>3. issue'[a] # issue[a]
    BY <2>1, <2>2 DEF Weaker, Issue
  <2>4. CASE Tick \/ \E r \in Requests, b \in Accounts : Admit(r, b)
    BY <2>3, <2>4 DEF Tick, Admit
  <2>5. CASE \E x \in inflight : ChatSuccess(x)
    BY <2>3, <2>5 DEF ChatSuccess, TypeOK
  <2>6. CASE \E x \in inflight : ChatNoOutput(x) \/ Respond(x)
    BY <2>3, <2>6 DEF ChatNoOutput, Respond, Response429
  <2>7. CASE \/ \E d \in det : \/ HandleEvent(d) \/ HandleBodyReset(d)
                                \/ HandleBodyHint(d) \/ HandleBodyBare(d)
             \/ \E b \in Accounts : SpawnFailed(b)
    BY <2>7, DetectionIsMark, MarkIssueNotWeaker
  <2>8. CASE \E b \in Accounts, reason \in OperatorReasons,
               w \in ResetWindows \cup {0} : OperatorSet(b, reason, w)
    BY <2>3, <2>8 DEF OperatorSet, MarkUntil, Authority, TypeOK
  <2>9. CASE \E b \in Accounts : OperatorClear(b)
    BY <2>3, <2>9 DEF OperatorClear, Authority, TypeOK
  <2>10. CASE \E b \in Accounts : QuotaProbe(b)
    BY <2>3, <2>10 DEF QuotaProbe, MarkUntil, Authority, TypeOK
  <2>11. CASE \E b \in Accounts : ReadExpired(b)
    BY <2>2, <2>3, <2>11 DEF ReadExpired, Blocked, TypeOK, Issue
  <2> QED
    BY <2>4, <2>5, <2>6, <2>7, <2>8, <2>9, <2>10, <2>11 DEF Next
<1> QED
  BY <1>1, TypeCorrect, PTL DEF Spec, OnlyEvidenceWeakens

\* What an authority said about the weekly limit outlives all traffic.
THEOREM WeeklyEvidence == Spec => []WeeklyEvidenceHolds
<1> DEFINE Holds(a) ==
      stated[a].reason = "weekly_limit" /\ now < stated[a].until =>
        /\ issue[a].kind = "rate_limit" /\ issue[a].reason = "weekly_limit"
        /\ issue[a].pinned /\ issue[a].until >= stated[a].until
<1>1. Init => WeeklyEvidenceHolds
  BY DEF Init, WeeklyEvidenceHolds
<1>2. TypeOK /\ TypeOK' /\ WeeklyEvidenceHolds /\ [Next]_vars => WeeklyEvidenceHolds'
  <2> SUFFICES ASSUME TypeOK, TypeOK', WeeklyEvidenceHolds, [Next]_vars,
                      NEW a \in Accounts,
                      stated'[a].reason = "weekly_limit", now' < stated'[a].until
               PROVE  /\ issue'[a].kind = "rate_limit"
                      /\ issue'[a].reason = "weekly_limit" /\ issue'[a].pinned
                      /\ issue'[a].until >= stated'[a].until
    BY DEF WeeklyEvidenceHolds
  <2>1. /\ now \in Nat /\ now' \in Nat
        /\ issue[a] \in Issue /\ stated[a].until \in Nat
    BY DEF TypeOK
  <2>2. ASSUME stated' = stated, now' >= now
        PROVE  /\ issue[a].kind = "rate_limit" /\ issue[a].reason = "weekly_limit"
               /\ issue[a].pinned /\ issue[a].until >= stated[a].until
               /\ Blocked(a)
    <3>1. now < stated[a].until
      BY <2>1, <2>2
    <3> QED
      BY <2>1, <2>2, <3>1 DEF WeeklyEvidenceHolds, Blocked, Issue
  <2>3. ASSUME stated' = stated, now' >= now, issue'[a] = issue[a]
        PROVE  /\ issue'[a].kind = "rate_limit"
               /\ issue'[a].reason = "weekly_limit" /\ issue'[a].pinned
               /\ issue'[a].until >= stated'[a].until
    BY <2>2, <2>3
  <2>4. CASE Tick \/ (\E r \in Requests, b \in Accounts : Admit(r, b))
               \/ UNCHANGED vars
    BY <2>1, <2>3, <2>4 DEF Tick, Admit, vars
  <2>5. CASE \E x \in inflight : ChatSuccess(x)
    <3>1. stated' = stated /\ now' >= now
      BY <2>1, <2>5 DEF ChatSuccess
    <3>2. ~Demotable(issue[a])
      BY <2>2, <3>1 DEF Demotable
    <3>3. issue'[a] = issue[a]
      BY <2>5, <3>2 DEF ChatSuccess, TypeOK
    <3> QED
      BY <2>3, <3>1, <3>3
  <2>6. CASE \E x \in inflight : ChatNoOutput(x) \/ Respond(x)
    BY <2>1, <2>3, <2>6 DEF ChatNoOutput, Respond, Response429
  <2>7. CASE \/ \E d \in det : \/ HandleEvent(d) \/ HandleBodyReset(d)
                                \/ HandleBodyHint(d) \/ HandleBodyBare(d)
             \/ \E b \in Accounts : SpawnFailed(b)
    <3>1. stated' = stated /\ now' = now
      BY <2>7 DEF HandleEvent, HandleBodyReset, HandleBodyHint, HandleBodyBare,
                  SpawnFailed
    <3>2. /\ issue[a].kind = "rate_limit" /\ issue[a].reason = "weekly_limit"
          /\ issue[a].pinned /\ issue[a].until >= stated[a].until /\ Blocked(a)
      BY <2>1, <2>2, <3>1
    <3>3. ~Weaker(issue'[a], issue[a]) /\ issue'[a].pinned = issue[a].pinned
      BY <2>7, <3>2, DetectionIsMark, MarkIssueNotWeaker
    <3>4. issue'[a] \in Issue
      BY DEF TypeOK
    <3>5. issue'[a].reason = "weekly_limit"
      BY <3>2, <3>3 DEF Weaker, Level
    <3> QED
      BY <2>1, <3>1, <3>2, <3>3, <3>4, <3>5 DEF Weaker, Issue
  <2>8. ASSUME NEW b \in Accounts, NEW reason, NEW u \in Nat, MarkUntil(b, reason, u),
               now' = now
        PROVE  /\ issue'[a].kind = "rate_limit"
               /\ issue'[a].reason = "weekly_limit" /\ issue'[a].pinned
               /\ issue'[a].until >= stated'[a].until
    BY <2>1, <2>8 DEF MarkUntil, TypeOK, WeeklyEvidenceHolds
  <2>9. CASE \E b \in Accounts, reason \in OperatorReasons,
               w \in ResetWindows \cup {0} : OperatorSet(b, reason, w)
    BY <2>1, <2>8, <2>9, WindowAssumption DEF OperatorSet
  <2>10. CASE \E b \in Accounts : OperatorClear(b)
    BY <2>1, <2>10 DEF OperatorClear, TypeOK, WeeklyEvidenceHolds
  <2>11. CASE \E b \in Accounts : QuotaProbe(b)
    <3>1. PICK b \in Accounts, m \in QuotaMarks :
               MarkUntil(b, m[1], now + m[2]) /\ now' = now
      BY <2>11 DEF QuotaProbe
    <3>2. m \in {"5hour_limit", "weekly_limit"} \X (ResetWindows \ {0})
      BY DEF QuotaMarks
    <3>3. m[2] \in ResetWindows
      BY <3>2
    <3>4. m[2] \in Nat
      BY <3>3, WindowAssumption
    <3>5. now + m[2] \in Nat
      BY <2>1, <3>4
    <3> QED
      BY <2>8, <3>1, <3>5
  <2>12. CASE \E b \in Accounts : ReadExpired(b)
    <3>1. stated' = stated /\ now' >= now
      BY <2>1, <2>12 DEF ReadExpired
    <3>2. issue'[a] = issue[a]
      BY <2>1, <2>2, <2>12, <3>1 DEF ReadExpired, Blocked, TypeOK, Issue
    <3> QED
      BY <2>3, <3>1, <3>2
  <2> QED
    BY <2>4, <2>5, <2>6, <2>7, <2>9, <2>10, <2>11, <2>12 DEF Next
<1> QED
  BY <1>1, <1>2, TypeCorrect, PTL DEF Spec

=============================================================================
