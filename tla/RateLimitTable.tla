--------------------------- MODULE RateLimitTable ---------------------------
(***************************************************************************)
(* The per-account rate-limit table of SessionManager                      *)
(* (src/src/session/manager.py) and everything that writes to it: the two  *)
(* detectors a 429 response passes (the addon's reset-header event and the *)
(* scan of the response body in src/src/session/session.py), the           *)
(* success-demote run by the usage callback, failed spawns, the /usage     *)
(* quota probe (src/src/quota_probe.py) and the operator                   *)
(* (src/src/api/admin.py).                                                 *)
(*                                                                         *)
(* Time is one integer clock (the code reads time.time() for the marks and *)
(* time.monotonic() for the backoff; both advance together here).  Windows *)
(* keep the code's order, not its seconds.                                 *)
(***************************************************************************)
EXTENDS Integers, Functions

CONSTANTS
  Accounts,      (* the configured accounts                                *)
  Requests,      (* identities of concurrent /v1/messages                  *)
  ResetWindows,  (* distances to a reset moment that headers, bodies, the  *)
                 (* quota snapshot and the operator may state              *)
  OperatorReasons, (* the labels the operator gives                       *)
  MaxTime,       (* bound on the clock                                     *)
  DEBOUNCE,      (* _RL_BURST_DEBOUNCE_SECONDS                             *)
  FLOOR,         (* the 60 s floor of both detectors                       *)
  BASE, CAP,     (* rate_limit_base / rate_limit_max _cooldown_seconds     *)
  DEGRADED,      (* the window of a degraded mark                          *)
  HINT_5H, HINT_WEEKLY, (* default windows of the body-text hints          *)
  WEEKLY_CAP,    (* _WEEKLY_INFERENCE_CAP_SECONDS                          *)
  SIX_HOURS, MID_BAND,  (* the thresholds of classify_rate_limit_reason    *)
  FORTNIGHT      (* upper clamp of the rate_limit event                    *)

\* The labels of a rate_limit mark; "manual" stands for any other text.
Reasons == {"5hour_limit", "rate_limit", "weekly_limit", "manual"}

ASSUME WindowAssumption ==
  /\ MaxTime \in Nat /\ ResetWindows \subseteq Nat
  /\ OperatorReasons \subseteq Reasons
  /\ {DEBOUNCE, FLOOR, BASE, CAP, DEGRADED, HINT_5H, HINT_WEEKLY,
      WEEKLY_CAP, SIX_HOURS, MID_BAND, FORTNIGHT} \subseteq Nat \ {0}

\* Every window an inferred mark may carry stays inside the middle band.
ASSUME BandAssumption ==
  /\ FLOOR <= SIX_HOURS /\ SIX_HOURS <= MID_BAND
  /\ {CAP, DEGRADED, HINT_5H, HINT_WEEKLY, WEEKLY_CAP} \subseteq 0 .. MID_BAND

VARIABLES
  now,       \* the clock
  issue,     \* _account_rl: account -> AccountIssue, NoIssue when absent
  streak,    \* _rl_streak: account -> (streak, time of the last bare 429)
  inflight,  \* chat requests a worker is serving
  det,       \* detections of a 429 not yet handled by the read loop
  stated     \* history: the latest reset an authority stated (0: none)

vars == <<now, issue, streak, inflight, det, stated>>

-----------------------------------------------------------------------------
Issue == [kind : {"none", "rate_limit", "degraded"},
          reason : Reasons \cup {"none", "prewarm-failed"},
          set_at : Nat, until : Nat, pinned : BOOLEAN]
NoIssue == [kind |-> "none", reason |-> "none", set_at |-> 0, until |-> 0,
            pinned |-> FALSE]
NoStreak == [n |-> 0, last |-> 0]

\* A chat request: the account that serves it and when it was submitted.
Inflight == [req : Requests, acct : Accounts, start : Nat]
\* One detection: form "event" is the rate_limit IPC event; the others are
\* what the body scan finds.  timed: the response had a reset header.
Detection == [req : Requests, acct : Accounts, reason : Reasons, until : Nat,
              form : {"event", "reset", "hint", "bare"}, timed : BOOLEAN]

TypeOK ==
  /\ now \in Nat
  /\ issue \in [Accounts -> Issue]
  /\ streak \in [Accounts -> [n : Nat, last : Nat]]
  /\ inflight \in SUBSET Inflight
  /\ det \in SUBSET Detection
  /\ stated \in [Accounts -> [reason : Reasons \cup {"none"}, until : Nat]]

Larger(x, y) == IF x >= y THEN x ELSE y
Smaller(x, y) == IF x <= y THEN x ELSE y

classify_rate_limit_reason(w) ==
  IF w > MID_BAND THEN "weekly_limit"
  ELSE IF w > SIX_HOURS THEN "rate_limit" ELSE "5hour_limit"

\* _REASON_LEVEL.get(reason, 1)
Level(reason) ==
  CASE reason = "5hour_limit" -> 0
    [] reason = "weekly_limit" -> 2
    [] OTHER -> 1

\* is_account_rate_limited: the mark is there and its window is not over.
Blocked(a) == issue[a].kind # "none" /\ now < issue[a].until

-----------------------------------------------------------------------------
\* The entry that replaces whatever the account had.
Fresh(kind, reason, window) ==
  [kind |-> kind, reason |-> reason, set_at |-> now, until |-> now + window,
   pinned |-> FALSE]

\* Same kind on both sides: the longer window survives and a rate_limit
\* label is promoted, never demoted, by the size of that window.
Merged(old, reason, window) ==
  LET until == Larger(old.until, now + window)
      sized == classify_rate_limit_reason(until - now)
      label == IF old.kind = "degraded" THEN reason
               ELSE IF Level(sized) > Level(old.reason) THEN sized
               ELSE old.reason
  IN [old EXCEPT !.reason = label, !.until = until, !.set_at = now]

\* Mutant: a degraded mark replaces a rate-limit mark in force.
MarkedByKind(a, kind, reason, window) ==
  IF Blocked(a) /\ issue[a].kind = kind THEN Merged(issue[a], reason, window)
  ELSE Fresh(kind, reason, window)

Marked(a, kind, reason, window) ==
  LET old == issue[a] IN
  IF Blocked(a) /\ old.kind = "rate_limit" /\ kind = "degraded"
  THEN [old EXCEPT !.set_at = now]
  ELSE IF Blocked(a) /\ old.kind = kind THEN Merged(old, reason, window)
  ELSE Fresh(kind, reason, window)

\* _mark_account_issue
MarkIssue(a, kind, reason, window) ==
  issue' = [issue EXCEPT ![a] = Marked(a, kind, reason, window)]

\* Mutant: the weekly window of a single response is believed.
MarkInferredUncapped(a, reason, window) ==
  MarkIssue(a, "rate_limit", reason, window)

\* The non-escalating half of mark_account_rate_limited: a weekly window
\* inferred from one response is capped and loses its label.
MarkInferred(a, reason, window) ==
  IF reason = "weekly_limit" /\ window > WEEKLY_CAP
  THEN MarkIssue(a, "rate_limit", "rate_limit", WEEKLY_CAP)
  ELSE MarkIssue(a, "rate_limit", reason, window)

\* min(base * 2^(n-1), cap)
BackoffWindow(n) ==
  IF BASE * 2^(n - 1) \in 0 .. CAP THEN BASE * 2^(n - 1) ELSE CAP

\* The streak after one more bare 429 now.
NextStreak(s) ==
  LET gap == now - s.last IN
  IF s.n >= 1 /\ gap < DEBOUNCE THEN s.n
  ELSE IF gap > CAP THEN 1
  ELSE s.n + 1

\* mark_account_rate_limited(escalate=True): _next_rl_backoff then the mark.
Escalate(a) ==
  LET n == NextStreak(streak[a]) IN
  /\ streak' = [streak EXCEPT ![a] = [n |-> n, last |-> now]]
  /\ MarkIssue(a, "rate_limit", "rate_limit", BackoffWindow(n))

-----------------------------------------------------------------------------
Init ==
  /\ now = 0
  /\ issue = [a \in Accounts |-> NoIssue]
  /\ streak = [a \in Accounts |-> NoStreak]
  /\ inflight = {}
  /\ det = {}
  /\ stated = [a \in Accounts |-> [reason |-> "none", until |-> 0]]

Tick ==
  /\ now < MaxTime
  /\ now' = now + 1
  /\ UNCHANGED <<issue, streak, inflight, det, stated>>

\* A request reaches a worker of the account (a limited account may still
\* get traffic: pick falls back to it, prewarm and keepalive ignore marks).
Admit(r, a) ==
  /\ \A x \in inflight \cup det : x.req # r
  /\ inflight' = inflight \cup {[req |-> r, acct |-> a, start |-> now]}
  /\ UNCHANGED <<now, issue, streak, det, stated>>

\* Mutant: a success demotes whatever the source of the mark.
DemotableAlways(i) == i.kind = "rate_limit"

\* demote_on_success
Demotable(i) ==
  /\ i.kind = "rate_limit"
  /\ ~(i.pinned /\ i.reason = "weekly_limit")

\* _on_worker_usage with output_tokens > 0
ChatSuccess(x) ==
  /\ x \in inflight
  /\ inflight' = inflight \ {x}
  /\ issue' = IF Demotable(issue[x.acct])
              THEN [issue EXCEPT ![x.acct] = NoIssue] ELSE issue
  /\ UNCHANGED <<now, streak, det, stated>>

\* The response ended without output tokens: no usage, nothing is demoted.
ChatNoOutput(x) ==
  /\ x \in inflight
  /\ inflight' = inflight \ {x}
  /\ UNCHANGED <<now, issue, streak, det, stated>>

\* The rate_limit event of a response whose reset headers (latest wins) or
\* TUI modal lie h ahead; the label is decided where the event is built.
HeaderEvents(x, h) ==
  {[req |-> x.req, acct |-> x.acct, form |-> "event", timed |-> TRUE,
    until |-> now + w, reason |-> classify_rate_limit_reason(w)] : w \in h}

\* What the one-shot body scan of the same response will find.
BodyFindings(x, h, form, reason, w) ==
  IF form = "none" THEN {}
  ELSE {[req |-> x.req, acct |-> x.acct, form |-> form, timed |-> h # {},
         until |-> IF form = "reset" THEN now + w ELSE 0, reason |-> reason]}

\* The worker reports a limit: h is empty or holds the header's distance;
\* the body states a reset, hints at a limit by name, or says neither; it is
\* absent when a TUI modal was found after an intercept timeout.
Response429(x, h, form, reason, w) ==
  /\ x \in inflight
  /\ h # {} \/ form # "none"
  /\ inflight' = inflight \ {x}
  /\ det' = det \cup HeaderEvents(x, h) \cup BodyFindings(x, h, form, reason, w)
  /\ UNCHANGED <<now, issue, streak, stated>>

\* _handle_worker_rate_limit_event
HandleEvent(d) ==
  /\ d \in det /\ d.form = "event"
  /\ det' = det \ {d}
  /\ MarkInferred(d.acct, d.reason,
                  Larger(FLOOR, Smaller(d.until - now, FORTNIGHT)))
  /\ UNCHANGED <<now, streak, inflight, stated>>

\* _maybe_detect_rate_limit, reset time parsed from the body
HandleBodyReset(d) ==
  LET w == Larger(FLOOR, d.until - now) IN
  /\ d \in det /\ d.form = "reset"
  /\ det' = det \ {d}
  /\ MarkInferred(d.acct, classify_rate_limit_reason(w), w)
  /\ UNCHANGED <<now, streak, inflight, stated>>

\* _maybe_detect_rate_limit, only a name in the text
HandleBodyHint(d) ==
  /\ d \in det /\ d.form = "hint"
  /\ det' = det \ {d}
  /\ MarkInferred(d.acct, d.reason,
                  IF d.reason = "weekly_limit" THEN HINT_WEEKLY ELSE HINT_5H)
  /\ UNCHANGED <<now, streak, inflight, stated>>

\* _maybe_detect_rate_limit, bare rate_limit_error
HandleBodyBare(d) ==
  /\ d \in det /\ d.form = "bare"
  /\ det' = det \ {d}
  /\ Escalate(d.acct)
  /\ UNCHANGED <<now, inflight, stated>>

\* Mutant: kind and reason swapped in the call.
SpawnFailedSwapped(a) ==
  /\ MarkIssue(a, "prewarm-failed", "degraded", DEGRADED)
  /\ UNCHANGED <<now, streak, inflight, det, stated>>

\* mark_account_degraded after a failed spawn or prewarm
SpawnFailed(a) ==
  /\ MarkIssue(a, "degraded", "prewarm-failed", DEGRADED)
  /\ UNCHANGED <<now, streak, inflight, det, stated>>

\* mark_account_rate_limited_until: verbatim, over whatever was there; a
\* past moment removes the mark and leaves the streak.
MarkUntil(a, reason, until) ==
  IF until <= now
  THEN /\ issue' = [issue EXCEPT ![a] = NoIssue]
       /\ stated' = [stated EXCEPT ![a] = [reason |-> "none", until |-> 0]]
  ELSE /\ issue' = [issue EXCEPT ![a] =
             [kind |-> "rate_limit", reason |-> reason, set_at |-> now,
              until |-> until, pinned |-> TRUE]]
       /\ stated' = [stated EXCEPT ![a] = [reason |-> reason, until |-> until]]

\* POST /admin/accounts/{account}/set-rate-limit
OperatorSet(a, reason, w) ==
  /\ MarkUntil(a, reason, now + w)
  /\ UNCHANGED <<now, streak, inflight, det>>

\* clear_account_rate_limit
OperatorClear(a) ==
  /\ issue' = [issue EXCEPT ![a] = NoIssue]
  /\ streak' = [streak EXCEPT ![a] = NoStreak]
  /\ stated' = [stated EXCEPT ![a] = [reason |-> "none", until |-> 0]]
  /\ UNCHANGED <<now, inflight, det>>

\* The windows of the /usage snapshot and the label each one gives.
WindowLabel == [five_hour |-> "5hour_limit", seven_day |-> "weekly_limit",
                seven_day_sonnet |-> "weekly_limit"]

\* _maybe_mark_from_quota: saturated maps each window at 100% to the distance
\* of its future reset; m is the mark it leads to: the latest reset, with the
\* label of the first window on a tie.
LatestSaturated(saturated, m) ==
  /\ \A w \in Range(saturated) : w <= m[2]
  /\ \E k \in DOMAIN saturated : m = <<WindowLabel[k], saturated[k]>>
  /\ "five_hour" \in DOMAIN saturated /\ saturated.five_hour = m[2]
       => m[1] = "5hour_limit"

\* Every mark some snapshot leads to.
QuotaMarks ==
  {m \in {"5hour_limit", "weekly_limit"} \X (ResetWindows \ {0}) :
     \E S \in SUBSET DOMAIN WindowLabel :
       \E f \in [S -> ResetWindows \ {0}] : LatestSaturated(f, m)}

\* A /usage snapshot with at least one saturated window is recorded.
QuotaProbe(a) ==
  \E m \in QuotaMarks :
    /\ MarkUntil(a, m[1], now + m[2])
    /\ UNCHANGED <<now, streak, inflight, det>>

\* is_account_rate_limited / account_rate_limit drop an expired mark on read.
ReadExpired(a) ==
  /\ issue[a].kind # "none" /\ now >= issue[a].until
  /\ issue' = [issue EXCEPT ![a] = NoIssue]
  /\ UNCHANGED <<now, streak, inflight, det, stated>>

-----------------------------------------------------------------------------
Detect(d) == HandleEvent(d) \/ HandleBodyReset(d) \/ HandleBodyHint(d)
             \/ HandleBodyBare(d)

BodyForms ==
  {<<"none", "rate_limit", 0>>, <<"bare", "rate_limit", 0>>,
   <<"hint", "5hour_limit", 0>>, <<"hint", "weekly_limit", 0>>}
  \cup {<<"reset", "rate_limit", w>> : w \in ResetWindows}

Respond(x) ==
  \E h \in {{}} \cup {{w} : w \in ResetWindows}, b \in BodyForms :
    Response429(x, h, b[1], b[2], b[3])

\* What the operator and the quota probe may do to an account.
Authority(a) ==
  \/ \E reason \in OperatorReasons, w \in ResetWindows \cup {0} : OperatorSet(a, reason, w)
  \/ OperatorClear(a)
  \/ QuotaProbe(a)

Next ==
  \/ Tick
  \/ \E r \in Requests, a \in Accounts : Admit(r, a)
  \/ \E x \in inflight : ChatSuccess(x)
  \/ \E x \in inflight : ChatNoOutput(x)
  \/ \E x \in inflight : Respond(x)
  \/ \E d \in det : HandleEvent(d)
  \/ \E d \in det : HandleBodyReset(d)
  \/ \E d \in det : HandleBodyHint(d)
  \/ \E d \in det : HandleBodyBare(d)
  \/ \E a \in Accounts : SpawnFailed(a)
  \/ \E a \in Accounts, reason \in OperatorReasons, w \in ResetWindows \cup {0} :
       OperatorSet(a, reason, w)
  \/ \E a \in Accounts : OperatorClear(a)
  \/ \E a \in Accounts : QuotaProbe(a)
  \/ \E a \in Accounts : ReadExpired(a)

Spec == Init /\ [][Next]_vars

-----------------------------------------------------------------------------
(* Properties that hold.                                                   *)

\* However 429 headers, bodies, hints, backoff and failed spawns overlap, a
\* mark no authority stated never blocks beyond the middle band counted from
\* its last evidence: one advisory reset days ahead cannot lock an account
\* out for days (the cap in mark_account_rate_limited and the merge).
InferredBlockBounded ==
  \A a \in Accounts : ~issue[a].pinned => issue[a].until <= issue[a].set_at + MID_BAND

\* What makes InferredBlockBounded inductive: no mark is dated ahead of the
\* clock, and a pending event that is not weekly lies inside the band.
InferredInv ==
  /\ TypeOK
  /\ InferredBlockBounded
  /\ \A a \in Accounts : issue[a].set_at <= now
  /\ \A d \in det :
       d.form = "event" /\ d.reason # "weekly_limit" => d.until <= now + MID_BAND

\* Weekly evidence an authority stated (quota probe, operator) stays in force
\* until its reset moment: no later success, 429, failed spawn or read by any
\* worker of the account removes, shortens or relabels it.
WeeklyEvidenceHolds ==
  \A a \in Accounts :
    stated[a].reason = "weekly_limit" /\ now < stated[a].until =>
      /\ issue[a].kind = "rate_limit" /\ issue[a].reason = "weekly_limit"
      /\ issue[a].pinned /\ issue[a].until >= stated[a].until

\* Mark i blocks less than mark j: gone, shorter, or for a shorter cycle.
Weaker(i, j) ==
  i.kind # "rate_limit" \/ i.until < j.until \/ Level(i.reason) < Level(j.reason)

\* A rate-limit block in force is released, shortened or demoted to a
\* shorter-cycle label only by a completed chat or by an authority: every
\* other detection, in whatever order siblings report, keeps or strengthens it.
OnlyEvidenceWeakens ==
  [][\A a \in Accounts :
       Blocked(a) /\ issue[a].kind = "rate_limit" /\ Weaker(issue'[a], issue[a])
       => \/ \E x \in inflight : ChatSuccess(x) /\ x.acct = a
          \/ Authority(a)]_vars

-----------------------------------------------------------------------------
(* What comments and docs claim; the runs named after them refute them.    *)

\* A success clears a mark only if that request was submitted after the mark's
\* evidence: "the 200 response proves the inferred mark was stale or spurious".
SuccessProvesStale ==
  [][\A x \in inflight :
       ChatSuccess(x) /\ Blocked(x.acct) /\ Demotable(issue[x.acct])
       => x.start >= issue[x.acct].set_at]_vars

\* An account that 429s again on the first probe after its cooldown (no other
\* mark, no operator reset) gets a window at least as long as the last one.
BackoffNeverFallsBack ==
  [][\A a \in Accounts :
       /\ streak'[a] # streak[a] /\ streak'[a].n >= 1 /\ streak[a].n >= 1
       /\ now = streak[a].last + BackoffWindow(streak[a].n) + 1
       => BackoffWindow(streak'[a].n) >= BackoffWindow(streak[a].n)]_vars

\* A 429 that carries a reset header does not advance the bare-429 backoff.
TimedResponseSkipsBackoff ==
  [][\A d \in det : HandleBodyBare(d) /\ d.timed => streak' = streak]_vars

\* A pinned mark blocks no longer than an authority stated.
PinnedMeansStated ==
  \A a \in Accounts : issue[a].pinned => issue[a].until <= stated[a].until

\* The quota probe never replaces a block by one that ends earlier.
ProbeNeverShortens ==
  [][\A a \in Accounts : QuotaProbe(a) /\ Blocked(a)
       => issue'[a].until >= issue[a].until]_vars
=============================================================================
