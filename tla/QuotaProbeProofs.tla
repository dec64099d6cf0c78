--------------------------- MODULE QuotaProbeProofs ---------------------------
(***************************************************************************)
(* What the tracker of the quotas (QuotaProbe) guarantees for any accounts,*)
(* any Retry-After and any cap: an account is left alone for as long as    *)
(* the 429s in a row ask for that the tracker was told of and has kept.    *)
(***************************************************************************)
EXTENDS QuotaProbe, FiniteSetTheorems, TLAPS

-----------------------------------------------------------------------------
(* The invariant.                                                          *)

Typed ==
  /\ accounts \in Seq(Names) /\ IsInjective(accounts)
  /\ cool \in [Names -> 0 .. MAX_BACKOFF]
  /\ streak \in [Names -> 0 .. MAX_STREAK]
  /\ floor \in [Names -> 0 .. FLOOR]
  /\ soft \in [Names -> 0 .. TICK]
  /\ file \in [Names -> [until : 0 .. MAX_BACKOFF, streak : 0 .. MAX_STREAK,
                         success : 0 .. TICK]]
  /\ at \in [Actors -> {"walk", "held", "sleep", "over"}]
  /\ idx \in [Walks -> Nat \ {0}]
  /\ wait \in 0 .. TICK
  /\ pending \in [Names -> 0 .. MAX_FLIGHTS]
  /\ restarts \in 0 .. MAX_RESTARTS
  /\ owed \in [Names -> 0 .. MAX_BACKOFF]
  /\ row \in [Names -> 0 .. MAX_STREAK]
  /\ unsaved \in BOOLEAN

\* A cooldown has a streak and no success, in memory and in the file.
OneGate ==
  \A n \in Names :
    /\ cool[n] > 0 => streak[n] > 0 /\ soft[n] = 0
    /\ file[n].until > 0 => file[n].streak > 0 /\ file[n].success = 0

\* The cooldown is no shorter than what is owed, and will be no shorter after the
\* next 429: the streak counts all 429s in a row.  The file says the same, when
\* its last write went through.
OwedKept ==
  \A n \in Names :
    /\ owed[n] <= cool[n] /\ row[n] <= streak[n]
    /\ ~unsaved => /\ owed[n] <= file[n].until
                   /\ owed[n] > 0 => row[n] <= file[n].streak

IInv == Typed /\ OneGate /\ OwedKept

-----------------------------------------------------------------------------
(* The operators.                                                          *)

\* The bounds are numbers.
LEMMA Bounds ==
  /\ FLOOR \in Nat \ {0} /\ TICK \in Nat \ {0} /\ MAX_BACKOFF \in Nat \ {0}
  /\ MAX_STREAK \in Nat \ {0} /\ MAX_FLIGHTS \in Nat \ {0}
  /\ MAX_RESTARTS \in Nat /\ FLOOR <= TICK
  /\ RetryAfters \subseteq 1 .. MAX_BACKOFF
  /\ Names \cap Walks = {} /\ IsFiniteSet(Names)
BY QuotaAssumption

\* The powers of two are numbers and grow: 2 ^ i counts the subsets of 1 .. i.
LEMMA PowersGrow ==
  ASSUME NEW j \in Nat, NEW k \in Nat, j <= k
  PROVE  2 ^ j \in Nat /\ 2 ^ j <= 2 ^ k
<1>1. ASSUME NEW i \in Nat
      PROVE  IsFiniteSet(SUBSET (1 .. i)) /\ Cardinality(SUBSET (1 .. i)) = 2 ^ i
  <2>1. IsFiniteSet(1 .. i) /\ Cardinality(1 .. i) = i
    BY FS_Interval
  <2> QED BY <2>1, FS_SUBSET
<1>2. SUBSET (1 .. j) \subseteq SUBSET (1 .. k)
  OBVIOUS
<1>3. Cardinality(SUBSET (1 .. j)) <= Cardinality(SUBSET (1 .. k))
  BY <1>1, <1>2, FS_Subset
<1>4. Cardinality(SUBSET (1 .. j)) \in Nat
  BY <1>1, FS_CardinalityType
<1> QED BY <1>1, <1>3, <1>4

\* A product of numbers is one, and grows with the second.
LEMMA ProductsGrow ==
  ASSUME NEW r \in Nat, NEW a \in Nat, NEW b \in Nat, a <= b
  PROVE  r * a \in Nat /\ r * b \in Nat /\ r * a <= r * b
<1>1. r * b = r * a + r * (b - a)
  OBVIOUS
<1>2. r * (b - a) \in Nat /\ r * a \in Nat /\ r * b \in Nat
  OBVIOUS
<1> QED BY <1>1, <1>2

\* record_429: the cooldown is at most the cap, and a longer streak never makes it
\* shorter.
LEMMA BackoffGrows ==
  ASSUME NEW r \in RetryAfters, NEW j \in 1 .. MAX_STREAK, NEW k \in 1 .. MAX_STREAK, j <= k
  PROVE  /\ Backoff(r, j) \in 0 .. MAX_BACKOFF /\ Backoff(r, k) \in 0 .. MAX_BACKOFF
         /\ Backoff(r, j) <= Backoff(r, k)
<1>1. r \in Nat /\ MAX_STREAK \in Nat /\ MAX_BACKOFF \in Nat
  BY Bounds
<1>2. j - 1 \in Nat /\ k - 1 \in Nat /\ j - 1 <= k - 1
  BY <1>1
<1>3. 2 ^ (j - 1) \in Nat /\ 2 ^ (k - 1) \in Nat /\ 2 ^ (j - 1) <= 2 ^ (k - 1)
  BY <1>2, PowersGrow
<1>4. /\ r * 2 ^ (j - 1) \in Nat /\ r * 2 ^ (k - 1) \in Nat
      /\ r * 2 ^ (j - 1) <= r * 2 ^ (k - 1)
  BY <1>1, <1>3, ProductsGrow
<1>5. PICK x \in Nat, y \in Nat : /\ x = r * 2 ^ (j - 1) /\ y = r * 2 ^ (k - 1)
                                  /\ x <= y
  BY <1>4
<1>6. Backoff(r, j) = Smaller(x, MAX_BACKOFF) /\ Backoff(r, k) = Smaller(y, MAX_BACKOFF)
  BY <1>5 DEF Backoff
<1>7. /\ Smaller(x, MAX_BACKOFF) \in 0 .. MAX_BACKOFF
      /\ Smaller(y, MAX_BACKOFF) \in 0 .. MAX_BACKOFF
      /\ Smaller(x, MAX_BACKOFF) <= Smaller(y, MAX_BACKOFF)
  BY <1>1, <1>5 DEF Smaller
<1> QED BY <1>6, <1>7

\* What is left of a time, later.
LEMMA LessFacts ==
  ASSUME NEW m \in Nat, NEW x \in 0 .. m, NEW z \in 0 .. m
  PROVE  /\ Less(x, 1) \in 0 .. m
         /\ z <= x => Less(z, 1) <= Less(x, 1)
         /\ Less(x, 1) > 0 => x > 0
         /\ x = 0 => Less(x, 1) = 0
BY DEF Less

\* A start has typed values.
LEMMA StartFacts ==
  /\ StartAt \in [Actors -> {"walk", "held", "sleep", "over"}]
  /\ [w \in Walks |-> 1] \in [Walks -> Nat \ {0}]
  /\ \A m \in Nat : Zero \in [Names -> 0 .. m]
<1>1. StartAt \in [Actors -> {"walk", "held", "sleep", "over"}]
  BY DEF StartAt
<1>2. [w \in Walks |-> 1] \in [Walks -> Nat \ {0}]
  OBVIOUS
<1>3. \A m \in Nat : Zero \in [Names -> 0 .. m]
  BY DEF Zero
<1> QED BY <1>1, <1>2, <1>3

\* config.accounts at a start is a list of accounts, each once.
LEMMA ListsFacts ==
  ASSUME NEW s \in Lists
  PROVE  s \in Seq(Names) /\ IsInjective(s)
<1>1. PICK S \in SUBSET Names : s \in SetToSeqs(S)
  BY DEF Lists
<1>2. IsFiniteSet(S)
  BY Bounds, FS_Subset
<1>3. Cardinality(S) \in Nat
  BY <1>2, FS_CardinalityType
<1>4. s \in [1 .. Cardinality(S) -> S]
      /\ \A i, j \in 1 .. Cardinality(S) : i # j => s[i] # s[j]
  BY <1>1 DEF SetToSeqs
<1>5. s \in Seq(Names)
  BY <1>3, <1>4
<1> QED BY <1>4, <1>5 DEF IsInjective

\* A list keeps each account once when one that is not in it is appended, and when
\* one is taken out.
LEMMA ListKept ==
  ASSUME accounts \in Seq(Names), IsInjective(accounts)
  PROVE  /\ \A n \in Names \ Listed :
              /\ Append(accounts, n) \in Seq(Names)
              /\ IsInjective(Append(accounts, n))
         /\ \A i \in DOMAIN accounts :
              /\ RemoveAt(accounts, i) \in Seq(Names)
              /\ IsInjective(RemoveAt(accounts, i))
<1>1. ASSUME NEW n \in Names \ Listed
      PROVE  Append(accounts, n) \in Seq(Names) /\ IsInjective(Append(accounts, n))
  BY <1>1 DEF IsInjective, Listed, ToSet
<1>2. ASSUME NEW i \in DOMAIN accounts
      PROVE  RemoveAt(accounts, i) \in Seq(Names) /\ IsInjective(RemoveAt(accounts, i))
  <2> DEFINE rest == RemoveAt(accounts, i)
  <2>1. i \in 1 .. Len(accounts) /\ Len(accounts) \in Nat
    OBVIOUS
  <2>2. PICK p, q : p = SubSeq(accounts, 1, i - 1)
                    /\ q = SubSeq(accounts, i + 1, Len(accounts))
    OBVIOUS
  <2>a. /\ p \in Seq(Names) /\ Len(p) = i - 1
        /\ \A j \in 1 .. i - 1 : p[j] = accounts[j]
    BY <2>1, <2>2
  <2>b. /\ q \in Seq(Names) /\ Len(q) = Len(accounts) - i
        /\ \A j \in 1 .. Len(accounts) - i : q[j] = accounts[j + i]
    BY <2>1, <2>2
  <2>c. rest = p \o q
    BY <2>2 DEF RemoveAt
  <2>3. rest \in Seq(Names) /\ Len(rest) = Len(accounts) - 1
    BY <2>1, <2>a, <2>b, <2>c
  <2>4. ASSUME NEW j \in 1 .. Len(accounts) - 1
        PROVE  rest[j] = IF j < i THEN accounts[j] ELSE accounts[j + 1]
    <3>1. CASE j < i
      BY <2>1, <2>a, <2>b, <2>c, <3>1
    <3>2. CASE ~(j < i)
      <4>1. j - (i - 1) \in 1 .. Len(accounts) - i /\ rest[j] = q[j - (i - 1)]
        BY <2>1, <2>a, <2>b, <2>c, <3>2
      <4>2. (j - (i - 1)) + i = j + 1
        BY <2>1
      <4> QED BY <2>b, <3>2, <4>1, <4>2
    <3> QED BY <3>1, <3>2
  <2> HIDE DEF rest
  <2>5. DOMAIN rest = 1 .. Len(accounts) - 1
    BY <2>3
  <2>6. \A a, b \in 1 .. Len(accounts) : accounts[a] = accounts[b] => a = b
    BY DEF IsInjective
  <2>7. ASSUME NEW j \in 1 .. Len(accounts) - 1, NEW k \in 1 .. Len(accounts) - 1,
               rest[j] = rest[k]
        PROVE  j = k
    BY <2>1, <2>4, <2>6, <2>7
  <2>8. IsInjective(rest)
    BY <2>5, <2>7 DEF IsInjective
  <2> QED BY <2>3, <2>8 DEF rest
<1> QED BY <1>1, <1>2

\* Whom a walk or a task is about to probe is an account.
LEMMA TargetIsAccount ==
  ASSUME Typed, NEW a \in Actors, Walking(a)
  PROVE  Target(a) \in Names
<1>1. CASE a \in Names
  BY <1>1 DEF Target
<1>2. CASE a \notin Names
  <2>1. a \in Walks /\ idx[a] \in Nat \ {0} /\ idx[a] <= Len(accounts)
    BY <1>2 DEF Actors, Walking, Typed
  <2>2. accounts[idx[a]] \in Names
    BY <2>1 DEF Typed
  <2> QED BY <1>2, <2>2 DEF Target
<1> QED BY <1>1, <1>2

-----------------------------------------------------------------------------
(* The steps.                                                              *)

\* What a walk or a task does moves no cooldown and nothing that is owed.
LEMMA MoveStep ==
  ASSUME IInv, NEW a \in Actors, Move(a)
  PROVE  IInv'
<1>1. UNCHANGED <<accounts, cool, streak, soft, file, restarts, history>>
  BY DEF Move, Skip, Send, Fail, Release, Walked, elsewhere, gates, history
<1>2. at' \in [Actors -> {"walk", "held", "sleep", "over"}] /\ idx' \in [Walks -> Nat \ {0}]
  <2>1. ASSUME Onwards(a) PROVE /\ at' \in [Actors -> {"walk", "held", "sleep", "over"}]
                                /\ idx' \in [Walks -> Nat \ {0}]
    <3>1. CASE a \in Names /\ at' = [at EXCEPT ![a] = "over"] /\ idx' = idx
      BY <3>1 DEF IInv, Typed
    <3>2. CASE /\ a \in Walks /\ at' = [at EXCEPT ![a] = "walk"]
               /\ idx' = [idx EXCEPT ![a] = @ + 1]
      <4>1. idx[a] + 1 \in Nat \ {0}
        BY <3>2 DEF IInv, Typed
      <4> QED BY <3>2, <4>1 DEF IInv, Typed
    <3> QED BY <2>1, <3>1, <3>2 DEF Onwards
  <2>2. CASE Send(a)
    BY <2>2 DEF Send, IInv, Typed
  <2>3. CASE Walked(a)
    <3>1. PICK place \in {"sleep", "over"} : at' = [at EXCEPT ![a] = place]
      BY <2>3 DEF Walked
    <3>2. a \in Walks /\ idx' = [idx EXCEPT ![a] = 1] /\ 1 \in Nat \ {0}
      BY <2>3 DEF Walked
    <3>3. at' \in [Actors -> {"walk", "held", "sleep", "over"}]
      BY <3>1 DEF IInv, Typed
    <3>4. idx' \in [Walks -> Nat \ {0}]
      BY <3>2 DEF IInv, Typed
    <3> QED BY <3>3, <3>4
  <2> QED BY <2>1, <2>2, <2>3 DEF Move, Skip, Fail, Release
<1>3. floor' \in [Names -> 0 .. FLOOR] /\ pending' \in [Names -> 0 .. MAX_FLIGHTS]
  <2>1. CASE Send(a)
    <3>1. PICK n \in Names : n = Target(a)
      BY <2>1, TargetIsAccount DEF IInv, Send
    <3>2. /\ floor' = [floor EXCEPT ![n] = FLOOR]
          /\ pending' = [pending EXCEPT ![n] = Smaller(@ + 1, MAX_FLIGHTS)]
      BY <2>1, <3>1 DEF Send
    <3> QED BY <3>2, Bounds DEF IInv, Typed, Smaller
  <2>2. CASE Fail(a)
    <3>1. PICK n : n = Target(a)
      OBVIOUS
    <3>2. floor' = [floor EXCEPT ![n] = FLOOR] /\ pending' = pending
      BY <2>2, <3>1 DEF Fail
    <3>3. FLOOR \in 0 .. FLOOR
      BY Bounds
    <3> QED BY <3>2, <3>3 DEF IInv, Typed
  <2>3. CASE Skip(a) \/ Release(a) \/ Walked(a)
    BY <2>3 DEF Skip, Release, Walked, gates, IInv, Typed
  <2> QED BY <2>1, <2>2, <2>3 DEF Move
<1>4. wait' \in 0 .. TICK
  BY Bounds DEF Move, Skip, Send, Fail, Release, Walked, elsewhere, IInv, Typed
<1>5. Typed'
  BY <1>1, <1>2, <1>3, <1>4 DEF IInv, Typed, history
<1> QED BY <1>1, <1>5 DEF IInv, OneGate, OwedKept, history

\* What an answer, or the end of an account, leaves in the file.
LEMMA SaveStep ==
  ASSUME IInv, Save,
         cool' \in [Names -> 0 .. MAX_BACKOFF], streak' \in [Names -> 0 .. MAX_STREAK],
         soft' \in [Names -> 0 .. TICK],
         owed' \in [Names -> 0 .. MAX_BACKOFF], row' \in [Names -> 0 .. MAX_STREAK],
         \A n \in Names : /\ cool'[n] > 0 => streak'[n] > 0 /\ soft'[n] = 0
                          /\ owed'[n] <= cool'[n] /\ row'[n] <= streak'[n]
  PROVE  /\ OneGate' /\ OwedKept' /\ unsaved' \in BOOLEAN
         /\ file' \in [Names -> [until : 0 .. MAX_BACKOFF, streak : 0 .. MAX_STREAK,
                                 success : 0 .. TICK]]
<1>1. CASE file' = [n \in Names |-> Entry(n)] /\ unsaved' = FALSE
  <2>1. ASSUME NEW n \in Names
        PROVE  /\ file'[n] \in [until : 0 .. MAX_BACKOFF, streak : 0 .. MAX_STREAK,
                                success : 0 .. TICK]
               /\ file'[n].until = cool'[n]
               /\ cool'[n] > 0 => file'[n].streak = streak'[n] /\ file'[n].success = 0
    <3>1. file'[n] = Entry(n)
      BY <1>1
    <3>2. CASE cool'[n] > 0
      <4>1. file'[n] = [until |-> cool'[n], streak |-> streak'[n], success |-> 0]
        BY <3>1, <3>2 DEF Entry
      <4> QED BY <4>1, <3>2, Bounds
    <3>3. CASE ~(cool'[n] > 0)
      <4>1. file'[n] = [until |-> 0, streak |-> 0, success |-> soft'[n]]
        BY <3>1, <3>3 DEF Entry, NoEntry
      <4>2. cool'[n] = 0
        BY <3>3, Bounds
      <4> QED BY <4>1, <4>2, Bounds
    <3> QED BY <3>2, <3>3
  <2>2. file' \in [Names -> [until : 0 .. MAX_BACKOFF, streak : 0 .. MAX_STREAK,
                             success : 0 .. TICK]]
    BY <1>1, <2>1
  <2>3. OneGate'
    BY <2>1 DEF OneGate
  <2>4. ASSUME NEW n \in Names
        PROVE  owed'[n] <= file'[n].until /\ (owed'[n] > 0 => row'[n] <= file'[n].streak)
    <3>1. owed'[n] > 0 => cool'[n] > 0
      BY Bounds
    <3> QED BY <2>1, <3>1
  <2>5. OwedKept'
    BY <2>4 DEF OwedKept
  <2> QED BY <1>1, <2>2, <2>3, <2>5
<1>2. CASE unsaved' = TRUE /\ file' = file
  BY <1>2 DEF IInv, Typed, OneGate, OwedKept
<1> QED BY <1>1, <1>2 DEF Save

\* An answer: a success owes nothing, a 429 as much as the streak asks for, and
\* the row of 429s is no longer than the streak.
LEMMA AnswerStep ==
  ASSUME IInv, NEW n \in Names, Answer(n)
  PROVE  IInv'
<1>1. accounts' = accounts /\ at' = at /\ idx' = idx /\ wait' = wait /\ restarts' = restarts
  BY DEF Answer, Record, AnswerLost, RefusedUnheard, Record429, outside, walks
<1>2. pending' \in [Names -> 0 .. MAX_FLIGHTS]
  <2>1. pending[n] > 0 /\ pending' = [pending EXCEPT ![n] = @ - 1]
    BY DEF Answer, Record, AnswerLost, RefusedUnheard, Record429
  <2> QED BY <2>1, Bounds DEF IInv, Typed
<1>3. CASE Record(n)
  <2>1. /\ cool' = [cool EXCEPT ![n] = 0] /\ streak' = [streak EXCEPT ![n] = 0]
        /\ floor' = [floor EXCEPT ![n] = FLOOR] /\ soft' = [soft EXCEPT ![n] = TICK]
        /\ owed' = [owed EXCEPT ![n] = 0] /\ row' = [row EXCEPT ![n] = 0]
        /\ Save
    BY <1>3 DEF Record
  <2>2. /\ cool' \in [Names -> 0 .. MAX_BACKOFF] /\ streak' \in [Names -> 0 .. MAX_STREAK]
        /\ floor' \in [Names -> 0 .. FLOOR] /\ soft' \in [Names -> 0 .. TICK]
        /\ owed' \in [Names -> 0 .. MAX_BACKOFF] /\ row' \in [Names -> 0 .. MAX_STREAK]
    BY <2>1, Bounds DEF IInv, Typed
  <2>3. ASSUME NEW m \in Names
        PROVE  /\ cool'[m] > 0 => streak'[m] > 0 /\ soft'[m] = 0
               /\ owed'[m] <= cool'[m] /\ row'[m] <= streak'[m]
    BY <2>1, Bounds DEF IInv, Typed, OneGate, OwedKept
  <2>4. /\ OneGate' /\ OwedKept' /\ unsaved' \in BOOLEAN
        /\ file' \in [Names -> [until : 0 .. MAX_BACKOFF, streak : 0 .. MAX_STREAK,
                                success : 0 .. TICK]]
    BY <2>1, <2>2, <2>3, SaveStep
  <2> QED BY <1>1, <1>2, <2>2, <2>4 DEF IInv, Typed
<1>4. ASSUME NEW r \in RetryAfters, Record429(n, r) PROVE IInv'
  <2>1. PICK k \in 1 .. MAX_STREAK, j \in 1 .. MAX_STREAK :
          /\ k = Smaller(streak[n] + 1, MAX_STREAK) /\ j = Smaller(row[n] + 1, MAX_STREAK)
          /\ j <= k
    <3>1. streak[n] \in 0 .. MAX_STREAK /\ row[n] \in 0 .. MAX_STREAK /\ row[n] <= streak[n]
      BY DEF IInv, Typed, OwedKept
    <3>2. /\ Smaller(streak[n] + 1, MAX_STREAK) \in 1 .. MAX_STREAK
          /\ Smaller(row[n] + 1, MAX_STREAK) \in 1 .. MAX_STREAK
          /\ Smaller(row[n] + 1, MAX_STREAK) <= Smaller(streak[n] + 1, MAX_STREAK)
      BY <3>1, Bounds DEF Smaller
    <3> QED BY <3>2
  <2>2. /\ streak' = [streak EXCEPT ![n] = k] /\ row' = [row EXCEPT ![n] = j]
        /\ floor' = [floor EXCEPT ![n] = FLOOR] /\ soft' = [soft EXCEPT ![n] = 0]
        /\ Save
    BY <1>4, <2>1 DEF Record429
  <2>3. streak'[n] = k /\ row'[n] = j
    BY <2>2 DEF IInv, Typed
  <2>4. cool' = [cool EXCEPT ![n] = Backoff(r, k)] /\ owed' = [owed EXCEPT ![n] = Backoff(r, j)]
    BY <1>4, <2>3 DEF Record429
  <2>5. PICK x \in 0 .. MAX_BACKOFF, y \in 0 .. MAX_BACKOFF :
          x = Backoff(r, j) /\ y = Backoff(r, k) /\ x <= y
    BY <2>1, BackoffGrows
  <2>6. cool' = [cool EXCEPT ![n] = y] /\ owed' = [owed EXCEPT ![n] = x]
    BY <2>4, <2>5
  <2>7. /\ cool' \in [Names -> 0 .. MAX_BACKOFF] /\ streak' \in [Names -> 0 .. MAX_STREAK]
        /\ floor' \in [Names -> 0 .. FLOOR] /\ soft' \in [Names -> 0 .. TICK]
        /\ owed' \in [Names -> 0 .. MAX_BACKOFF] /\ row' \in [Names -> 0 .. MAX_STREAK]
    <3>1. k \in 0 .. MAX_STREAK /\ j \in 0 .. MAX_STREAK /\ 0 \in 0 .. TICK
          /\ FLOOR \in 0 .. FLOOR
      BY Bounds
    <3>2. streak' \in [Names -> 0 .. MAX_STREAK] /\ row' \in [Names -> 0 .. MAX_STREAK]
      BY <2>2, <3>1 DEF IInv, Typed
    <3>3. floor' \in [Names -> 0 .. FLOOR] /\ soft' \in [Names -> 0 .. TICK]
      BY <2>2, <3>1 DEF IInv, Typed
    <3>4. cool' \in [Names -> 0 .. MAX_BACKOFF] /\ owed' \in [Names -> 0 .. MAX_BACKOFF]
      BY <2>6 DEF IInv, Typed
    <3> QED BY <3>2, <3>3, <3>4
  <2>8. ASSUME NEW m \in Names
        PROVE  /\ cool'[m] > 0 => streak'[m] > 0 /\ soft'[m] = 0
               /\ owed'[m] <= cool'[m] /\ row'[m] <= streak'[m]
    <3>1. CASE m = n
      BY <2>1, <2>2, <2>5, <2>6, <3>1, Bounds DEF IInv, Typed
    <3>2. CASE m # n
      BY <2>2, <2>6, <3>2 DEF IInv, Typed, OneGate, OwedKept
    <3> QED BY <3>1, <3>2
  <2>9. /\ OneGate' /\ OwedKept' /\ unsaved' \in BOOLEAN
        /\ file' \in [Names -> [until : 0 .. MAX_BACKOFF, streak : 0 .. MAX_STREAK,
                                success : 0 .. TICK]]
    BY <2>2, <2>7, <2>8, SaveStep
  <2> QED BY <1>1, <1>2, <2>7, <2>9 DEF IInv, Typed
<1>5. CASE AnswerLost(n) \/ RefusedUnheard(n)
  BY <1>1, <1>2, <1>5 DEF AnswerLost, RefusedUnheard, gates, history, IInv, Typed, OneGate, OwedKept
<1> QED BY <1>3, <1>4, <1>5 DEF Answer

\* register_account and unregister_account: an account that is gone owes nothing.
LEMMA RegistryStep ==
  ASSUME IInv, NEW n \in Names, Register(n) \/ Unregister(n)
  PROVE  IInv'
<1>1. CASE Register(n)
  <2>1. accounts' \in Seq(Names) /\ IsInjective(accounts)'
    <3>1. accounts \in Seq(Names) /\ IsInjective(accounts)
      BY DEF IInv, Typed
    <3>2. CASE n \in Listed
      <4>1. accounts' = accounts
        BY <1>1, <3>2 DEF Register
      <4> QED BY <3>1, <4>1 DEF IsInjective
    <3>3. CASE n \notin Listed
      <4>1. PICK s : s = Append(accounts, n)
        OBVIOUS
      <4>2. s \in Seq(Names) /\ IsInjective(s)
        BY <3>1, <3>3, <4>1, ListKept
      <4>3. accounts' = s
        BY <1>1, <3>3, <4>1 DEF Register
      <4> QED BY <4>2, <4>3 DEF IsInjective
    <3> QED BY <3>2, <3>3
  <2>2. at' = [at EXCEPT ![n] = "walk"]
        /\ UNCHANGED <<gates, file, idx, wait, pending, restarts, history>>
    BY <1>1 DEF Register
  <2>3. Typed'
    BY <2>1, <2>2 DEF IInv, Typed, gates, history
  <2> QED BY <2>2, <2>3 DEF IInv, OneGate, OwedKept, gates, history
<1>2. CASE Unregister(n)
  <2>1. accounts' \in Seq(Names) /\ IsInjective(accounts)'
    <3>1. accounts \in Seq(Names) /\ IsInjective(accounts)
      BY DEF IInv, Typed
    <3>2. PICK i \in DOMAIN accounts : accounts' = RemoveAt(accounts, i)
      BY <1>2 DEF Unregister
    <3>3. PICK s : s = RemoveAt(accounts, i)
      OBVIOUS
    <3>4. s \in Seq(Names) /\ IsInjective(s)
      BY <3>1, <3>3, ListKept
    <3>5. accounts' = s
      BY <3>2, <3>3
    <3> QED BY <3>4, <3>5 DEF IsInjective
  <2>2. /\ cool' = [cool EXCEPT ![n] = 0] /\ streak' = [streak EXCEPT ![n] = 0]
        /\ floor' = [floor EXCEPT ![n] = 0] /\ soft' = [soft EXCEPT ![n] = 0]
        /\ owed' = [owed EXCEPT ![n] = 0] /\ row' = [row EXCEPT ![n] = 0]
        /\ Save /\ UNCHANGED <<walks, pending, restarts>>
    BY <1>2 DEF Unregister
  <2>3. /\ cool' \in [Names -> 0 .. MAX_BACKOFF] /\ streak' \in [Names -> 0 .. MAX_STREAK]
        /\ floor' \in [Names -> 0 .. FLOOR] /\ soft' \in [Names -> 0 .. TICK]
        /\ owed' \in [Names -> 0 .. MAX_BACKOFF] /\ row' \in [Names -> 0 .. MAX_STREAK]
    BY <2>2, Bounds DEF IInv, Typed
  <2>4. ASSUME NEW m \in Names
        PROVE  /\ cool'[m] > 0 => streak'[m] > 0 /\ soft'[m] = 0
               /\ owed'[m] <= cool'[m] /\ row'[m] <= streak'[m]
    BY <2>2, Bounds DEF IInv, Typed, OneGate, OwedKept
  <2>5. /\ OneGate' /\ OwedKept' /\ unsaved' \in BOOLEAN
        /\ file' \in [Names -> [until : 0 .. MAX_BACKOFF, streak : 0 .. MAX_STREAK,
                                success : 0 .. TICK]]
    BY <2>2, <2>3, <2>4, SaveStep
  <2> QED BY <2>1, <2>2, <2>3, <2>5 DEF IInv, Typed, walks
<1> QED BY <1>1, <1>2

\* Time passes for what is owed as it does for the cooldowns and for the file.
LEMMA TickStep ==
  ASSUME IInv, Tick
  PROVE  IInv'
<1>1. /\ cool' = [n \in Names |-> Less(cool[n], 1)]
      /\ floor' = [n \in Names |-> Less(floor[n], 1)]
      /\ soft' = [n \in Names |-> Less(soft[n], 1)]
      /\ owed' = [n \in Names |-> Less(owed[n], 1)]
      /\ wait' = Less(wait, 1)
      /\ file' = [n \in Names |-> [file[n] EXCEPT !.until = Less(@, 1),
                                                  !.success = Less(@, 1)]]
      /\ UNCHANGED <<accounts, streak, at, idx, pending, restarts, row, unsaved>>
  BY DEF Tick, Later
<1>2. ASSUME NEW n \in Names
      PROVE  /\ cool[n] \in 0 .. MAX_BACKOFF /\ owed[n] \in 0 .. MAX_BACKOFF
             /\ floor[n] \in 0 .. FLOOR /\ soft[n] \in 0 .. TICK
             /\ streak[n] \in 0 .. MAX_STREAK /\ row[n] \in 0 .. MAX_STREAK
             /\ file[n] \in [until : 0 .. MAX_BACKOFF, streak : 0 .. MAX_STREAK,
                             success : 0 .. TICK]
  BY DEF IInv, Typed
<1>3. ASSUME NEW n \in Names
      PROVE  /\ cool'[n] \in 0 .. MAX_BACKOFF /\ owed'[n] \in 0 .. MAX_BACKOFF
             /\ floor'[n] \in 0 .. FLOOR /\ soft'[n] \in 0 .. TICK
             /\ cool'[n] > 0 => cool[n] > 0
             /\ soft[n] = 0 => soft'[n] = 0
             /\ owed'[n] <= cool'[n] /\ (owed'[n] > 0 => owed[n] > 0)
  <2>1. owed[n] <= cool[n]
    BY DEF IInv, OwedKept
  <2>2. /\ cool'[n] = Less(cool[n], 1) /\ owed'[n] = Less(owed[n], 1)
        /\ floor'[n] = Less(floor[n], 1) /\ soft'[n] = Less(soft[n], 1)
    BY <1>1
  <2>3. /\ Less(cool[n], 1) \in 0 .. MAX_BACKOFF /\ Less(owed[n], 1) \in 0 .. MAX_BACKOFF
        /\ Less(owed[n], 1) <= Less(cool[n], 1)
        /\ Less(cool[n], 1) > 0 => cool[n] > 0
        /\ Less(owed[n], 1) > 0 => owed[n] > 0
    BY <1>2, <2>1, Bounds, LessFacts
  <2>4. Less(floor[n], 1) \in 0 .. FLOOR
    BY <1>2, Bounds, LessFacts
  <2>5. Less(soft[n], 1) \in 0 .. TICK /\ (soft[n] = 0 => Less(soft[n], 1) = 0)
    BY <1>2, Bounds, LessFacts
  <2> QED BY <2>2, <2>3, <2>4, <2>5
<1>4. ASSUME NEW n \in Names
      PROVE  /\ file'[n] \in [until : 0 .. MAX_BACKOFF, streak : 0 .. MAX_STREAK,
                              success : 0 .. TICK]
             /\ file'[n].until = Less(file[n].until, 1)
             /\ file'[n].streak = file[n].streak
             /\ file'[n].success = Less(file[n].success, 1)
  <2>1. PICK e \in [until : 0 .. MAX_BACKOFF, streak : 0 .. MAX_STREAK,
                    success : 0 .. TICK] : e = file[n]
    BY <1>2
  <2>2. file'[n] = [e EXCEPT !.until = Less(@, 1), !.success = Less(@, 1)]
    BY <1>1, <2>1
  <2>3. Less(e.until, 1) \in 0 .. MAX_BACKOFF /\ Less(e.success, 1) \in 0 .. TICK
    BY Bounds DEF Less
  <2> QED BY <2>1, <2>2, <2>3
<1>5. wait' \in 0 .. TICK
  <2>1. wait \in 0 .. TICK /\ wait' = Less(wait, 1)
    BY <1>1 DEF IInv, Typed
  <2> QED BY <2>1, Bounds, LessFacts
<1>6. /\ cool' \in [Names -> 0 .. MAX_BACKOFF] /\ owed' \in [Names -> 0 .. MAX_BACKOFF]
      /\ floor' \in [Names -> 0 .. FLOOR] /\ soft' \in [Names -> 0 .. TICK]
      /\ file' \in [Names -> [until : 0 .. MAX_BACKOFF, streak : 0 .. MAX_STREAK,
                              success : 0 .. TICK]]
  BY <1>1, <1>3, <1>4
<1>7. Typed'
  BY <1>1, <1>5, <1>6 DEF IInv, Typed
<1>8. ASSUME NEW n \in Names
      PROVE  /\ cool'[n] > 0 => streak'[n] > 0 /\ soft'[n] = 0
             /\ file'[n].until > 0 => file'[n].streak > 0 /\ file'[n].success = 0
  <2>1. file'[n].until > 0 => file[n].until > 0
    BY <1>2, <1>4, Bounds DEF Less
  <2>2. file[n].success = 0 => file'[n].success = 0
    BY <1>4 DEF Less
  <2> QED BY <1>1, <1>3, <1>4, <2>1, <2>2 DEF IInv, OneGate
<1>9. ASSUME NEW n \in Names, ~unsaved'
      PROVE  /\ owed'[n] <= file'[n].until
             /\ owed'[n] > 0 => row'[n] <= file'[n].streak
  <2>1. owed[n] <= file[n].until /\ (owed[n] > 0 => row[n] <= file[n].streak)
    BY <1>1, <1>9 DEF IInv, OwedKept
  <2>2. owed'[n] <= file'[n].until
    <3>1. PICK u \in 0 .. MAX_BACKOFF : u = file[n].until
      BY <1>2
    <3>2. owed[n] \in 0 .. MAX_BACKOFF /\ owed[n] <= u
      BY <1>2, <2>1, <3>1
    <3>3. Less(owed[n], 1) <= Less(u, 1)
      BY <3>2, Bounds, LessFacts
    <3> QED BY <1>1, <1>4, <3>1, <3>3
  <2> QED BY <1>1, <1>3, <1>4, <2>1, <2>2
<1>10. OwedKept'
  BY <1>1, <1>3, <1>9 DEF IInv, OwedKept
<1> QED BY <1>7, <1>8, <1>10 DEF IInv, OneGate

\* A start takes the cooldowns and the streaks from the file: all that is owed, if
\* the last write went through and the file can be read, and nothing is owed if not.
LEMMA RestartStep ==
  ASSUME IInv, Restart
  PROVE  IInv'
<1>0. PICK saved \in {file, Blank} :
        /\ LoadCooldowns(saved)
        /\ owed' = IF unsaved \/ saved # file THEN Zero ELSE owed
  BY DEF Restart
<1>1. /\ restarts < MAX_RESTARTS /\ restarts' = restarts + 1 /\ accounts' \in Lists
      /\ cool' = [n \in Names |-> saved[n].until]
      /\ streak' = [n \in Names |-> IF saved[n].until > 0 THEN saved[n].streak ELSE 0]
      /\ soft' = [n \in Names |-> saved[n].success]
      /\ floor' = [n \in Names |-> FloorOf(saved[n])]
      /\ at' = StartAt /\ idx' = [w \in Walks |-> 1] /\ wait' = TICK /\ pending' = Zero
      /\ row' = [n \in Names |-> IF owed'[n] > 0 THEN row[n] ELSE 0]
      /\ UNCHANGED <<file, unsaved>>
  BY <1>0 DEF Restart, LoadCooldowns
<1>2. ASSUME NEW n \in Names
      PROVE  /\ saved[n].until \in 0 .. MAX_BACKOFF /\ saved[n].streak \in 0 .. MAX_STREAK
             /\ saved[n].success \in 0 .. TICK
             /\ saved[n].until > 0 => saved[n].streak > 0 /\ saved[n].success = 0
             /\ owed[n] \in 0 .. MAX_BACKOFF /\ row[n] \in 0 .. MAX_STREAK
  <2>1. CASE saved = file
    BY <2>1 DEF IInv, Typed, OneGate
  <2>2. CASE saved = Blank
    <3>1. saved[n] = [until |-> 0, streak |-> 0, success |-> 0]
      BY <2>2 DEF Blank, NoEntry
    <3> QED BY <3>1, Bounds DEF IInv, Typed
  <2> QED BY <2>1, <2>2
<1>3. PICK s : s \in Seq(Names) /\ IsInjective(s) /\ accounts' = s
  BY <1>1, ListsFacts
<1>4. accounts' \in Seq(Names) /\ IsInjective(accounts)'
  BY <1>3 DEF IsInjective
<1>5. ASSUME NEW n \in Names
      PROVE  /\ cool'[n] = saved[n].until
             /\ streak'[n] = IF saved[n].until > 0 THEN saved[n].streak ELSE 0
             /\ soft'[n] = saved[n].success
             /\ floor'[n] \in 0 .. FLOOR
             /\ owed'[n] \in 0 .. MAX_BACKOFF
             /\ row'[n] = IF owed'[n] > 0 THEN row[n] ELSE 0
             /\ owed'[n] > 0 => ~unsaved /\ saved = file /\ owed'[n] = owed[n]
  <2>1. floor'[n] \in 0 .. FLOOR
    BY <1>1, <1>2, Bounds DEF Less, FloorOf
  <2> QED BY <1>0, <1>1, <1>2, <2>1, Bounds DEF Zero
<1>6. /\ cool' \in [Names -> 0 .. MAX_BACKOFF] /\ streak' \in [Names -> 0 .. MAX_STREAK]
      /\ soft' \in [Names -> 0 .. TICK] /\ floor' \in [Names -> 0 .. FLOOR]
      /\ owed' \in [Names -> 0 .. MAX_BACKOFF] /\ row' \in [Names -> 0 .. MAX_STREAK]
  <2>1. \A n \in Names : /\ cool'[n] \in 0 .. MAX_BACKOFF
                         /\ streak'[n] \in 0 .. MAX_STREAK
                         /\ soft'[n] \in 0 .. TICK
                         /\ row'[n] \in 0 .. MAX_STREAK
    BY <1>2, <1>5, Bounds
  <2>2. owed' \in [Names -> 0 .. MAX_BACKOFF]
    BY <1>0, <1>1, Bounds DEF Zero, IInv, Typed
  <2> QED BY <1>1, <1>5, <2>1, <2>2
<1>7. /\ at' \in [Actors -> {"walk", "held", "sleep", "over"}]
      /\ idx' \in [Walks -> Nat \ {0}] /\ pending' \in [Names -> 0 .. MAX_FLIGHTS]
      /\ wait' \in 0 .. TICK /\ restarts' \in 0 .. MAX_RESTARTS
  <2>1. /\ at' \in [Actors -> {"walk", "held", "sleep", "over"}]
        /\ idx' \in [Walks -> Nat \ {0}] /\ pending' \in [Names -> 0 .. MAX_FLIGHTS]
    BY <1>1, StartFacts, Bounds
  <2>2. restarts \in 0 .. MAX_RESTARTS
    BY DEF IInv, Typed
  <2>3. wait' \in 0 .. TICK /\ restarts' \in 0 .. MAX_RESTARTS
    BY <1>1, <2>2, Bounds
  <2> QED BY <2>1, <2>3
<1>8. Typed'
  BY <1>1, <1>4, <1>6, <1>7 DEF IInv, Typed
<1>9. OneGate'
  BY <1>1, <1>2, <1>5 DEF IInv, OneGate
<1>10. ASSUME NEW n \in Names
       PROVE  /\ owed'[n] <= cool'[n] /\ row'[n] <= streak'[n]
              /\ ~unsaved' => /\ owed'[n] <= file'[n].until
                              /\ owed'[n] > 0 => row'[n] <= file'[n].streak
  <2>1. ~unsaved => owed[n] <= file[n].until /\ (owed[n] > 0 => row[n] <= file[n].streak)
    BY DEF IInv, OwedKept
  <2>2. CASE owed'[n] > 0
    BY <1>1, <1>2, <1>5, <2>1, <2>2
  <2>3. CASE ~(owed'[n] > 0)
    <3>1. owed'[n] = 0 /\ row'[n] = 0
      BY <1>5, <2>3, Bounds
    <3>2. cool'[n] \in 0 .. MAX_BACKOFF /\ streak'[n] \in 0 .. MAX_STREAK
      BY <1>6
    <3>3. file[n].until \in 0 .. MAX_BACKOFF
      BY DEF IInv, Typed
    <3> QED BY <1>1, <2>3, <3>1, <3>2, <3>3
  <2> QED BY <2>2, <2>3
<1> QED BY <1>8, <1>9, <1>10 DEF IInv, OwedKept

\* Throughout.
LEMMA QuotaInvariant == Spec => []IInv
<1>1. Init => IInv
  <2> SUFFICES ASSUME Init PROVE IInv
    OBVIOUS
  <2>1. accounts \in Seq(Names) /\ IsInjective(accounts)
    BY ListsFacts DEF Init
  <2>2. \A n \in Names : file[n] = [until |-> 0, streak |-> 0, success |-> 0]
    BY DEF Init, Blank, NoEntry
  <2>3. file \in [Names -> [until : 0 .. MAX_BACKOFF, streak : 0 .. MAX_STREAK,
                            success : 0 .. TICK]]
    BY Bounds DEF Init, Blank, NoEntry
  <2>4. /\ cool = Zero /\ streak = Zero /\ floor = Zero /\ soft = Zero /\ pending = Zero
        /\ owed = Zero /\ row = Zero /\ at = StartAt /\ idx = [w \in Walks |-> 1]
        /\ wait = TICK /\ restarts = 0 /\ unsaved = FALSE
    BY DEF Init
  <2>5. Typed
    <3>1. /\ cool \in [Names -> 0 .. MAX_BACKOFF] /\ streak \in [Names -> 0 .. MAX_STREAK]
          /\ floor \in [Names -> 0 .. FLOOR] /\ soft \in [Names -> 0 .. TICK]
          /\ pending \in [Names -> 0 .. MAX_FLIGHTS]
          /\ owed \in [Names -> 0 .. MAX_BACKOFF] /\ row \in [Names -> 0 .. MAX_STREAK]
      BY <2>4, StartFacts, Bounds
    <3>2. /\ at \in [Actors -> {"walk", "held", "sleep", "over"}]
          /\ idx \in [Walks -> Nat \ {0}] /\ unsaved \in BOOLEAN
      BY <2>4, StartFacts
    <3>3. wait \in 0 .. TICK /\ restarts \in 0 .. MAX_RESTARTS
      BY <2>4, Bounds
    <3> QED BY <2>1, <2>3, <3>1, <3>2, <3>3 DEF Typed
  <2> QED BY <2>2, <2>4, <2>5 DEF IInv, OneGate, OwedKept, Zero
<1>2. IInv /\ [Next]_vars => IInv'
  <2> SUFFICES ASSUME IInv, [Next]_vars PROVE IInv'
    OBVIOUS
  <2>1. CASE Wake
    BY <2>1 DEF Wake, elsewhere, gates, history, IInv, Typed, OneGate, OwedKept
  <2>2. CASE UNCHANGED vars
    BY <2>2 DEF vars, gates, walks, history, IInv, Typed, OneGate, OwedKept
  <2> QED BY <2>1, <2>2, MoveStep, AnswerStep, RegistryStep, TickStep, RestartStep DEF Next
<1> QED BY <1>1, <1>2, PTL DEF Spec

-----------------------------------------------------------------------------
(* The theorems.                                                           *)

\* Every variable keeps its type, the list has each account once, and a cooldown
\* has a streak of 429s and no success (record, record_429).
THEOREM TypeCorrect == Spec => []TypeOK
<1>1. IInv => TypeOK
  <2>1. accounts \in Seq(Names) => Listed \subseteq Names
    BY DEF Listed, ToSet
  <2> QED BY <2>1 DEF IInv, Typed, OneGate, TypeOK
<1> QED BY <1>1, QuotaInvariant, PTL

\* _probe_one and record_429: no probe is sent to an account before the time is over
\* that the 429s in a row ask for which the tracker was told of since the account
\* was last entered, over restarts, and deletions and logins of others.  A restart
\* forgets what the last write of the file failed to save, all of it if the file
\* cannot be read, and the streak of a cooldown that is over; and a 429 met by a
\* session created on demand is not told.
THEOREM AccountsSpared == Spec => CooldownKept
<1>1. IInv /\ [Next]_vars => [\A a \in Actors : Send(a) => owed[Target(a)] = 0]_vars
  <2> SUFFICES ASSUME IInv, NEW a \in Actors, Send(a)
               PROVE  owed[Target(a)] = 0
    OBVIOUS
  <2>1. PICK n \in Names : n = Target(a)
    BY TargetIsAccount DEF Send, IInv
  <2>2. cool[n] = 0
    BY <2>1 DEF Send, Open
  <2>3. owed[n] \in 0 .. MAX_BACKOFF /\ owed[n] <= cool[n]
    BY DEF IInv, Typed, OwedKept
  <2> QED BY <2>1, <2>2, <2>3, Bounds
<1> QED BY <1>1, QuotaInvariant, PTL DEF Spec, CooldownKept

=============================================================================
