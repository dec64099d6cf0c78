--------------------------- MODULE OAuthRefreshProofs ---------------------------
(***************************************************************************)
(* Theorems about OAuthRefresh, for any accounts, forced refreshes,        *)
(* reloads and crashes: no interleaving of refreshers loses the token of   *)
(* an account or puts an older one back.                                   *)
(*                                                                         *)
(* The argument: of each login the endpoint takes one token, the newest    *)
(* there is (FrontierInv).  Its predecessor may be in many hands, but only *)
(* one of them has spent it (GrantedInv), and until that one has written   *)
(* the answer nobody else has seen the new token (UnseenInv).              *)
(***************************************************************************)
EXTENDS OAuthRefresh, TLAPS

Granted == {a \in Actors : at[a] = "granted"}

\* The tokens somebody can post: of the files, and of the actors.
Held(t) ==
  /\ t # NoToken
  /\ (\E p \in Paths : file[p] = t) \/ (\E a \in Actors : tok[a] = t)

Known(t) == t \in valid \/ Held(t)

SameLogin(t, u) == t.path = u.path /\ t.login = u.login

PathInv == \A p \in Paths : file[p] # NoToken => file[p].path = p

\* A token the endpoint takes is the newest of its login.
FrontierInv ==
  \A t \in valid : \A u \in Token :
    Known(u) /\ SameLogin(t, u) => u.gen <= t.gen

LoginInv == \A u \in Token : Known(u) => u.login <= logins[u.path]

UnseenInv == \A t \in lost : ~Held(t)

GrantedInv ==
  \A a \in Granted :
    /\ Next1(tok[a]) \in valid
    /\ Next1(tok[a]) \notin lost
    /\ ~Held(Next1(tok[a]))
    /\ \A b \in Granted : tok[b] = tok[a] => b = a

RotationInv == FrontierInv /\ LoginInv /\ UnseenInv /\ GrantedInv

RefreshInv == TypeOK /\ PathInv /\ RotationInv /\ TokenKept

-----------------------------------------------------------------------------
(* Tokens.                                                                 *)

\* An empty file has no token.
LEMMA NotAToken == NoToken \notin Token
  BY RefreshAssumption DEF NoToken, Token

\* The successor of a token is of the same login, one generation on.
LEMMA NextToken ==
  ASSUME NEW t \in Token
  PROVE  /\ Next1(t) \in Token
         /\ SameLogin(t, Next1(t))
         /\ Next1(t).gen = t.gen + 1
         /\ Next1(t).path = t.path
         /\ Next1(t) # NoToken
  <1>1. Next1(t) \in Token /\ Next1(t).path = t.path
    BY DEF Next1, Token
  <1>2. Next1(t).login = t.login /\ Next1(t).gen = t.gen + 1
    BY DEF Next1, Token
  <1> QED
    BY <1>1, <1>2, NotAToken DEF SameLogin

\* No two tokens have the same successor.
LEMMA NextInjective ==
  ASSUME NEW t \in Token, NEW u \in Token, Next1(t) = Next1(u)
  PROVE  t = u
  <1>1. t.path = u.path /\ t.login = u.login /\ t.gen + 1 = u.gen + 1
    BY NextToken DEF SameLogin
  <1>2. t.gen = u.gen
    BY <1>1 DEF Token
  <1> QED
    BY <1>1, <1>2 DEF Token

\* A login starts with generation 0.
LEMMA FirstToken ==
  ASSUME NEW p \in Paths, NEW n \in Nat
  PROVE  /\ First(p, n) \in Token
         /\ First(p, n).path = p /\ First(p, n).login = n
         /\ First(p, n).gen = 0
         /\ First(p, n) # NoToken
  BY NotAToken DEF First, Token

\* What somebody holds is a token; who has spent one holds it.
LEMMA HeldToken ==
  ASSUME TypeOK
  PROVE  /\ \A t : Held(t) => t \in Token
         /\ \A p \in Paths : file[p] # NoToken => Held(file[p])
         /\ \A a \in Granted : tok[a] \in Token /\ Held(tok[a])
  BY NotAToken DEF TypeOK, Held, Granted

-----------------------------------------------------------------------------
(* Types.                                                                  *)

\* Types, step by step.  (That a new token is not lost needs the rest of RefreshInv.)
LEMMA TypeStep ==
  ASSUME RefreshInv, [Next]_vars
  PROVE  TypeOK'
  <1> USE RefreshAssumption DEF RefreshInv
  <1>s. /\ \A t \in Token : Next1(t) \in Token
        /\ \A a \in Granted : Next1(tok[a]) \in valid
        /\ NoToken \notin Token
        /\ Loops \subseteq Actors /\ Requests \subseteq Actors
        /\ Reloads \subseteq Loops /\ Boot \in Loops
        /\ Nil \notin Loops
    BY NextToken, NotAToken DEF RotationInv, GrantedInv, Actors, Loops, Boot, Nil
  <1>1. ASSUME NEW a \in Actors, Request(a) \/ Wake(a) \/ Enable(a) \/ Walked(a)
        PROVE  TypeOK'
    <2>1. CASE Request(a)
      BY <2>1, <1>s DEF Request, TypeOK, To, disk, process, Places
    <2>2. CASE Wake(a)
      BY <2>2, <1>s DEF Wake, TypeOK, To, disk, process, Places
    <2>3. CASE Enable(a)
      BY <2>3, <1>s DEF Enable, TypeOK, To, disk, process, Places
    <2>4. CASE Walked(a)
      BY <2>4, <1>s DEF Walked, TypeOK, To, disk, process, Places
    <2> QED
      BY <1>1, <2>1, <2>2, <2>3, <2>4
  <1>2. ASSUME NEW a \in Actors, NEW p \in Paths, Skip(a, p)
        PROVE  TypeOK'
    BY <1>2, <1>s DEF Skip, TypeOK, Without, disk, process
  <1>3. ASSUME NEW a \in Actors, NEW p \in Paths, Send(a, p)
        PROVE  TypeOK'
    BY <1>3, <1>s DEF Send, TypeOK, Without, To, disk, process, Places
  <1>4. ASSUME NEW a \in Actors, Grant(a)
        PROVE  TypeOK'
    <2>1. tok[a] \in Token /\ tok[a] # NoToken
      BY <1>4, <1>s DEF Grant, TypeOK
    <2>2. tok[a] \notin lost
      BY <2>1 DEF RotationInv, UnseenInv, Held
    <2> QED
      BY <1>4, <1>s, <2>1, <2>2 DEF Grant, TypeOK, To, disk, process, Places
  <1>5. ASSUME NEW a \in Actors, Refused(a)
        PROVE  TypeOK'
    BY <1>5, <1>s DEF Refused, TypeOK, To, disk, process, Places
  <1>6. ASSUME NEW a \in Actors, AnswerLost(a)
        PROVE  TypeOK'
    BY <1>6, <1>s DEF AnswerLost, TypeOK, To, disk, process, Places, Granted
  <1>7. ASSUME NEW a \in Actors, Write(a)
        PROVE  TypeOK'
    BY <1>7, <1>s DEF Write, TypeOK, To, process, Places, Granted
  <1>8. ASSUME NEW a \in Actors, WriteFails(a)
        PROVE  TypeOK'
    BY <1>8, <1>s DEF WriteFails, TypeOK, To, disk, process, Places, Granted
  <1>9. CASE Disable
    BY <1>9, <1>s DEF Disable, TypeOK, disk, Places, Granted
  <1>10. ASSUME NEW p \in Paths, Expires(p) \/ DeleteAccount(p)
         PROVE  TypeOK'
    BY <1>10, <1>s DEF Expires, DeleteAccount, TypeOK, process
  <1>11. ASSUME NEW p \in Paths, Login(p)
         PROVE  TypeOK'
    <2>1. First(p, logins[p] + 1) \in Token
      BY FirstToken DEF TypeOK
    <2> QED
      BY <1>11, <1>s, <2>1 DEF Login, TypeOK, process
  <1>12. CASE Crash
    BY <1>12, <1>s DEF Crash, Started, TypeOK, disk, Places, Granted
  <1>13. CASE UNCHANGED vars
    BY <1>13 DEF vars, TypeOK
  <1> QED
    BY <1>1, <1>2, <1>3, <1>4, <1>5, <1>6, <1>7, <1>8, <1>9, <1>10, <1>11, <1>12,
       <1>13 DEF Next, Refresh, Around

-----------------------------------------------------------------------------
(* The rotation of the tokens.                                             *)

\* The endpoint takes what it took before, nobody holds a new token, and what
\* becomes lost is the token of an answer that is over.
QuietStep ==
  /\ valid' = valid /\ logins' = logins
  /\ \A t \in Token : Held(t)' => Held(t)
  /\ \A a \in Granted' : a \in Granted /\ tok'[a] = tok[a]
  /\ \A t \in lost' : t \in lost \/ \E a \in Granted \ Granted' : t = Next1(tok[a])

\* A step that makes no token valid and gives nobody a token nobody held.
LEMMA Quiet ==
  ASSUME TypeOK, TypeOK', RotationInv, QuietStep
  PROVE  RotationInv'
  <1>1. \A a \in Granted : tok[a] \in Token /\ Next1(tok[a]) \in Token
    BY HeldToken, NextToken
  <1>2. FrontierInv'
    BY DEF RotationInv, FrontierInv, QuietStep, Known
  <1>3. LoginInv'
    BY DEF RotationInv, LoginInv, QuietStep, Known
  <1>4. UnseenInv'
    <2> SUFFICES ASSUME NEW t \in lost', Held(t)'
                 PROVE  FALSE
      BY DEF UnseenInv
    <2>1. t \in Token
      BY DEF TypeOK
    <2>2. Held(t)
      BY <2>1 DEF QuietStep
    <2> QED
      BY <2>2 DEF QuietStep, RotationInv, UnseenInv, GrantedInv
  <1>5. GrantedInv'
    <2> SUFFICES ASSUME NEW a \in Granted'
                 PROVE  (/\ Next1(tok[a]) \in valid
                         /\ Next1(tok[a]) \notin lost
                         /\ ~Held(Next1(tok[a]))
                         /\ \A b \in Granted : tok[b] = tok[a] => b = a)'
      BY DEF GrantedInv
    <2>1. a \in Granted /\ tok'[a] = tok[a]
      BY DEF QuietStep
    <2>2. Next1(tok[a]) \in valid' /\ ~Held(Next1(tok[a]))'
      BY <2>1, <1>1 DEF QuietStep, RotationInv, GrantedInv
    <2>3. \A b \in Granted' : tok'[b] = tok'[a] => b = a
      BY <2>1 DEF QuietStep, RotationInv, GrantedInv
    <2>4. Next1(tok[a]) \notin lost'
      <3> SUFFICES ASSUME NEW b \in Granted \ Granted', Next1(tok[a]) = Next1(tok[b])
                   PROVE  FALSE
        BY <2>1 DEF QuietStep, RotationInv, GrantedInv
      <3>1. tok[a] = tok[b]
        BY <1>1, <2>1, NextInjective
      <3> QED
        BY <3>1, <2>1 DEF RotationInv, GrantedInv
    <2> QED
      BY <2>1, <2>2, <2>3, <2>4
  <1> QED
    BY <1>2, <1>3, <1>4, <1>5 DEF RotationInv

\* A grant: the new token is newer than all of its login, so nobody has it.
LEMMA GrantRotates ==
  ASSUME RefreshInv, TypeOK', NEW a \in Actors, Grant(a)
  PROVE  RotationInv'
  <1> DEFINE new == Next1(tok[a])
  <1> USE DEF RefreshInv, RotationInv
  <1>1. /\ tok[a] \in Token /\ tok[a] \in valid /\ Held(tok[a])
        /\ valid' = (valid \ {tok[a]}) \cup {new}
        /\ UNCHANGED <<file, tok, lost, logins>>
        /\ Granted' = Granted \cup {a}
    <2>1. tok[a] \in Token
      BY DEF Grant, TypeOK
    <2>2. Granted' = Granted \cup {a}
      BY DEF Grant, To, Granted, TypeOK
    <2> QED
      BY <2>1, <2>2, NotAToken DEF Grant, disk, Held
  <1>2. /\ new \in Token /\ SameLogin(tok[a], new) /\ new.gen = tok[a].gen + 1
        /\ new.path = tok[a].path
    BY <1>1, NextToken
  <1>3. \A t : Held(t)' <=> Held(t)
    BY <1>1 DEF Held
  <1>4. \A u \in Token : Known(u) /\ SameLogin(new, u) => u.gen < new.gen
    <2> SUFFICES ASSUME NEW u \in Token, Known(u), SameLogin(new, u)
                 PROVE  u.gen < new.gen
      OBVIOUS
    <2>1. u.gen <= tok[a].gen
      BY <1>1, <1>2 DEF FrontierInv, SameLogin
    <2> QED
      BY <2>1, <1>1, <1>2 DEF Token
  <1>5. ~Known(new)
    BY <1>2, <1>4 DEF SameLogin, Token
  <1>6. FrontierInv'
    <2> SUFFICES ASSUME NEW t \in valid', NEW u \in Token,
                        Known(u)', SameLogin(t, u)
                 PROVE  u.gen <= t.gen
      BY DEF FrontierInv
    <2>1. u = new \/ Known(u)
      BY <1>1, <1>3 DEF Known
    <2>2. CASE t = new
      BY <2>1, <2>2, <1>2, <1>4 DEF Token
    <2>3. CASE t # new
      <3>1. t \in valid /\ t # tok[a] /\ t \in Token
        BY <2>3, <1>1 DEF TypeOK
      <3>2. ~SameLogin(t, tok[a])
        <4> SUFFICES ASSUME SameLogin(t, tok[a])
                     PROVE  FALSE
          OBVIOUS
        <4>1. Known(t) /\ Known(tok[a])
          BY <3>1, <1>1 DEF Known
        <4>2. t.gen <= tok[a].gen /\ tok[a].gen <= t.gen
          BY <4>1, <3>1, <1>1 DEF FrontierInv, SameLogin
        <4>3. t.gen = tok[a].gen
          BY <4>2, <3>1, <1>1 DEF Token
        <4> QED
          BY <4>3, <3>1, <1>1 DEF SameLogin, Token
      <3>3. u # new
        BY <3>2, <1>2 DEF SameLogin
      <3> QED
        BY <3>1, <3>3, <2>1 DEF FrontierInv
    <2> QED
      BY <2>2, <2>3
  <1>7. LoginInv'
    <2>1. new.login = tok[a].login
      BY <1>2 DEF SameLogin
    <2>2. tok[a].login <= logins[tok[a].path]
      BY <1>1 DEF LoginInv, Known
    <2> QED
      BY <1>1, <1>2, <1>3, <2>1, <2>2 DEF LoginInv, Known
  <1>8. UnseenInv'
    BY <1>1, <1>3 DEF UnseenInv
  <1>9. GrantedInv'
    <2>1. new \notin lost
      BY <1>5 DEF TypeOK, Known
    <2>2. \A b \in Granted : tok[b] # tok[a]
      <3> SUFFICES ASSUME NEW b \in Granted, tok[b] = tok[a]
                   PROVE  FALSE
        OBVIOUS
      <3> QED
        BY <1>5 DEF GrantedInv, Known
    <2>3. \A b \in Granted : Next1(tok[b]) # tok[a]
      BY <1>1 DEF GrantedInv
    <2>4. ~Held(new)
      BY <1>5 DEF Known
    <2> QED
      BY <1>1, <1>3, <2>1, <2>2, <2>3, <2>4 DEF GrantedInv
  <1> QED
    BY <1>6, <1>7, <1>8, <1>9

\* A write: the new token is now held, and no other answer carries it.
LEMMA WriteRotates ==
  ASSUME RefreshInv, TypeOK', NEW a \in Actors, Write(a)
  PROVE  RotationInv'
  <1> DEFINE new == Next1(tok[a])
  <1> USE DEF RefreshInv, RotationInv
  <1>1. /\ a \in Granted /\ tok[a] \in Token
        /\ UNCHANGED <<valid, lost, logins>>
        /\ Granted' = Granted \ {a}
        /\ \A b \in Granted' : tok'[b] = tok[b] /\ tok[b] \in Token
    BY HeldToken DEF Write, To, Granted, TypeOK
  <1>2. new \in Token /\ new \in valid /\ new \notin lost
    BY <1>1, NextToken DEF GrantedInv
  <1>3. \A t : Held(t)' => Held(t) \/ t = new
    BY DEF Write, Held, TypeOK
  <1>4. \A u \in Token : Known(u)' => Known(u)
    BY <1>1, <1>2, <1>3 DEF Known
  <1>5. FrontierInv' /\ LoginInv'
    BY <1>1, <1>4 DEF FrontierInv, LoginInv
  <1>6. UnseenInv'
    BY <1>1, <1>2, <1>3 DEF UnseenInv
  <1>7. GrantedInv'
    <2>1. \A b \in Granted' : Next1(tok[b]) # new
      BY <1>1, NextInjective DEF GrantedInv
    <2> QED
      BY <1>1, <1>3, <2>1 DEF GrantedInv
  <1> QED
    BY <1>5, <1>6, <1>7

\* A login: its first token is of a login nobody has seen.
LEMMA LoginRotates ==
  ASSUME RefreshInv, TypeOK', NEW p \in Paths, Login(p)
  PROVE  RotationInv'
  <1> DEFINE new == First(p, logins[p] + 1)
  <1> USE DEF RefreshInv, RotationInv
  <1>1. /\ new \in Token /\ new.path = p /\ new.login = logins[p] + 1
        /\ new.gen = 0
    BY FirstToken DEF TypeOK
  <1>2. /\ valid' = valid \cup {new}
        /\ logins' = [logins EXCEPT ![p] = @ + 1]
        /\ Granted' = Granted
        /\ UNCHANGED <<lost, tok>>
    BY DEF Login, Granted
  <1>3. \A t : Held(t)' => Held(t) \/ t = new
    BY DEF Login, Held, TypeOK
  <1>4. \A u \in Token : Known(u)' => Known(u) \/ u = new
    BY <1>2, <1>3 DEF Known
  <1>5. \A u \in Token : Known(u) => ~SameLogin(u, new)
    <2> SUFFICES ASSUME NEW u \in Token, Known(u), SameLogin(u, new)
                 PROVE  FALSE
      OBVIOUS
    <2>1. u.login <= logins[u.path] /\ u.path = p /\ u.login = logins[p] + 1
      BY <1>1 DEF LoginInv, SameLogin
    <2> QED
      BY <2>1 DEF TypeOK
  <1>6. ~Known(new)
    BY <1>1, <1>5 DEF SameLogin
  <1>7. FrontierInv'
    <2> SUFFICES ASSUME NEW t \in valid', NEW u \in Token,
                        Known(u)', SameLogin(t, u)
                 PROVE  u.gen <= t.gen
      BY DEF FrontierInv
    <2>1. t \in Token /\ (t = new \/ t \in valid)
      BY <1>1, <1>2 DEF TypeOK
    <2>2. CASE t = new /\ u = new
      BY <2>2, <1>1
    <2>3. CASE t = new /\ u # new
      BY <2>3, <1>4, <1>5 DEF SameLogin
    <2>4. CASE t \in valid /\ u = new
      BY <2>1, <2>4, <1>5 DEF Known
    <2>5. CASE t \in valid /\ u # new
      BY <2>5, <1>4 DEF FrontierInv
    <2> QED
      BY <2>1, <2>2, <2>3, <2>4, <2>5
  <1>8. LoginInv'
    <2> SUFFICES ASSUME NEW u \in Token, Known(u)'
                 PROVE  u.login <= logins'[u.path]
      BY DEF LoginInv
    <2>1. CASE u = new
      BY <2>1, <1>1, <1>2 DEF TypeOK
    <2>2. CASE u # new
      <3>1. u.login <= logins[u.path]
        BY <2>2, <1>4 DEF LoginInv
      <3> QED
        BY <3>1, <1>2 DEF TypeOK, Token
    <2> QED
      BY <2>1, <2>2
  <1>9. UnseenInv'
    BY <1>2, <1>3, <1>6 DEF UnseenInv, TypeOK, Known
  <1>10. GrantedInv'
    BY <1>2, <1>3, <1>6 DEF GrantedInv, Known
  <1> QED
    BY <1>7, <1>8, <1>9, <1>10

\* Who may hold which token, step by step.
LEMMA RotationStep ==
  ASSUME RefreshInv, TypeOK', [Next]_vars
  PROVE  RotationInv'
  <1> USE DEF RefreshInv
  <1> SUFFICES ASSUME \/ QuietStep
                      \/ \E a \in Actors : Grant(a) \/ Write(a)
                      \/ \E p \in Paths : Login(p)
               PROVE  RotationInv'
    <2>1. ASSUME NEW a \in Actors, Request(a) \/ Wake(a) \/ Enable(a) \/ Walked(a)
          PROVE  QuietStep
      BY <2>1 DEF QuietStep, Held, Granted, TypeOK, Request, Wake, Enable, Walked,
                  To, disk, process
    <2>2. ASSUME NEW a \in Actors, NEW p \in Paths, Skip(a, p)
          PROVE  QuietStep
      BY <2>2 DEF QuietStep, Held, Granted, Skip, disk, process
    <2>3. ASSUME NEW a \in Actors, NEW p \in Paths, Send(a, p)
          PROVE  QuietStep
      BY <2>3 DEF QuietStep, Held, Granted, TypeOK, Send, To, disk, process
    <2>4. ASSUME NEW a \in Actors, Refused(a)
          PROVE  QuietStep
      BY <2>4 DEF QuietStep, Held, Granted, TypeOK, Refused, To, disk, process
    <2>5. ASSUME NEW a \in Actors, AnswerLost(a)
          PROVE  QuietStep
      BY <2>5 DEF QuietStep, Held, Granted, TypeOK, AnswerLost, To, disk, process
    <2>6. ASSUME NEW a \in Actors, WriteFails(a)
          PROVE  QuietStep
      BY <2>6 DEF QuietStep, Held, Granted, TypeOK, WriteFails, To, disk, process
    <2>7. CASE Disable
      BY <2>7 DEF QuietStep, Held, Granted, TypeOK, Disable, disk
    <2>8. ASSUME NEW p \in Paths, Expires(p) \/ DeleteAccount(p)
          PROVE  QuietStep
      BY <2>8 DEF QuietStep, Held, Granted, TypeOK, Expires, DeleteAccount, process
    <2>9. CASE Crash
      BY <2>9 DEF QuietStep, Held, Granted, TypeOK, Crash, Started, disk
    <2>10. CASE UNCHANGED vars
      BY <2>10 DEF QuietStep, Held, Granted, vars
    <2> QED
      BY <2>1, <2>2, <2>3, <2>4, <2>5, <2>6, <2>7, <2>8, <2>9, <2>10
         DEF Next, Refresh, Around
  <1> QED
    BY Quiet, GrantRotates, WriteRotates, LoginRotates

-----------------------------------------------------------------------------
(* The files.                                                              *)

\* Whatever the step, a file keeps a token of its own account, and that token
\* stays valid or accounted for.
LEMMA FileStep ==
  ASSUME RefreshInv, TypeOK', [Next]_vars
  PROVE  PathInv' /\ TokenKept'
  <1> USE DEF RefreshInv, TypeOK
  <1> DEFINE Good(p) ==
        file[p] # NoToken =>
          /\ file[p].path = p
          /\ \/ file[p] \in valid
             \/ \E a \in Actors : at[a] = "granted" /\ tok[a] = file[p]
             \/ Next1(file[p]) \in lost
  <1> SUFFICES ASSUME NEW p \in Paths
               PROVE  Good(p)'
    BY DEF PathInv, TokenKept
  <1>0. Good(p)
    BY DEF PathInv, TokenKept
  <1>1. ASSUME NEW a \in Actors, Request(a) \/ Wake(a) \/ Enable(a) \/ Walked(a)
        PROVE  Good(p)'
    BY <1>0, <1>1 DEF Request, Wake, Enable, Walked, To, disk, process
  <1>2. ASSUME NEW a \in Actors, NEW q \in Paths, Skip(a, q) \/ Send(a, q)
        PROVE  Good(p)'
    BY <1>0, <1>2 DEF Skip, Send, To, disk, process
  <1>3. ASSUME NEW a \in Actors, Grant(a)
        PROVE  Good(p)'
    BY <1>0, <1>3 DEF Grant, To, disk, process
  <1>4. ASSUME NEW a \in Actors, Refused(a)
        PROVE  Good(p)'
    BY <1>0, <1>4 DEF Refused, To, disk, process
  <1>5. ASSUME NEW a \in Actors, AnswerLost(a)
        PROVE  Good(p)'
    BY <1>0, <1>5 DEF AnswerLost, To, disk, process
  <1>6. ASSUME NEW a \in Actors, Write(a)
        PROVE  Good(p)'
    <2>1. a \in Granted /\ tok[a] \in Token /\ Next1(tok[a]) \in valid
      BY <1>6, HeldToken DEF Write, Granted, RotationInv, GrantedInv
    <2>2. CASE tok[a].path = p
      BY <2>1, <2>2, <1>6, NextToken DEF Write
    <2>3. CASE tok[a].path # p
      <3>1. file'[p] = file[p] /\ valid' = valid /\ lost' = lost
        BY <2>3, <1>6 DEF Write
      <3>2. \A b \in Actors :
              at[b] = "granted" /\ tok[b] = file[p] /\ file[p] # NoToken
                => at'[b] = "granted" /\ tok'[b] = file'[p]
        BY <1>0, <2>3, <3>1, <1>6 DEF Write, To
      <3> QED
        BY <1>0, <3>1, <3>2
    <2> QED
      BY <2>2, <2>3
  <1>7. ASSUME NEW a \in Actors, WriteFails(a)
        PROVE  Good(p)'
    BY <1>0, <1>7 DEF WriteFails, To, disk, process
  <1>8. CASE Disable
    BY <1>0, <1>8 DEF Disable, disk
  <1>9. ASSUME NEW q \in Paths, Expires(q) \/ DeleteAccount(q)
        PROVE  Good(p)'
    BY <1>0, <1>9 DEF Expires, DeleteAccount, process
  <1>10. ASSUME NEW q \in Paths, Login(q)
         PROVE  Good(p)'
    <2>1. First(q, logins[q] + 1).path = q
      BY FirstToken
    <2> QED
      BY <1>0, <1>10, <2>1 DEF Login, process
  <1>11. CASE Crash
    BY <1>0, <1>11 DEF Crash, Started, disk
  <1>12. CASE UNCHANGED vars
    BY <1>0, <1>12 DEF vars
  <1> QED
    BY <1>1, <1>2, <1>3, <1>4, <1>5, <1>6, <1>7, <1>8, <1>9, <1>10, <1>11, <1>12
       DEF Next, Refresh, Around

\* The first tokens of the start satisfy all of it.
LEMMA InitInv == Init => RefreshInv
  <1> SUFFICES ASSUME Init
               PROVE  RefreshInv
    OBVIOUS
  <1>1. \A p \in Paths :
          /\ First(p, 1) \in Token /\ First(p, 1) # NoToken
          /\ First(p, 1).path = p /\ First(p, 1).login = 1 /\ First(p, 1).gen = 0
    BY FirstToken
  <1>2. TypeOK
    <2>1. /\ file \in [Paths -> Token \cup {NoToken}]
          /\ valid \subseteq Token /\ lost \subseteq valid
      BY <1>1 DEF Init
    <2>2. /\ dir \in [Paths -> {"writable", "readonly", "gone"}]
          /\ due \subseteq Paths
      BY DEF Init
    <2>3. /\ logins \in [Paths -> Nat]
          /\ tok \in [Actors -> Token \cup {NoToken}]
      BY DEF Init
    <2>4. todo \in [Actors -> SUBSET Paths]
      <3>1. \A a \in Actors : (IF a = Boot THEN Paths ELSE {}) \in SUBSET Paths
        OBVIOUS
      <3> QED
        BY <3>1 DEF Init
    <2>5. /\ at \in [Actors -> Places]
          /\ \A a \in Actors : tok[a] \in Token <=> at[a] \in {"sent", "granted"}
      BY NotAToken DEF Init, Places
    <2>6. enabled \in BOOLEAN /\ serving \in BOOLEAN
      BY Zenon DEF Init
    <2>7. task \in Loops \cup {Nil} /\ crashes \in 0 .. MAX_CRASHES
      BY RefreshAssumption DEF Init, Loops
    <2> QED
      BY <2>1, <2>2, <2>3, <2>4, <2>5, <2>6, <2>7 DEF TypeOK
  <1>3. \A u : Known(u) => \E p \in Paths : u = First(p, 1)
    BY DEF Init, Known, Held
  <1>4. PathInv
    BY <1>1 DEF Init, PathInv
  <1>5. FrontierInv
    BY <1>1, <1>3 DEF Init, FrontierInv
  <1>6. LoginInv
    BY <1>1, <1>3 DEF Init, LoginInv
  <1>7. UnseenInv /\ GrantedInv
    BY DEF Init, UnseenInv, GrantedInv, Granted
  <1>8. TokenKept
    BY DEF Init, TokenKept
  <1> QED
    BY <1>2, <1>4, <1>5, <1>6, <1>7, <1>8 DEF RefreshInv, RotationInv

\* The invariant is inductive.
LEMMA StepInv == RefreshInv /\ [Next]_vars => RefreshInv'
  <1> SUFFICES ASSUME RefreshInv, [Next]_vars
               PROVE  RefreshInv'
    OBVIOUS
  <1>1. TypeOK'
    BY TypeStep
  <1> QED
    BY <1>1, RotationStep, FileStep DEF RefreshInv

\* Types, and who may hold which token, in every state of every run.
THEOREM Invariance == Spec => []RefreshInv
  BY InitInv, StepInv, PTL DEF Spec

-----------------------------------------------------------------------------
\* Types, for the start-up loop, the loops of reloads and the forced refreshes.
THEOREM TypeCorrect == Spec => []TypeOK
  <1>1. RefreshInv => TypeOK
    BY DEF RefreshInv
  <1> QED
    BY <1>1, Invariance, PTL

\* No number of refreshers loses an account: each file (oauth_refresh.py:112,
\* :191) has a token the endpoint takes, or its successor is on the way to the
\* file, or a fault took that successor.
THEOREM TokensKept == Spec => []TokenKept
  <1>1. RefreshInv => TokenKept
    BY DEF RefreshInv
  <1> QED
    BY <1>1, Invariance, PTL

\* Of one login, only a write replaces the token of a file, and by the valid one,
\* the newest.
LEMMA WriteNewer ==
  ASSUME RefreshInv, [Next]_vars, NEW p \in Paths,
         file[p] # NoToken, file'[p] # NoToken, file'[p].login = file[p].login
  PROVE  file'[p].gen >= file[p].gen
  <1> USE DEF RefreshInv
  <1>1. file[p] \in Token /\ file[p].path = p /\ Held(file[p])
    BY HeldToken DEF PathInv, TypeOK
  <1>2. CASE file'[p] = file[p]
    BY <1>1, <1>2 DEF Token
  <1>3. ASSUME NEW a \in Actors, Write(a), tok[a].path = p
        PROVE  file'[p].gen >= file[p].gen
    <2>1. a \in Granted /\ tok[a] \in Token /\ Next1(tok[a]) \in valid
      BY <1>3, HeldToken DEF Write, Granted, RotationInv, GrantedInv
    <2>2. file'[p] = Next1(tok[a])
      BY <1>3 DEF Write, TypeOK
    <2>3. file[p].gen <= Next1(tok[a]).gen
      BY <2>1, <2>2, <1>1, <1>3, NextToken
         DEF RotationInv, FrontierInv, Known, SameLogin
    <2> QED
      BY <2>1, <2>2, <2>3, <1>1, NextToken DEF Token
  <1>4. ASSUME NEW q \in Paths, Login(q), q = p
        PROVE  FALSE
    <2>1. file'[p].login = logins[p] + 1
      BY <1>4, FirstToken DEF Login, TypeOK
    <2>2. file[p].login <= logins[p]
      BY <1>1 DEF RotationInv, LoginInv, Known
    <2> QED
      BY <2>1, <2>2, <1>1 DEF Token, TypeOK
  <1>5. \/ file'[p] = file[p]
        \/ \E a \in Actors : Write(a) /\ tok[a].path = p
        \/ \E q \in Paths : Login(q) /\ q = p
    BY DEF Next, Refresh, Around, Request, Wake, Enable, Walked, Skip, Send, Grant,
           Refused, AnswerLost, Write, WriteFails, Disable, Expires, DeleteAccount,
           Login, Crash, disk, process, vars, TypeOK
  <1> QED
    BY <1>2, <1>3, <1>4, <1>5

\* Answers that overtake each other never put an older token of the same login
\* back into the file (oauth_refresh.py:112), whoever writes.
THEOREM NeverPutBack == Spec => NeverBack
  <1>1. RefreshInv /\ [Next]_vars =>
          [\A p \in Paths :
             file[p] # NoToken /\ file'[p] # NoToken /\ file'[p].login = file[p].login
               => file'[p].gen >= file[p].gen]_vars
    BY WriteNewer
  <1> QED
    BY <1>1, Invariance, PTL DEF Spec, NeverBack
=============================================================================
