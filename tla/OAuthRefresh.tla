----------------------------- MODULE OAuthRefresh -----------------------------
(***************************************************************************)
(* The refresher of the OAuth tokens (src/src/oauth_refresh.py), the admin *)
(* endpoints that drive it (refresh-now, and the reload that enables or    *)
(* disables it) and the accounts that come and go under it.                *)
(*                                                                         *)
(* A refresh reads the file, spends its refresh token at the endpoint and  *)
(* writes the answer back, with an await in between and no lock: the       *)
(* periodic loop, a forced refresh and the loop a reload has just started  *)
(* may all do it at once.  The token is single use, so a lost answer is a  *)
(* lost account.                                                           *)
(*                                                                         *)
(* The order of credentials_paths is left free.  Out: workers that refresh *)
(* by themselves while the refresher is disabled.                          *)
(***************************************************************************)
EXTENDS Naturals

CONSTANTS
  Paths,         \* credentials_paths: one file per account of the start
  Requests,      \* POST /admin/refresh-now
  Reloads,       \* POST /admin/reload that enables the refresher
  MAX_GEN,       \* bound: rotations of one login's token that come due
  Again,         \* bound: accounts that are logged in a second time
  MAX_CRASHES    \* bound: crashes of the main process

Nil == "nil"
Boot == "boot"   \* the loop the process starts with

ASSUME RefreshAssumption ==
  /\ MAX_GEN \in Nat /\ MAX_CRASHES \in Nat
  /\ Again \subseteq Paths
  /\ Nil \notin Paths \cup Reloads
  /\ Boot \notin Requests \cup Reloads
  /\ Requests \cap Reloads = {}

Loops == Reloads \cup {Boot}
Actors == Requests \cup Loops

VARIABLES
  file,      \* the token in the credentials file, NoToken without one
  dir,       \* the account's directory
  due,       \* paths whose access token expires within refresh_window
  logins,    \* logins of each account so far
  valid,     \* tokens the endpoint takes (external)
  lost,      \* tokens that were issued and never reached a file
  at,        \* where each actor is
  todo,      \* the paths an actor has still to walk
  tok,       \* the token an actor sends, or has just spent
  enabled,   \* config.oauth_refresh.enabled
  task,      \* refresher_state: the registered loop
  serving,   \* the start-up refresh is over
  crashes

vars == <<file, dir, due, logins, valid, lost, at, todo, tok, enabled, task,
          serving, crashes>>

\* The gen-th token of a login; each refresh rotates it.
Token == [path : Paths, login : Nat, gen : Nat]
NoToken == [path |-> Nil, login |-> 0, gen |-> 0]
Next1(t) == [t EXCEPT !.gen = @ + 1]
First(p, n) == [path |-> p, login |-> n, gen |-> 0]

\* new: a request not made yet; sent: the POST is on its way; granted: the
\* endpoint has rotated the token and its answer is on its way.
Places == {"new", "over", "walk", "sent", "granted", "sleep"}

TypeOK ==
  /\ file \in [Paths -> Token \cup {NoToken}]
  /\ dir \in [Paths -> {"writable", "readonly", "gone"}]
  /\ due \subseteq Paths
  /\ logins \in [Paths -> Nat]
  /\ valid \subseteq Token
  /\ lost \subseteq valid
  /\ at \in [Actors -> Places]
  /\ todo \in [Actors -> SUBSET Paths]
  /\ tok \in [Actors -> Token \cup {NoToken}]
  /\ \A a \in Actors : tok[a] \in Token <=> at[a] \in {"sent", "granted"}
  /\ enabled \in BOOLEAN
  /\ task \in Loops \cup {Nil}
  /\ serving \in BOOLEAN
  /\ crashes \in 0 .. MAX_CRASHES

\* The lifespan of the application: initial_refresh, then the loop.
Started ==
  /\ todo' = [a \in Actors |-> IF a = Boot /\ enabled' THEN Paths ELSE {}]
  /\ tok' = [a \in Actors |-> NoToken]
  /\ task' = IF enabled' THEN Boot ELSE Nil
  /\ serving' = ~enabled'

Init ==
  /\ file = [p \in Paths |-> First(p, 1)]
  /\ dir \in [Paths -> {"writable", "readonly"}]
  /\ due \in SUBSET Paths
  /\ logins = [p \in Paths |-> 1]
  /\ valid = {First(p, 1) : p \in Paths}
  /\ lost = {}
  /\ enabled = TRUE
  /\ at = [a \in Actors |-> IF a = Boot THEN "walk" ELSE "new"]
  /\ todo = [a \in Actors |-> IF a = Boot THEN Paths ELSE {}]
  /\ tok = [a \in Actors |-> NoToken]
  /\ task = Boot
  /\ serving = FALSE
  /\ crashes = 0

disk == <<file, dir, due, logins>>
process == <<enabled, task, serving, crashes>>

To(a, place) == at' = [at EXCEPT ![a] = place]
Without(a, p) == todo' = [todo EXCEPT ![a] = @ \ {p}]

-----------------------------------------------------------------------------
(* One walk over the paths: _tick and _tick_path of a loop, refresh_now    *)
(* and _refresh_path_now of a request.                                     *)

Request(a) ==
  /\ a \in Requests
  /\ at[a] = "new"
  /\ serving
  /\ task # Nil
  /\ To(a, "walk")
  /\ todo' = [todo EXCEPT ![a] = Paths]
  /\ UNCHANGED <<disk, valid, lost, tok, process>>

\* check_interval has gone by.
Wake(a) ==
  /\ at[a] = "sleep"
  /\ To(a, "walk")
  /\ todo' = [todo EXCEPT ![a] = Paths]
  /\ UNCHANGED <<disk, valid, lost, tok, process>>

\* Nothing to read; or, for a loop only, the token has plenty of life left.
Skip(a, p) ==
  /\ at[a] = "walk"
  /\ p \in todo[a]
  /\ file[p] = NoToken \/ (a \in Loops /\ p \notin due)
  /\ Without(a, p)
  /\ UNCHANGED <<disk, valid, lost, at, tok, process>>

\* Mutant: a file that cannot be read is not noticed.
SendBlind(a, p) ==
  /\ at[a] = "walk"
  /\ p \in todo[a]
  /\ a \in Loops => p \in due
  /\ tok' = [tok EXCEPT ![a] = file[p]]
  /\ Without(a, p)
  /\ To(a, "sent")
  /\ UNCHANGED <<disk, valid, lost, process>>

\* The file is read and its token posted: one stretch up to the await.
Send(a, p) ==
  /\ at[a] = "walk"
  /\ p \in todo[a]
  /\ file[p] # NoToken
  /\ a \in Loops => p \in due
  /\ tok' = [tok EXCEPT ![a] = file[p]]
  /\ Without(a, p)
  /\ To(a, "sent")
  /\ UNCHANGED <<disk, valid, lost, process>>

\* The endpoint (external): a valid token is taken once, and replaced.
Grant(a) ==
  /\ at[a] = "sent"
  /\ tok[a] \in valid
  /\ valid' = (valid \ {tok[a]}) \cup {Next1(tok[a])}
  /\ To(a, "granted")
  /\ UNCHANGED <<disk, lost, todo, tok, process>>

\* Mutant: what was read is written back all the same.
RefusedWritesBack(a) ==
  /\ at[a] = "sent"
  /\ file' = IF dir[tok[a].path] = "writable"
             THEN [file EXCEPT ![tok[a].path] = tok[a]] ELSE file
  /\ To(a, "walk")
  /\ tok' = [tok EXCEPT ![a] = NoToken]
  /\ UNCHANGED <<dir, due, logins, valid, lost, todo, process>>

\* _refresh returns None before the token was spent, or since another actor
\* has spent it: network error, status other than 200.
Refused(a) ==
  /\ at[a] = "sent"
  /\ To(a, "walk")
  /\ tok' = [tok EXCEPT ![a] = NoToken]
  /\ UNCHANGED <<disk, valid, lost, todo, process>>

\* _refresh returns None although the token was spent: the connection breaks
\* or is silent for 30 s, the answer is not JSON or lacks a field.
AnswerLost(a) ==
  /\ at[a] = "granted"
  /\ lost' = lost \cup {Next1(tok[a])}
  /\ To(a, "walk")
  /\ tok' = [tok EXCEPT ![a] = NoToken]
  /\ UNCHANGED <<disk, valid, todo, process>>

\* Mutant: the token that was sent is kept.
WriteOld(a) ==
  LET p == tok[a].path
  IN /\ at[a] = "granted"
     /\ dir[p] = "writable"
     /\ file' = [file EXCEPT ![p] = tok[a]]
     /\ due' = due \ {p}
     /\ To(a, "walk")
     /\ tok' = [tok EXCEPT ![a] = NoToken]
     /\ UNCHANGED <<dir, logins, valid, lost, todo, process>>

\* oauth.update and _atomic_write: the whole file, as it was read before the
\* await, with the new token in it.
Write(a) ==
  LET p == tok[a].path
  IN /\ at[a] = "granted"
     /\ dir[p] = "writable"
     /\ file' = [file EXCEPT ![p] = Next1(tok[a])]
     /\ due' = due \ {p}
     /\ To(a, "walk")
     /\ tok' = [tok EXCEPT ![a] = NoToken]
     /\ UNCHANGED <<dir, logins, valid, lost, todo, process>>

\* Mutant: an error ends the loop.
WriteFailsForGood(a) ==
  /\ at[a] = "granted"
  /\ dir[tok[a].path] # "writable"
  /\ lost' = lost \cup {Next1(tok[a])}
  /\ tok' = [tok EXCEPT ![a] = NoToken]
  /\ To(a, "over")
  /\ todo' = [todo EXCEPT ![a] = {}]
  /\ UNCHANGED <<disk, valid, process>>

\* mkstemp raises: a loop logs it and goes on with the next path, a request
\* answers 500 and leaves the rest of its paths alone.
WriteFails(a) ==
  /\ at[a] = "granted"
  /\ dir[tok[a].path] # "writable"
  /\ lost' = lost \cup {Next1(tok[a])}
  /\ tok' = [tok EXCEPT ![a] = NoToken]
  /\ \/ /\ a \in Loops
        /\ To(a, "walk")
        /\ UNCHANGED todo
     \/ /\ a \in Requests
        /\ To(a, "over")
        /\ todo' = [todo EXCEPT ![a] = {}]
  /\ UNCHANGED <<disk, valid, process>>

\* The walk is over.  A reload registers its loop only now, and sets the flag
\* it tested before: one that overlapped with it did the same.
Walked(a) ==
  /\ at[a] = "walk"
  /\ todo[a] = {}
  /\ To(a, IF a \in Loops THEN "sleep" ELSE "over")
  /\ \/ /\ a = Boot
        /\ serving' = TRUE
        /\ UNCHANGED <<task, enabled>>
     \/ /\ a \in Reloads
        /\ task' = a
        /\ enabled' = TRUE
        /\ UNCHANGED serving
     \/ /\ a \in Requests
        /\ UNCHANGED <<task, enabled, serving>>
  /\ UNCHANGED <<disk, valid, lost, todo, tok, crashes>>

-----------------------------------------------------------------------------
(* _apply_oauth_refresh.                                                   *)

\* initial_refresh of a fresh refresher, with the paths of the start.
Enable(a) ==
  /\ a \in Reloads
  /\ at[a] = "new"
  /\ serving
  /\ ~enabled
  /\ To(a, "walk")
  /\ todo' = [todo EXCEPT ![a] = Paths]
  /\ UNCHANGED <<disk, valid, lost, tok, process>>

\* The registered loop is cancelled, at its await; a request that walks with
\* the dropped refresher goes on.
Disable ==
  /\ serving
  /\ enabled
  /\ task # Nil
  /\ enabled' = FALSE
  /\ task' = Nil
  /\ at' = [at EXCEPT ![task] = "over"]
  /\ todo' = [todo EXCEPT ![task] = {}]
  /\ tok' = [tok EXCEPT ![task] = NoToken]
  /\ lost' = IF at[task] = "granted" THEN lost \cup {Next1(tok[task])} ELSE lost
  /\ UNCHANGED <<disk, valid, serving, crashes>>

-----------------------------------------------------------------------------
(* What happens around the refresher.                                      *)

Expires(p) ==
  /\ file[p] # NoToken
  /\ p \notin due
  /\ file[p].gen < MAX_GEN
  /\ due' = due \cup {p}
  /\ UNCHANGED <<file, dir, logins, valid, lost, at, todo, tok, process>>

\* delete_account removes the directory, whoever is about to write into it.
DeleteAccount(p) ==
  /\ serving
  /\ dir[p] = "writable"
  /\ dir' = [dir EXCEPT ![p] = "gone"]
  /\ file' = [file EXCEPT ![p] = NoToken]
  /\ due' = due \ {p}
  /\ UNCHANGED <<logins, valid, lost, at, todo, tok, process>>

\* LoginSession.finish installs new credentials under the same name.
Login(p) ==
  /\ serving
  /\ dir[p] = "gone"
  /\ p \in Again /\ logins[p] = 1
  /\ logins' = [logins EXCEPT ![p] = @ + 1]
  /\ dir' = [dir EXCEPT ![p] = "writable"]
  /\ file' = [file EXCEPT ![p] = First(p, logins[p] + 1)]
  /\ valid' = valid \cup {First(p, logins[p] + 1)}
  /\ UNCHANGED <<due, lost, at, todo, tok, process>>

\* The main process dies and is started again, enabled or not.
Crash ==
  /\ crashes < MAX_CRASHES
  /\ crashes' = crashes + 1
  /\ enabled' \in BOOLEAN
  /\ at' = [a \in Actors |->
              IF a = Boot /\ enabled' THEN "walk"
              ELSE IF at[a] = "new" THEN "new" ELSE "over"]
  /\ lost' = lost \cup {Next1(tok[a]) : a \in {b \in Actors : at[b] = "granted"}}
  /\ Started
  /\ UNCHANGED <<disk, valid>>

Refresh(a) ==
  \/ Request(a) \/ Wake(a) \/ Enable(a) \/ Walked(a)
  \/ \E p \in Paths : Skip(a, p) \/ Send(a, p)
  \/ Grant(a) \/ Refused(a) \/ AnswerLost(a) \/ Write(a) \/ WriteFails(a)

Around(p) == Expires(p) \/ DeleteAccount(p) \/ Login(p)

Next ==
  \/ \E a \in Actors : Refresh(a)
  \/ Disable
  \/ \E p \in Paths : Around(p)
  \/ Crash

Spec == Init /\ [][Next]_vars

\* The event loop runs what can run; a POST ends (each wait for the endpoint is
\* bounded by 30 s, and its answer is short), and an endpoint that is asked for an
\* account again and again answers at last.
Fairness ==
  \A a \in Loops :
    /\ WF_vars(Wake(a)) /\ WF_vars(Walked(a))
    /\ \A p \in Paths : WF_vars(Skip(a, p) \/ Send(a, p))
    /\ WF_vars(Grant(a) \/ Refused(a))
    /\ WF_vars(AnswerLost(a) \/ Write(a) \/ WriteFails(a))
    /\ \A p \in Paths : SF_vars(Grant(a) /\ tok[a].path = p)

FairSpec == Spec /\ Fairness

-----------------------------------------------------------------------------
\* No interleaving of refreshers loses an account: its file holds a token the
\* endpoint takes, or the actor that spent it is about to write the next one,
\* unless a fault (a broken connection, a crash, a cancelled loop, a directory
\* that cannot be written) took that very answer.
TokenKept ==
  \A p \in Paths : file[p] # NoToken =>
    \/ file[p] \in valid
    \/ \E a \in Actors : at[a] = "granted" /\ tok[a] = file[p]
    \/ Next1(file[p]) \in lost

\* Answers that arrive in any order never put an older token of the same login
\* back into the file.
NeverBack ==
  [][\A p \in Paths :
       file[p] # NoToken /\ file'[p] # NoToken /\ file'[p].login = file[p].login
         => file'[p].gen >= file[p].gen]_vars

\* Whether the token of p can still be refreshed, by the loop, on this disk.
Refreshable(p) ==
  /\ enabled
  /\ file[p] # NoToken
  /\ file[p] \in valid
  /\ dir[p] = "writable"

\* An enabled refresher refreshes every account that comes due, also when the
\* refresh of another one hangs, fails or raises in every tick.
DueRefreshed == \A p \in Paths : p \in due ~> p \notin due \/ ~Refreshable(p)

-----------------------------------------------------------------------------
(* What the code says and does not do.                                     *)

\* "the main process becomes the SOLE refresher" (oauth_refresh.py:18), "keeps
\* refresh_token rotation single-writer per account" (line 58): two reloads that
\* overlap in initial_refresh leave two loops, of which one is never cancelled.
OneLoop ==
  \A a, b \in Loops : at[a] = "sleep" /\ at[b] = "sleep" => a = b

\* The same claim: a refresh under way when the account is deleted and logged in
\* again writes the token of the old login over the new one.
LoginKept ==
  [][\A p \in Paths :
       file[p] # NoToken /\ file'[p] # NoToken => file'[p].login >= file[p].login]_vars

\* "Force one immediate refresh attempt across all accounts", with "failed" for
\* "any error" (lines 81-88): a write that raises leaves the rest out.
ForcedReachesAll ==
  [][\A a \in Requests :
       at[a] # "over" /\ at'[a] = "over" /\ ~(Crash) => todo[a] = {}]_vars
=============================================================================
