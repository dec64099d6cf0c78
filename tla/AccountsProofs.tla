---------------------------- MODULE AccountsProofs ----------------------------
(***************************************************************************)
(* What the account administration (Accounts) guarantees for any accounts, *)
(* keys, logins, finishes and configurations: an account gets the pool its *)
(* own login asked for, an account that was finished for good stays, and   *)
(* the process starts again from what was written.                         *)
(***************************************************************************)
EXTENDS Accounts, TLAPS

(***************************************************************************)
(* The first part of the invariant: the types, with the shapes of the      *)
(* records that change over a login, a finish and a reload, and which flow *)
(* the registry has.                                                       *)
(***************************************************************************)
Choices == Keys \cup {Unset, Skip}

FlowType ==
  [at : {"new", "failed"}]
    \cup [at : Places \ {"new"}, name : Names, key : Choices]

FinType ==
  [at : {"new", "over"}]
    \cup [at : {"waiting", "over"}, name : Names, code : Flows, key : Choices]
    \cup [at : {"exchange", "spawn", "starting", "over"}, flow : Flows,
          name : Names, code : Flows, key : Choices]

\* A table by account, and one of the pools.
IsTable(acc) == DOMAIN acc \subseteq Names
IsPools(us) ==
  /\ DOMAIN us \subseteq Keys
  /\ \A k \in DOMAIN us : us[k] \subseteq Names

ReloadShape ==
  \/ reload = NoReload
  \/ /\ reload.at = "oauth"
     /\ reload = [at |-> reload.at, new |-> reload.new]
  \/ /\ reload.at \in {"adding", "starting"}
     /\ reload = [at |-> reload.at, new |-> reload.new, name |-> reload.name,
                  add |-> reload.add, remove |-> reload.remove]
  \/ /\ reload.at = "removing"
     /\ reload = [at |-> reload.at, new |-> reload.new, name |-> reload.name,
                  found |-> reload.found, add |-> reload.add, remove |-> reload.remove]
  \/ /\ reload.at = "swapped"
     /\ reload = [at |-> reload.at, gone |-> reload.gone, add |-> reload.add]
  \/ /\ reload.at = "prewarm"
     /\ reload = [at |-> reload.at, add |-> reload.add]

\* A reload that has a configuration to install.
Installing == reload.at \in {"oauth", "adding", "starting", "removing"}

ReloadTyped ==
  /\ ReloadShape
  /\ Installing => IsTable(reload.new.accounts) /\ IsPools(reload.new.users)
  /\ reload.at \in {"adding", "starting", "removing"} =>
       /\ reload.name \in Names
       /\ reload.add \subseteq Names /\ reload.remove \subseteq Names
  /\ reload.at \in {"swapped", "prewarm"} => reload.add \subseteq Names

LiveInv ==
  /\ yaml \in Yamls
  /\ IsTable(overlay) /\ IsTable(accounts) /\ IsPools(users)
  /\ cred \in [Names -> Flows \cup {"old", Nil}]
  /\ sessions \subseteq Names
  /\ watched \subseteq Names
  /\ up \in BOOLEAN
  /\ IsTable(stopping)
  /\ kept \subseteq Names
  /\ raced \in BOOLEAN
  /\ ReloadTyped

LoginTyped ==
  /\ registry \in [Names -> Flows \cup {Nil}]
  /\ rlock \in Flows \cup {Nil}
  /\ flow \in [Flows -> FlowType]
  /\ fin \in [Finishes -> FinType]

\* The registry has the open flows, and room for the one that is starting.
FlowsLinked ==
  /\ \A n \in Names : registry[n] # Nil =>
       flow[registry[n]].at = "open" /\ flow[registry[n]].name = n
  /\ \A f \in Flows :
       /\ f = rlock <=> flow[f].at = "spawning"
       /\ flow[f].at = "open" => registry[flow[f].name] = f
       /\ flow[f].at = "spawning" => registry[flow[f].name] = Nil

\* The pool a finish has read is the one of the login whose code it brings, for
\* as long as that login can still be the one it pops, and when it has popped it.
PoolRead ==
  \A g \in Finishes :
    LET c == fin[g].code IN
    /\ fin[g].at = "waiting" =>
         /\ flow[c].at \in {"open", "popped", "over", "used"}
         /\ flow[c].at = "open" => fin[g].key = flow[c].key
    /\ fin[g].at = "exchange" =>
         /\ flow[fin[g].flow].at \in {"popped", "over", "used"}
         /\ c = fin[g].flow => fin[g].key = flow[c].key

LoginInv == LoginTyped /\ FlowsLinked /\ PoolRead

(***************************************************************************)
(* What a start and a reload read is valid, and the pools are covered.     *)
(***************************************************************************)
Tags(acc) == \A n \in DOMAIN acc : acc[n] \in Keys \cup {Nil}

Covered == raced \/ reload.at = "removing" \/ Listed(users) \subseteq DOMAIN accounts

ConfigInv ==
  /\ Tags(overlay) /\ Tags(accounts)
  /\ Covered
  /\ Installing =>
       /\ Tags(reload.new.accounts)
       /\ Listed(reload.new.users) \subseteq DOMAIN reload.new.accounts
  /\ reload.at \in {"adding", "starting"} => reload.add \subseteq DOMAIN reload.new.accounts
  /\ reload.at = "removing" => reload.add = {}
  /\ ~raced =>
       /\ reload.at \in {"adding", "starting"} =>
            /\ DOMAIN reload.new.accounts \subseteq DOMAIN accounts \cup reload.add
            /\ reload.remove \cap DOMAIN reload.new.accounts = {}
       /\ reload.at = "removing" =>
            /\ DOMAIN reload.new.accounts \subseteq DOMAIN accounts
            /\ (reload.remove \cup {reload.name}) \cap DOMAIN reload.new.accounts = {}

(***************************************************************************)
(* An account that is kept is in what the reload under way will install;   *)
(* and nothing is under way in a process that did not come up.             *)
(***************************************************************************)
Idle ==
  ~up => /\ reload = NoReload /\ stopping = <<>>
         /\ \A g \in Finishes : fin[g].at \in {"new", "over"}

\* In its pool, when it has one.
InPool(n, us) == overlay[n] # Nil => overlay[n] \in DOMAIN us /\ n \in us[overlay[n]]

KeptInv ==
  \A n \in kept :
    /\ n \in DOMAIN overlay /\ overlay[n] \in Keys \cup {Nil}
    /\ cred[n] # Nil
    /\ up => /\ n \in DOMAIN accounts /\ accounts[n] = overlay[n]
             /\ InPool(n, users)
    /\ Installing =>
         /\ n \in DOMAIN reload.new.accounts
         /\ reload.new.accounts[n] = overlay[n]
         /\ InPool(n, reload.new.users)
    /\ reload.at \in {"adding", "starting", "removing"} =>
         n \notin reload.add \cup reload.remove
    /\ reload.at = "removing" => n # reload.name

-----------------------------------------------------------------------------
(* The operators.                                                          *)

\* What an overlay hides and what it lets through.
LEMMA OverFacts ==
  ASSUME NEW f, NEW g
  PROVE  /\ DOMAIN Over(f, g) = DOMAIN f \cup DOMAIN g
         /\ \A x \in DOMAIN f : Over(f, g)[x] = f[x]
         /\ \A x \in DOMAIN g \ DOMAIN f : Over(f, g)[x] = g[x]
BY DEF Over

\* A table with one entry set has that entry ...
LEMMA PutAt ==
  ASSUME NEW f, NEW x, NEW e
  PROVE  x \in DOMAIN Put(f, x, e) /\ Put(f, x, e)[x] = e
BY DEF Put, Over

\* ... and the others it had ...
LEMMA PutElse ==
  ASSUME NEW f, NEW x, NEW e, NEW y, y # x
  PROVE  /\ y \in DOMAIN Put(f, x, e) <=> y \in DOMAIN f
         /\ y \in DOMAIN f => Put(f, x, e)[y] = f[y]
BY DEF Put, Over

\* ... about accounts, when the entry is.
LEMMA PutTable ==
  ASSUME NEW acc, IsTable(acc), NEW n \in Names, NEW e
  PROVE  IsTable(Put(acc, n, e))
BY DEF IsTable, Put, Over

\* Every configuration has the same keys, and the names that stand for none are
\* none of them.
LEMMA KeyFacts ==
  /\ Nil \notin Keys \cup Flows /\ Unset \notin Keys /\ Skip \notin Keys
  /\ \A y \in Yamls : Keys = DOMAIN y.users \cup {ApiKey}
BY AccountsAssumption DEF Keys

\* _wire_accounts: the keys stay, every account is in the pool of its tag, and
\* what config.yaml lists is listed.
LEMMA WiredFacts ==
  ASSUME NEW y \in Yamls, NEW acc
  PROVE  /\ Wired(y, acc).accounts = acc
         /\ DOMAIN Wired(y, acc).users = Keys
         /\ \A n \in DOMAIN acc : acc[n] \in Keys => n \in Wired(y, acc).users[acc[n]]
         /\ \A k \in Keys : Wired(y, acc).users[k] \subseteq
              DOMAIN acc \cup (IF k \in DOMAIN y.users THEN y.users[k] ELSE {})
         /\ \A k \in DOMAIN y.users : y.users[k] \subseteq Wired(y, acc).users[k]
         /\ Wired(y, acc).ok <=> /\ \A n \in DOMAIN acc : acc[n] \in Keys \cup {Nil}
                                 /\ Listed(Wired(y, acc).users) \subseteq DOMAIN acc
<1> DEFINE filled == Over(y.users, [k \in {ApiKey} |-> DOMAIN acc])
           tagged == [k \in DOMAIN filled |->
                        filled[k] \cup {n \in DOMAIN acc : acc[n] = k}]
<1>1. Wired(y, acc) = [accounts |-> acc, users |-> tagged,
        ok |-> /\ \A n \in DOMAIN acc : acc[n] \in DOMAIN filled \cup {Nil}
               /\ Listed(tagged) \subseteq DOMAIN acc]
  BY DEF Wired
<1>2. DOMAIN filled = Keys
  <2>1. DOMAIN filled = DOMAIN y.users \cup {ApiKey}
    BY OverFacts
  <2> QED BY <2>1, KeyFacts
<1>3. \A k \in Keys : filled[k] = IF k \in DOMAIN y.users THEN y.users[k] ELSE DOMAIN acc
  <2>1. DOMAIN [k \in {ApiKey} |-> DOMAIN acc] = {ApiKey}
        /\ [k \in {ApiKey} |-> DOMAIN acc][ApiKey] = DOMAIN acc
    OBVIOUS
  <2>2. PICK own : own = [k \in {ApiKey} |-> DOMAIN acc]
    OBVIOUS
  <2>3. DOMAIN own = {ApiKey} /\ own[ApiKey] = DOMAIN acc /\ filled = Over(y.users, own)
    BY <2>1, <2>2
  <2>4. /\ \A k \in DOMAIN y.users : filled[k] = y.users[k]
        /\ \A k \in {ApiKey} \ DOMAIN y.users : filled[k] = own[k]
    <3>1. PICK us : us = y.users
      OBVIOUS
    <3>2. filled = Over(us, own)
      BY <2>3, <3>1
    <3> HIDE DEF filled
    <3>3. \A k \in DOMAIN us : Over(us, own)[k] = us[k]
      BY OverFacts
    <3>4. \A k \in DOMAIN own \ DOMAIN us : Over(us, own)[k] = own[k]
      BY OverFacts
    <3> QED BY <2>3, <3>1, <3>2, <3>3, <3>4
  <2> HIDE DEF filled
  <2> QED BY <2>3, <2>4, KeyFacts
<1> HIDE DEF filled
<1>4. DOMAIN tagged = Keys
  BY <1>2
<1>5. \A k \in Keys : tagged[k] = filled[k] \cup {n \in DOMAIN acc : acc[n] = k}
  BY <1>2
<1> HIDE DEF tagged
<1>6. /\ Wired(y, acc).accounts = acc /\ Wired(y, acc).users = tagged
      /\ Wired(y, acc).ok <=> /\ \A n \in DOMAIN acc : acc[n] \in DOMAIN filled \cup {Nil}
                              /\ Listed(tagged) \subseteq DOMAIN acc
  BY <1>1
<1>7. \A k \in DOMAIN y.users : k \in Keys
  BY KeyFacts
<1>8. \A n \in DOMAIN acc : acc[n] \in Keys => n \in tagged[acc[n]]
  BY <1>5
<1>9. \A k \in Keys : tagged[k] \subseteq
        DOMAIN acc \cup (IF k \in DOMAIN y.users THEN y.users[k] ELSE {})
  BY <1>3, <1>5
<1>10. \A k \in DOMAIN y.users : y.users[k] \subseteq tagged[k]
  BY <1>3, <1>5, <1>7
<1> QED BY <1>2, <1>4, <1>6, <1>8, <1>9, <1>10

\* The overlay a start reads is the one that was written, or there is none.
LEMMA ReadFacts ==
  /\ Read \in {overlay, <<>>} /\ DOMAIN Read \subseteq DOMAIN overlay
  /\ \A n \in DOMAIN Read : Read[n] = overlay[n]
  /\ DbPath => Read = overlay
BY AccountsAssumption DEF Read

\* What a start reads: the accounts of both files, and the pools wired to them.
LEMMA LoadFacts ==
  ASSUME yaml \in Yamls
  PROVE  /\ DOMAIN Load.accounts = DOMAIN Read \cup DOMAIN yaml.accounts
         /\ \A n \in DOMAIN Read : Load.accounts[n] = Read[n]
         /\ \A n \in DOMAIN yaml.accounts \ DOMAIN Read :
              Load.accounts[n] = yaml.accounts[n]
         /\ DOMAIN Load.users = Keys
         /\ \A n \in DOMAIN Load.accounts :
              Load.accounts[n] \in Keys => n \in Load.users[Load.accounts[n]]
<1> DEFINE both == Over(Read, yaml.accounts)
<1>1. /\ Load.accounts = both /\ DOMAIN Load.users = Keys
      /\ \A n \in DOMAIN both : both[n] \in Keys => n \in Load.users[both[n]]
  BY WiredFacts DEF Load
<1>2. /\ DOMAIN both = DOMAIN Read \cup DOMAIN yaml.accounts
      /\ \A n \in DOMAIN Read : both[n] = Read[n]
      /\ \A n \in DOMAIN yaml.accounts \ DOMAIN Read : both[n] = yaml.accounts[n]
  BY OverFacts
<1> HIDE DEF both
<1> QED BY <1>1, <1>2

\* ... all of it about accounts.
LEMMA LoadTyped ==
  ASSUME yaml \in Yamls, IsTable(overlay)
  PROVE  IsTable(Load.accounts) /\ IsPools(Load.users)
<1>1. DOMAIN yaml.accounts \subseteq Names
      /\ \A k \in DOMAIN yaml.users : yaml.users[k] \subseteq Names
  BY AccountsAssumption
<1>2. IsTable(Load.accounts)
  BY <1>1, LoadFacts, ReadFacts DEF IsTable
<1>3. \A k \in Keys : Load.users[k] \subseteq
        DOMAIN Load.accounts \cup (IF k \in DOMAIN yaml.users THEN yaml.users[k] ELSE {})
  BY WiredFacts DEF Load
<1> QED BY <1>1, <1>2, <1>3, LoadFacts DEF IsPools, IsTable

-----------------------------------------------------------------------------
(* The login flows: the registry, its lock, the flows and the finishes.    *)

\* A flow that has been asked for keeps its name and its key when it moves on.
LEMMA FlowMoves ==
  ASSUME LoginTyped, NEW f \in Flows, flow[f].at \notin {"new", "failed"},
         NEW place \in Places \ {"new"}, flow' = FlowTo(f, place)
  PROVE  /\ flow' \in [Flows -> FlowType]
         /\ flow'[f].at = place /\ flow'[f].name = flow[f].name
         /\ flow'[f].key = flow[f].key
         /\ \A e \in Flows \ {f} : flow'[e] = flow[e]
<1>1. flow[f] \in [at : Places \ {"new"}, name : Names, key : Choices]
  BY DEF LoginTyped, FlowType
<1>2. flow' = [flow EXCEPT ![f].at = place]
  BY DEF FlowTo
<1>3. flow'[f] = [flow[f] EXCEPT !.at = place]
  BY <1>2 DEF LoginTyped
<1>4. [flow[f] EXCEPT !.at = place] \in [at : Places \ {"new"}, name : Names, key : Choices]
  BY <1>1
<1>5. flow'[f] \in FlowType
  BY <1>3, <1>4 DEF FlowType
<1>6. \A e \in Flows \ {f} : flow'[e] = flow[e]
  BY <1>2 DEF LoginTyped
<1>7. flow' \in [Flows -> FlowType]
  BY <1>2, <1>5, <1>6 DEF LoginTyped
<1>8. flow'[f].at = place /\ flow'[f].name = flow[f].name /\ flow'[f].key = flow[f].key
  BY <1>1, <1>3
<1> QED BY <1>6, <1>7, <1>8

\* The place of a finish: what it has read and popped stays.
LEMMA FinMoves ==
  ASSUME LoginTyped, NEW g \in Finishes, NEW place \in {"over", "spawn", "starting"},
         fin' = [fin EXCEPT ![g].at = place],
         \/ fin[g].at = "waiting" /\ place = "over"
         \/ fin[g].at \in {"exchange", "spawn", "starting"}
  PROVE  /\ fin' \in [Finishes -> FinType]
         /\ fin'[g].at = place
         /\ \A h \in Finishes \ {g} : fin'[h] = fin[h]
<1>1. fin'[g] = [fin[g] EXCEPT !.at = place] /\ \A h \in Finishes \ {g} : fin'[h] = fin[h]
  BY DEF LoginTyped
<1>2. \/ fin[g] \in [at : {"waiting", "over"}, name : Names, code : Flows, key : Choices]
           /\ place = "over"
      \/ fin[g] \in [at : {"exchange", "spawn", "starting", "over"}, flow : Flows,
                     name : Names, code : Flows, key : Choices]
  BY DEF LoginTyped, FinType
<1>3. fin'[g] \in FinType /\ fin'[g].at = place
  <2>1. CASE /\ fin[g] \in [at : {"waiting", "over"}, name : Names, code : Flows,
                            key : Choices]
             /\ place = "over"
    <3>1. [fin[g] EXCEPT !.at = place] \in
            [at : {"waiting", "over"}, name : Names, code : Flows, key : Choices]
          /\ [fin[g] EXCEPT !.at = place].at = place
      BY <2>1
    <3> QED BY <1>1, <3>1 DEF FinType
  <2>2. CASE fin[g] \in [at : {"exchange", "spawn", "starting", "over"}, flow : Flows,
                         name : Names, code : Flows, key : Choices]
    <3>1. [fin[g] EXCEPT !.at = place] \in
            [at : {"exchange", "spawn", "starting", "over"}, flow : Flows,
             name : Names, code : Flows, key : Choices]
          /\ [fin[g] EXCEPT !.at = place].at = place
      BY <2>2
    <3> QED BY <1>1, <3>1 DEF FinType
  <2> QED BY <1>2, <2>1, <2>2
<1>4. fin' \in [Finishes -> FinType]
  BY <1>1, <1>3 DEF LoginTyped
<1> QED BY <1>1, <1>3, <1>4

\* What a finish knows of the flow it brings the code of, and of the one it has.
LEMMA FinFields ==
  ASSUME LoginTyped, NEW g \in Finishes
  PROVE  /\ fin[g].at \in {"waiting", "exchange", "spawn", "starting"} =>
              fin[g].name \in Names /\ fin[g].code \in Flows /\ fin[g].key \in Choices
         /\ fin[g].at \in {"exchange", "spawn", "starting"} => fin[g].flow \in Flows
BY DEF LoginTyped, FinType

\* A flow past its begin has a name and a key.
LEMMA FlowFields ==
  ASSUME LoginTyped, NEW f \in Flows, flow[f].at \notin {"new", "failed"}
  PROVE  flow[f].name \in Names /\ flow[f].key \in Choices
BY DEF LoginTyped, FlowType

\* begin_account_login asks for a flow; nothing else moves.
LEMMA BeginStep ==
  ASSUME LoginInv, IsPools(users), NEW f \in Flows, NEW n \in Names,
         NEW k \in Choices, Begin(f, n, k)
  PROVE  LoginInv'
<1>1. flow[f].at = "new" /\ flow' = [flow EXCEPT ![f] = [at |-> "asked", name |-> n, key |-> k]]
      /\ UNCHANGED <<registry, rlock, fin>>
  BY DEF Begin
<1>2. [at |-> "asked", name |-> n, key |-> k] \in FlowType
  BY DEF FlowType, Places
<1>3. flow'[f] = [at |-> "asked", name |-> n, key |-> k]
      /\ (\A e \in Flows \ {f} : flow'[e] = flow[e])
  BY <1>1 DEF LoginInv, LoginTyped
<1>4. LoginTyped'
  BY <1>1, <1>2 DEF LoginInv, LoginTyped
<1>5. FlowsLinked'
  BY <1>1, <1>3 DEF LoginInv, LoginTyped, FlowsLinked
<1>6. PoolRead'
  BY <1>1, <1>3, FinFields DEF LoginInv, PoolRead
<1> QED BY <1>4, <1>5, <1>6 DEF LoginInv

\* LoginRegistry.begin takes the lock for a name that has no flow.
LEMMA SpawnStep ==
  ASSUME LoginInv, NEW f \in Flows, Spawn(f)
  PROVE  LoginInv'
<1>1. flow[f].at = "asked" /\ rlock = Nil /\ UNCHANGED <<registry, fin>>
  BY DEF Spawn
<1>2. PICK place \in {"spawning", "failed"} :
        /\ flow' = FlowTo(f, place)
        /\ IF place = "spawning" THEN registry[flow[f].name] = Nil /\ rlock' = f
                                 ELSE rlock' = rlock
  BY DEF Spawn
<1>3. /\ flow' \in [Flows -> FlowType]
      /\ flow'[f].at = place /\ flow'[f].name = flow[f].name /\ flow'[f].key = flow[f].key
      /\ \A e \in Flows \ {f} : flow'[e] = flow[e]
  BY <1>1, <1>2, FlowMoves DEF LoginInv, Places
<1>4. LoginTyped'
  BY <1>1, <1>2, <1>3 DEF LoginInv, LoginTyped
<1>5. FlowsLinked'
  BY <1>1, <1>2, <1>3, KeyFacts DEF LoginInv, LoginTyped, FlowsLinked
<1>6. PoolRead'
  BY <1>1, <1>3, FinFields DEF LoginInv, PoolRead
<1> QED BY <1>4, <1>5, <1>6 DEF LoginInv

\* The CLI is up and the flow open, or neither.
LEMMA SpawnedStep ==
  ASSUME LoginInv, NEW f \in Flows, Spawned(f)
  PROVE  LoginInv'
<1>1. flow[f].at = "spawning" /\ rlock' = Nil /\ fin' = fin
  BY DEF Spawned
<1>2. PICK place \in {"open", "failed"} :
        /\ flow' = FlowTo(f, place)
        /\ registry' = IF place = "open" THEN [registry EXCEPT ![flow[f].name] = f]
                                         ELSE registry
  BY DEF Spawned
<1>3. /\ flow' \in [Flows -> FlowType]
      /\ flow'[f].at = place /\ flow'[f].name = flow[f].name /\ flow'[f].key = flow[f].key
      /\ \A e \in Flows \ {f} : flow'[e] = flow[e]
  BY <1>1, <1>2, FlowMoves DEF LoginInv, Places
<1>4. flow[f].name \in Names /\ registry[flow[f].name] = Nil /\ rlock = f
      /\ \A e \in Flows \ {f} : flow[e].at # "spawning"
  BY <1>1, FlowFields DEF LoginInv, FlowsLinked
<1>5. LoginTyped'
  BY <1>1, <1>2, <1>3 DEF LoginInv, LoginTyped
<1>6. FlowsLinked'
  <2>1. CASE place = "open"
    <3>1. registry'[flow[f].name] = f
          /\ \A n \in Names \ {flow[f].name} : registry'[n] = registry[n]
      BY <2>1, <1>2, <1>4 DEF LoginInv, LoginTyped
    <3>2. ASSUME NEW n \in Names, registry'[n] # Nil
          PROVE  flow'[registry'[n]].at = "open" /\ flow'[registry'[n]].name = n
      BY <2>1, <3>1, <3>2, <1>1, <1>3, KeyFacts DEF LoginInv, LoginTyped, FlowsLinked
    <3>3. ASSUME NEW e \in Flows
          PROVE  /\ e = rlock' <=> flow'[e].at = "spawning"
                 /\ flow'[e].at = "open" => registry'[flow'[e].name] = e
                 /\ flow'[e].at = "spawning" => registry'[flow'[e].name] = Nil
      <4>1. CASE e = f
        BY <4>1, <2>1, <3>1, <1>1, <1>3, KeyFacts
      <4>2. CASE e # f
        <5>1. flow'[e] = flow[e] /\ flow[e].at # "spawning" /\ e # Nil
          BY <4>2, <1>3, <1>4, KeyFacts
        <5>2. flow[e].at = "open" => flow[e].name \in Names /\ flow[e].name # flow[f].name
          BY <4>2, <1>4, KeyFacts, FlowFields DEF LoginInv, FlowsLinked
        <5> QED BY <5>1, <5>2, <3>1, <1>1 DEF LoginInv, FlowsLinked
      <4> QED BY <4>1, <4>2
    <3> QED BY <3>2, <3>3 DEF FlowsLinked
  <2>2. CASE place = "failed"
    <3>1. registry' = registry
      BY <2>2, <1>2
    <3> QED BY <2>2, <3>1, <1>1, <1>3, <1>4, KeyFacts DEF LoginInv, LoginTyped, FlowsLinked
  <2> QED BY <2>1, <2>2
<1>7. PoolRead'
  BY <1>1, <1>3, FinFields DEF LoginInv, PoolRead
<1> QED BY <1>5, <1>6, <1>7 DEF LoginInv

\* A flow leaves the registry: it is aborted, swept, or popped by a finish.
LEMMA LeavesRegistry ==
  ASSUME LoginInv, NEW n \in Names, registry[n] # Nil, NEW place \in {"over", "popped"},
         registry' = [registry EXCEPT ![n] = Nil], flow' = FlowTo(registry[n], place),
         rlock' = rlock
  PROVE  /\ registry' \in [Names -> Flows \cup {Nil}] /\ FlowsLinked'
         /\ flow' \in [Flows -> FlowType]
         /\ flow'[registry[n]].at = place /\ flow'[registry[n]].name = n
         /\ flow'[registry[n]].key = flow[registry[n]].key
         /\ \A e \in Flows \ {registry[n]} : flow'[e] = flow[e]
<1> DEFINE f == registry[n]
<1>1. f \in Flows /\ flow[f].at = "open" /\ flow[f].name = n
  BY DEF LoginInv, LoginTyped, FlowsLinked
<1> HIDE DEF f
<1>2. /\ flow' \in [Flows -> FlowType]
      /\ flow'[f].at = place /\ flow'[f].name = flow[f].name /\ flow'[f].key = flow[f].key
      /\ \A e \in Flows \ {f} : flow'[e] = flow[e]
  BY <1>1, FlowMoves DEF LoginInv, Places, f
<1>3. registry'[n] = Nil /\ \A m \in Names \ {n} : registry'[m] = registry[m]
  BY DEF LoginInv, LoginTyped
<1>4. ASSUME NEW m \in Names, registry'[m] # Nil
      PROVE  flow'[registry'[m]].at = "open" /\ flow'[registry'[m]].name = m
  <2>1. m # n /\ registry'[m] = registry[m] /\ registry[m] \in Flows
        /\ flow[registry[m]].name = m /\ flow[registry[m]].at = "open"
    BY <1>3, <1>4 DEF LoginInv, LoginTyped, FlowsLinked
  <2> QED BY <2>1, <1>1, <1>2
<1>5. ASSUME NEW e \in Flows
      PROVE  /\ e = rlock' <=> flow'[e].at = "spawning"
             /\ flow'[e].at = "open" => registry'[flow'[e].name] = e
             /\ flow'[e].at = "spawning" => registry'[flow'[e].name] = Nil
  <2>1. CASE e = f
    BY <2>1, <1>1, <1>2 DEF LoginInv, FlowsLinked
  <2>2. CASE e # f
    <3>1. flow'[e] = flow[e]
      BY <2>2, <1>2
    <3>2. flow[e].at = "open" => flow[e].name # n /\ flow[e].name \in Names
      BY <2>2, FlowFields DEF LoginInv, FlowsLinked, f
    <3>3. flow[e].at = "spawning" => flow[e].name \in Names
      BY FlowFields DEF LoginInv
    <3> QED BY <3>1, <3>2, <3>3, <1>3 DEF LoginInv, FlowsLinked
  <2> QED BY <2>1, <2>2
<1>6. registry' \in [Names -> Flows \cup {Nil}]
  BY DEF LoginInv, LoginTyped
<1> QED BY <1>1, <1>2, <1>4, <1>5, <1>6 DEF FlowsLinked, f

\* abort and the sweeper
LEMMA DropStep ==
  ASSUME LoginInv, NEW n \in Names, Drop(n)
  PROVE  LoginInv'
<1>1. registry[n] # Nil /\ registry' = [registry EXCEPT ![n] = Nil]
      /\ flow' = FlowTo(registry[n], "over") /\ UNCHANGED <<rlock, fin>>
  BY DEF Drop
<1>2. /\ registry' \in [Names -> Flows \cup {Nil}] /\ FlowsLinked'
      /\ flow' \in [Flows -> FlowType]
      /\ flow'[registry[n]].at = "over" /\ flow'[registry[n]].key = flow[registry[n]].key
      /\ \A e \in Flows \ {registry[n]} : flow'[e] = flow[e]
  BY <1>1, LeavesRegistry
<1>3. PoolRead'
  BY <1>1, <1>2, FinFields DEF LoginInv, PoolRead
<1> QED BY <1>1, <1>2, <1>3 DEF LoginInv, LoginTyped

\* A finish that waits has read the pool of the flow that is open now: the only
\* one it can pop, if that is the one it brings the code of.
LEMMA FinishAskStep ==
  ASSUME LoginInv, NEW g \in Finishes, NEW n \in Names, NEW code \in Flows,
         FinishAsk(g, n, code)
  PROVE  LoginInv'
<1>1. PICK k : k = IF registry[n] = Nil THEN Unset ELSE flow[registry[n]].key
  OBVIOUS
<1>2. /\ fin[g].at = "new" /\ flow[code].at \in {"open", "popped", "over"}
      /\ flow[code].name = n
      /\ fin' = [fin EXCEPT ![g] = [at |-> "waiting", name |-> n, code |-> code, key |-> k]]
      /\ UNCHANGED <<registry, rlock, flow>>
  BY <1>1 DEF FinishAsk
<1>3. k \in Choices
  BY <1>1, FlowFields DEF LoginInv, LoginTyped, FlowsLinked, Choices
<1>4. [at |-> "waiting", name |-> n, code |-> code, key |-> k] \in FinType
  BY <1>3 DEF FinType
<1>5. LoginTyped'
  BY <1>2, <1>4 DEF LoginInv, LoginTyped
<1>6. fin'[g] = [at |-> "waiting", name |-> n, code |-> code, key |-> k]
      /\ \A h \in Finishes \ {g} : fin'[h] = fin[h]
  BY <1>2 DEF LoginInv, LoginTyped
<1>7. flow[code].at = "open" => k = flow[code].key
  BY <1>1, <1>2, KeyFacts DEF LoginInv, FlowsLinked
<1>8. PoolRead'
  BY <1>2, <1>6, <1>7 DEF LoginInv, PoolRead
<1>9. FlowsLinked'
  BY <1>2 DEF LoginInv, FlowsLinked
<1> QED BY <1>5, <1>8, <1>9 DEF LoginInv

\* The flow that is popped is the one whose pool was read, or the code is of
\* another.
LEMMA FinishPopStep ==
  ASSUME LoginInv, NEW g \in Finishes, FinishPop(g)
  PROVE  LoginInv'
<1>1. fin[g].at = "waiting" /\ rlock' = rlock
  BY DEF FinishPop
<1>2. PICK n \in Names : n = fin[g].name
  BY <1>1, FinFields DEF LoginInv
<1>3. CASE registry[n] = Nil
  <2>1. fin' = [fin EXCEPT ![g].at = "over"] /\ UNCHANGED <<registry, flow>>
    BY <1>2, <1>3 DEF FinishPop
  <2>2. /\ fin' \in [Finishes -> FinType] /\ fin'[g].at = "over"
        /\ \A h \in Finishes \ {g} : fin'[h] = fin[h]
    BY <1>1, <2>1, FinMoves DEF LoginInv
  <2> QED BY <1>1, <2>1, <2>2 DEF LoginInv, LoginTyped, FlowsLinked, PoolRead
<1>4. CASE registry[n] # Nil
  <2>1. PICK f \in Flows : f = registry[n]
    BY <1>4 DEF LoginInv, LoginTyped
  <2>2. /\ fin' = [fin EXCEPT ![g] = Popped(g, f)]
        /\ registry' = [registry EXCEPT ![n] = Nil] /\ flow' = FlowTo(f, "popped")
    BY <1>2, <1>4, <2>1 DEF FinishPop
  <2>3. /\ registry' \in [Names -> Flows \cup {Nil}] /\ FlowsLinked'
        /\ flow' \in [Flows -> FlowType]
        /\ flow'[f].at = "popped" /\ flow'[f].key = flow[f].key
        /\ \A e \in Flows \ {f} : flow'[e] = flow[e]
    BY <1>1, <1>4, <2>1, <2>2, LeavesRegistry
  <2>4. Popped(g, f) \in FinType
    BY <1>1, FinFields DEF LoginInv, Popped, FinType
  <2>5. fin'[g] = Popped(g, f) /\ (\A h \in Finishes \ {g} : fin'[h] = fin[h])
    BY <2>2 DEF LoginInv, LoginTyped
  <2>6. LoginTyped'
    BY <1>1, <2>2, <2>3, <2>4 DEF LoginInv, LoginTyped
  <2>7. flow[f].at = "open"
    BY <1>4, <2>1 DEF LoginInv, FlowsLinked
  <2>8. ASSUME NEW h \in Finishes
        PROVE  LET c == fin[h].code' IN
               /\ fin'[h].at = "waiting" =>
                    /\ flow'[c].at \in {"open", "popped", "over", "used"}
                    /\ flow'[c].at = "open" => fin'[h].key = flow'[c].key
               /\ fin'[h].at = "exchange" =>
                    /\ flow'[fin'[h].flow].at \in {"popped", "over", "used"}
                    /\ c = fin'[h].flow => fin'[h].key = flow'[c].key
    <3>1. CASE h = g
      <4>1. fin'[h].at = "exchange" /\ fin'[h].flow = f /\ fin'[h].code = fin[g].code
            /\ fin'[h].key = fin[g].key
        BY <3>1, <2>5 DEF Popped
      <4>2. fin[g].code = f => fin[g].key = flow[f].key
        BY <1>1, <2>7 DEF LoginInv, PoolRead
      <4> QED BY <4>1, <4>2, <2>3
    <3>2. CASE h # g
      BY <3>2, <2>3, <2>5, FinFields DEF LoginInv, PoolRead
    <3> QED BY <3>1, <3>2
  <2>9. PoolRead'
    BY <2>8 DEF PoolRead
  <2> QED BY <2>3, <2>6, <2>9 DEF LoginInv
<1> QED BY <1>3, <1>4

\* A finish that has its flow and ends with it, one way or the other.
LEMMA ExchangeStep ==
  ASSUME LoginInv, NEW g \in Finishes, fin[g].at = "exchange",
         NEW place \in {"over", "used"}, NEW next \in {"over", "spawn"},
         flow' = FlowTo(fin[g].flow, place), fin' = [fin EXCEPT ![g].at = next],
         UNCHANGED <<registry, rlock>>
  PROVE  LoginInv'
<1>1. PICK f \in Flows : f = fin[g].flow
  BY FinFields DEF LoginInv
<1>2. flow[f].at \in {"popped", "over", "used"}
  BY <1>1 DEF LoginInv, PoolRead
<1>3. /\ flow' \in [Flows -> FlowType]
      /\ flow'[f].at = place /\ flow'[f].name = flow[f].name /\ flow'[f].key = flow[f].key
      /\ \A e \in Flows \ {f} : flow'[e] = flow[e]
  BY <1>1, <1>2, FlowMoves DEF LoginInv, Places
<1>4. /\ fin' \in [Finishes -> FinType] /\ fin'[g].at = next
      /\ \A h \in Finishes \ {g} : fin'[h] = fin[h]
  BY FinMoves DEF LoginInv
<1>5. LoginTyped'
  BY <1>3, <1>4 DEF LoginInv, LoginTyped
<1>6. FlowsLinked'
  <2>1. \A n \in Names : registry[n] # f
    BY <1>2, KeyFacts DEF LoginInv, FlowsLinked
  <2> QED BY <1>2, <1>3, <2>1 DEF LoginInv, LoginTyped, FlowsLinked
<1>7. PoolRead'
  BY <1>2, <1>3, <1>4, FinFields DEF LoginInv, PoolRead
<1> QED BY <1>5, <1>6, <1>7 DEF LoginInv

\* spawn_account and the end of the request
LEMMA FinishSpawnStep ==
  ASSUME LoginInv, NEW g \in Finishes, FinishSpawn(g)
  PROVE  LoginInv'
<1>1. PICK place \in {"starting", "over"} : fin' = [fin EXCEPT ![g].at = place]
  BY DEF FinishSpawn
<1>2. fin[g].at \in {"spawn", "starting"} /\ UNCHANGED <<registry, rlock, flow>>
  BY DEF FinishSpawn
<1>3. /\ fin' \in [Finishes -> FinType] /\ fin'[g].at = place
      /\ \A h \in Finishes \ {g} : fin'[h] = fin[h]
  BY <1>1, <1>2, FinMoves DEF LoginInv
<1> QED BY <1>2, <1>3 DEF LoginInv, LoginTyped, FlowsLinked, PoolRead

\* A restart forgets every flow and every finish.
LEMMA LoginRestartStep ==
  ASSUME LoginInv, Restart
  PROVE  LoginInv'
<1>1. /\ registry' = [n \in Names |-> Nil] /\ rlock' = Nil
      /\ flow' = [f \in Flows |-> IF flow[f].at = "new" THEN flow[f]
                                  ELSE [at |-> "failed"]]
      /\ fin' = [g \in Finishes |-> IF fin[g].at = "new" THEN fin[g]
                                    ELSE [at |-> "over"]]
  BY DEF Restart
<1>2. LoginTyped'
  <2>1. [at |-> "failed"] \in FlowType /\ [at |-> "over"] \in FinType
    BY DEF FlowType, FinType
  <2>2. flow' \in [Flows -> FlowType]
    BY <1>1, <2>1 DEF LoginInv, LoginTyped
  <2>3. fin' \in [Finishes -> FinType]
    BY <1>1, <2>1 DEF LoginInv, LoginTyped
  <2> QED BY <1>1, <2>2, <2>3 DEF LoginTyped
<1>3. \A f \in Flows : flow'[f].at \in {"new", "failed"}
  BY <1>1
<1>4. \A g \in Finishes : fin'[g].at \in {"new", "over"}
  BY <1>1
<1>5. FlowsLinked'
  BY <1>1, <1>3, KeyFacts DEF FlowsLinked
<1>6. PoolRead'
  BY <1>4 DEF PoolRead
<1> QED BY <1>2, <1>5, <1>6 DEF LoginInv

\* The registry, the flows and the finishes stay in order, whatever else happens.
LEMMA LoginStep ==
  ASSUME LoginInv, IsPools(users), [Next]_vars
  PROVE  LoginInv'
<1>1. CASE UNCHANGED login
  BY <1>1 DEF LoginInv, LoginTyped, FlowsLinked, PoolRead, login
<1>2. ASSUME NEW n \in Names, Login(n) PROVE LoginInv'
  BY <1>2, BeginStep, DropStep, FinishAskStep DEF Login, Choices
<1>3. ASSUME NEW g \in Finishes, FinishFails(g) PROVE LoginInv'
  BY <1>3, ExchangeStep DEF FinishFails
<1>4. ASSUME NEW g \in Finishes, FinishInstall(g) PROVE LoginInv'
  <2>1. /\ fin[g].at = "exchange" /\ flow' = FlowTo(fin[g].flow, "used")
        /\ UNCHANGED <<registry, rlock>>
    BY <1>4 DEF FinishInstall, Installs
  <2>2. PICK next \in {"over", "spawn"} : fin' = [fin EXCEPT ![g].at = next]
    BY <1>4 DEF FinishInstall
  <2> QED BY <2>1, <2>2, ExchangeStep
<1>5. ASSUME NEW n \in Names, DeleteAsk(n) \/ DeleteEnd(n) \/ Route(n)
      PROVE  UNCHANGED login
  BY <1>5 DEF DeleteAsk, DeleteEnd, Route, login
<1>6. ASSUME ReloadBegin \/ ReloadDiff \/ ReloadSpawn \/ ReloadAdded \/ ReloadRemoved
               \/ ReloadPop \/ ReloadPrewarm
      PROVE  UNCHANGED login
  BY <1>6 DEF ReloadBegin, ReloadDiff, ReloadSpawn, ReloadAdded, ReloadRemoved,
     ReloadPop, ReloadPrewarm, aside, login
<1>7. ASSUME NEW y \in Yamls, EditYaml(y) PROVE UNCHANGED login
  BY <1>7 DEF EditYaml, login
<1>8. CASE UNCHANGED vars
  BY <1>1, <1>8 DEF vars, login
<1> QED BY <1>1, <1>2, <1>3, <1>4, <1>5, <1>6, <1>7, <1>8, SpawnStep, SpawnedStep,
      FinishPopStep, FinishSpawnStep, LoginRestartStep DEF Next

-----------------------------------------------------------------------------
(* The files, the live configuration and the reload.                       *)

\* A reload goes on: what it installs and what is left to do is about accounts.
LEMMA ContinueTyped ==
  ASSUME LiveInv, Installing, NEW acc, NEW add, NEW remove, IsTable(acc),
         add \subseteq Names, remove \subseteq Names,
         Continue(acc, add, remove)
  PROVE  IsTable(accounts)' /\ IsPools(users)' /\ ReloadTyped'
<1>0. IsTable(reload.new.accounts) /\ IsPools(reload.new.users)
  BY DEF LiveInv, ReloadTyped
<1>1. ASSUME NEW n \in add,
             accounts' = Put(acc, n, reload.new.accounts[n]), users' = users,
             reload' = [at |-> "adding", new |-> reload.new, name |-> n,
                        add |-> add \ {n}, remove |-> remove]
      PROVE  IsTable(accounts)' /\ IsPools(users)' /\ ReloadTyped'
  <2>1. IsTable(accounts')
    <3>1. IsTable(Put(acc, n, reload.new.accounts[n]))
      BY <1>1, PutTable
    <3> QED BY <3>1, <1>1
  <2>2. /\ reload'.at = "adding" /\ reload'.new = reload.new /\ reload'.name = n
        /\ reload'.add = add \ {n} /\ reload'.remove = remove
    BY <1>1
  <2>3. ReloadShape'
    BY <1>1, <2>2 DEF ReloadShape
  <2> QED BY <2>1, <2>2, <2>3, <1>0, <1>1 DEF LiveInv, IsTable, IsPools, ReloadTyped,
          Installing
<1>2. ASSUME NEW n \in remove, accounts' = acc, users' = users,
             reload' = [at |-> "removing", new |-> reload.new, name |-> n,
                        found |-> n \in sessions, add |-> {}, remove |-> remove \ {n}]
      PROVE  IsTable(accounts)' /\ IsPools(users)' /\ ReloadTyped'
  <2>1. /\ reload'.at = "removing" /\ reload'.new = reload.new /\ reload'.name = n
        /\ reload'.add = {} /\ reload'.remove = remove \ {n}
        /\ reload'.found = (n \in sessions)
    BY <1>2
  <2>2. ReloadShape'
    BY <1>2, <2>1 DEF ReloadShape
  <2> QED BY <2>1, <2>2, <1>0, <1>2 DEF LiveInv, IsTable, IsPools, ReloadTyped,
          Installing
<1>3. ASSUME accounts' = acc, users' = reload.new.users,
             reload' = [at |-> "swapped", gone |-> Listed(users) \ Listed(users'),
                        add |-> Listed(users') \ Listed(users)]
      PROVE  IsTable(accounts)' /\ IsPools(users)' /\ ReloadTyped'
  <2>1. /\ reload'.at = "swapped" /\ reload'.gone = Listed(users) \ Listed(users')
        /\ reload'.add = Listed(users') \ Listed(users)
    BY <1>3
  <2>2. ReloadShape'
    BY <1>3, <2>1 DEF ReloadShape
  <2>3. Listed(users') \subseteq Names
    BY <1>0, <1>3 DEF Listed, IsPools
  <2> QED BY <2>1, <2>2, <2>3, <1>0, <1>3 DEF IsTable, IsPools, ReloadTyped, Installing
<1> QED BY <1>1, <1>2, <1>3 DEF Continue

\* The steps of a reload.
LEMMA ReloadSteps ==
  ASSUME LiveInv,
         ReloadBegin \/ ReloadDiff \/ ReloadSpawn \/ ReloadAdded \/ ReloadRemoved
           \/ ReloadPop \/ ReloadPrewarm
  PROVE  LiveInv'
<1>0. UNCHANGED aside
  BY DEF ReloadBegin, ReloadDiff, ReloadSpawn, ReloadAdded, ReloadRemoved, ReloadPop,
     ReloadPrewarm
<1>1. SUFFICES IsTable(accounts)' /\ IsPools(users)' /\ sessions' \subseteq Names
               /\ ReloadTyped'
  BY <1>0 DEF LiveInv, IsTable, aside, disk
<1>2. CASE ReloadBegin
  <2>1. reload' = [at |-> "oauth", new |-> Load] /\ UNCHANGED <<live, sessions>>
    BY <1>2 DEF ReloadBegin
  <2>2. reload'.at = "oauth" /\ reload'.new = Load
    BY <2>1
  <2>3. IsTable(reload'.new.accounts) /\ IsPools(reload'.new.users)
    BY <2>2, LoadTyped DEF LiveInv
  <2>4. ReloadShape'
    BY <2>1, <2>2 DEF ReloadShape
  <2> QED BY <2>1, <2>2, <2>3, <2>4 DEF LiveInv, IsTable, IsPools, ReloadTyped,
          Installing, live
<1>3. CASE ReloadDiff
  <2>1. Installing /\ sessions' = sessions
    BY <1>3 DEF ReloadDiff, Installing
  <2>2. DOMAIN reload.new.accounts \ DOMAIN accounts \subseteq Names
        /\ DOMAIN accounts \ DOMAIN reload.new.accounts \subseteq Names
    BY <2>1 DEF LiveInv, ReloadTyped, IsTable
  <2>3. IsTable(accounts)' /\ IsPools(users)' /\ ReloadTyped'
    BY <1>3, <2>1, <2>2, ContinueTyped DEF ReloadDiff, LiveInv
  <2> QED BY <2>1, <2>3 DEF LiveInv
<1>4. CASE ReloadSpawn
  <2>1. reload.at = "adding" /\ reload' = [reload EXCEPT !.at = "starting"]
        /\ sessions' = sessions \cup {reload.name} /\ UNCHANGED live
    BY <1>4 DEF ReloadSpawn
  <2>2. reload = [at |-> reload.at, new |-> reload.new, name |-> reload.name,
                  add |-> reload.add, remove |-> reload.remove]
    BY <2>1 DEF LiveInv, ReloadTyped, ReloadShape, NoReload
  <2>3. reload' = [at |-> "starting", new |-> reload.new, name |-> reload.name,
                   add |-> reload.add, remove |-> reload.remove]
    BY <2>1, <2>2
  <2>4. /\ reload'.at = "starting" /\ reload'.new = reload.new /\ reload'.name = reload.name
        /\ reload'.add = reload.add /\ reload'.remove = reload.remove
    BY <2>3
  <2>5. ReloadShape'
    BY <2>3, <2>4 DEF ReloadShape
  <2> QED BY <2>1, <2>4, <2>5 DEF LiveInv, IsTable, IsPools, ReloadTyped, Installing, live
<1>5. CASE ReloadAdded
  <2>1. Installing /\ reload.at = "starting"
        /\ sessions' \in {sessions, sessions \ {reload.name}}
        /\ Continue(accounts, reload.add, reload.remove)
    BY <1>5 DEF ReloadAdded, Installing
  <2>2. reload.add \subseteq Names /\ reload.remove \subseteq Names
    BY <2>1 DEF LiveInv, ReloadTyped
  <2>3. IsTable(accounts)' /\ IsPools(users)' /\ ReloadTyped'
    BY <2>1, <2>2, ContinueTyped DEF LiveInv
  <2> QED BY <2>1, <2>3 DEF LiveInv
<1>6. CASE ReloadRemoved
  <2>1. PICK acc : acc = [m \in DOMAIN accounts \ {reload.name} |-> accounts[m]]
    OBVIOUS
  <2>2. Installing /\ reload.at = "removing"
        /\ sessions' = Stopped(reload.name, reload.found)
        /\ Continue(acc, reload.add, reload.remove)
    BY <1>6, <2>1 DEF ReloadRemoved, Installing
  <2>3. reload.add \subseteq Names /\ reload.remove \subseteq Names
    BY <2>2 DEF LiveInv, ReloadTyped
  <2>4. IsTable(acc)
    BY <2>1 DEF LiveInv, IsTable
  <2>5. IsTable(accounts)' /\ IsPools(users)' /\ ReloadTyped'
    BY <2>2, <2>3, <2>4, ContinueTyped
  <2>6. sessions' \subseteq Names
    BY <2>2 DEF LiveInv, Stopped
  <2> QED BY <2>5, <2>6
<1>7. CASE ReloadPop
  <2>1. reload.at = "swapped" /\ sessions' = sessions \ reload.gone
        /\ reload' = [at |-> "prewarm", add |-> reload.add] /\ UNCHANGED live
    BY <1>7 DEF ReloadPop
  <2>2. reload'.at = "prewarm" /\ reload'.add = reload.add
    BY <2>1
  <2>3. ReloadShape'
    BY <2>1, <2>2 DEF ReloadShape
  <2> QED BY <2>1, <2>2, <2>3 DEF LiveInv, IsTable, IsPools, ReloadTyped, Installing, live
<1>8. CASE ReloadPrewarm
  <2>1. reload.at = "prewarm" /\ UNCHANGED live
    BY <1>8 DEF ReloadPrewarm
  <2>2. reload = [at |-> reload.at, add |-> reload.add] /\ reload.add \subseteq Names
    BY <2>1 DEF LiveInv, ReloadTyped, ReloadShape, NoReload
  <2>3. ASSUME NEW n \in reload.add, sessions' \in {sessions, sessions \cup {n}},
               reload' = [reload EXCEPT !.add = @ \ {n}]
        PROVE  sessions' \subseteq Names /\ ReloadTyped'
    <3>1. reload' = [at |-> "prewarm", add |-> reload.add \ {n}]
      BY <2>1, <2>2, <2>3
    <3>2. reload'.at = "prewarm" /\ reload'.add = reload.add \ {n}
      BY <3>1
    <3>3. ReloadShape'
      BY <3>1, <3>2 DEF ReloadShape
    <3> QED BY <2>2, <2>3, <3>2, <3>3 DEF LiveInv, ReloadTyped, Installing
  <2>4. ASSUME reload' = NoReload, sessions' = sessions
        PROVE  sessions' \subseteq Names /\ ReloadTyped'
    BY <2>4 DEF LiveInv, ReloadTyped, ReloadShape, Installing, NoReload
  <2>5. sessions' \subseteq Names /\ ReloadTyped'
    BY <1>8, <2>3, <2>4 DEF ReloadPrewarm
  <2> QED BY <2>1, <2>5 DEF LiveInv, IsTable, IsPools, live
<1> QED BY <1>2, <1>3, <1>4, <1>5, <1>6, <1>7, <1>8

\* A reload that stands still stays as it is.
LEMMA ReloadStill ==
  ASSUME LiveInv, reload' = reload
  PROVE  ReloadTyped'
BY DEF LiveInv, ReloadTyped, ReloadShape, Installing, IsTable, IsPools

\* The pool a finish enters its account in is one there is, or none at all.
LEMMA InstalledInPool ==
  ASSUME LiveInv, NEW n \in Names, NEW tag, tag \in DOMAIN users \cup {Nil},
         users' = IF tag = Nil THEN users ELSE [users EXCEPT ![tag] = @ \cup {n}]
  PROVE  /\ DOMAIN users' = DOMAIN users /\ IsPools(users)'
         /\ \A k \in DOMAIN users : users[k] \subseteq users'[k]
                                    /\ users'[k] \subseteq users[k] \cup {n}
         /\ tag # Nil => tag \in DOMAIN users' /\ n \in users'[tag]
<1>1. CASE tag = Nil
  BY <1>1 DEF LiveInv, IsPools
<1>2. CASE tag # Nil
  <2>1. users' = [users EXCEPT ![tag] = @ \cup {n}] /\ tag \in DOMAIN users
    BY <1>2
  <2>2. DOMAIN users' = DOMAIN users /\ users'[tag] = users[tag] \cup {n}
        /\ \A k \in DOMAIN users \ {tag} : users'[k] = users[k]
    BY <2>1
  <2> QED BY <2>1, <2>2 DEF LiveInv, IsPools
<1> QED BY <1>1, <1>2

\* What a finish that goes through leaves: its account in the table, in its pool
\* and in the overlay, if that could be written.
LEMMA InstallFacts ==
  ASSUME LoginInv, LiveInv, NEW g \in Finishes, FinishInstall(g)
  PROVE  \E n \in Names, f \in Flows : \E tag :
           /\ n = fin[g].name /\ tag = Effective(fin[g].key)
           /\ f = fin[g].flow /\ f = fin[g].code
           /\ cred' = [cred EXCEPT ![n] = f]
           /\ \/ UNCHANGED <<overlay, live, kept, raced>>
              \/ /\ tag \in DOMAIN users \cup {Nil}
                 /\ accounts' = Put(accounts, n, tag)
                 /\ users' = IF tag = Nil THEN users
                             ELSE [users EXCEPT ![tag] = @ \cup {n}]
                 /\ WriteOverlay /\ Keeps(n)
                 /\ raced' = (raced \/ Busy)
           /\ UNCHANGED <<yaml, sessions, watched, up, stopping, reload>>
<1>1. fin[g].name \in Names /\ fin[g].flow \in Flows /\ fin[g].at = "exchange"
  BY FinFields DEF LoginInv, FinishInstall
<1>2. PICK n \in Names, f \in Flows : n = fin[g].name /\ f = fin[g].flow
  BY <1>1
<1>a. PICK tag : tag = Effective(fin[g].key)
  OBVIOUS
<1>3. f = fin[g].code /\ cred' = [cred EXCEPT ![n] = f]
      /\ UNCHANGED <<yaml, sessions, watched, up, stopping, reload>>
  BY <1>2 DEF FinishInstall, Installs
<1>4. \/ UNCHANGED <<overlay, live, kept, raced>>
      \/ /\ tag \in DOMAIN users \cup {Nil}
         /\ accounts' = Put(accounts, n, tag)
         /\ users' = IF tag = Nil THEN users
                     ELSE [users EXCEPT ![tag] = @ \cup {n}]
         /\ WriteOverlay /\ Keeps(n)
         /\ raced' = (raced \/ Busy)
  BY <1>2, <1>a DEF FinishInstall
<1> QED BY <1>2, <1>a, <1>3, <1>4

\* The rest of the configuration keeps its type.
LEMMA LiveStep ==
  ASSUME LoginInv, LiveInv, [Next]_vars
  PROVE  LiveInv'
<1>1. ASSUME NEW n \in Names, Login(n) PROVE UNCHANGED <<disk, live, others>>
  BY <1>1 DEF Login, Begin, Drop, FinishAsk, disk, live, others
<1>2. ASSUME NEW f \in Flows, Spawn(f) \/ Spawned(f) PROVE UNCHANGED <<disk, live, others>>
  BY <1>2 DEF Spawn, Spawned, disk, live, others
<1>3. ASSUME NEW g \in Finishes, FinishPop(g) \/ FinishFails(g)
      PROVE  UNCHANGED <<disk, live, others>>
  BY <1>3 DEF FinishPop, FinishFails, disk, live, others
<1>4. CASE UNCHANGED <<disk, live, others>>
  BY <1>4, ReloadStill DEF LiveInv, IsTable, IsPools, disk, live, others
<1>5. ASSUME NEW g \in Finishes, FinishInstall(g) PROVE LiveInv'
  <2>1. PICK n \in Names, f \in Flows : \E tag :
          /\ cred' = [cred EXCEPT ![n] = f]
          /\ \/ UNCHANGED <<overlay, live, kept, raced>>
             \/ /\ tag \in DOMAIN users \cup {Nil}
                /\ accounts' = Put(accounts, n, tag)
                /\ users' = IF tag = Nil THEN users
                            ELSE [users EXCEPT ![tag] = @ \cup {n}]
                /\ WriteOverlay /\ Keeps(n)
                /\ raced' = (raced \/ Busy)
          /\ UNCHANGED <<yaml, sessions, watched, up, stopping, reload>>
    BY <1>5, InstallFacts
  <2>a. PICK tag :
          /\ cred' = [cred EXCEPT ![n] = f]
          /\ \/ UNCHANGED <<overlay, live, kept, raced>>
             \/ /\ tag \in DOMAIN users \cup {Nil}
                /\ accounts' = Put(accounts, n, tag)
                /\ users' = IF tag = Nil THEN users
                            ELSE [users EXCEPT ![tag] = @ \cup {n}]
                /\ WriteOverlay /\ Keeps(n)
                /\ raced' = (raced \/ Busy)
          /\ UNCHANGED <<yaml, sessions, watched, up, stopping, reload>>
    BY <2>1
  <2>2. cred' \in [Names -> Flows \cup {"old", Nil}] /\ ReloadTyped' /\ IsTable(stopping)'
    BY <2>a, ReloadStill DEF LiveInv, IsTable
  <2>3. CASE UNCHANGED <<overlay, live, kept, raced>>
    BY <2>a, <2>2, <2>3 DEF LiveInv, IsTable, IsPools, live
  <2>4. CASE /\ tag \in DOMAIN users \cup {Nil}
             /\ accounts' = Put(accounts, n, tag)
             /\ users' = IF tag = Nil THEN users
                         ELSE [users EXCEPT ![tag] = @ \cup {n}]
             /\ WriteOverlay /\ Keeps(n)
             /\ raced' = (raced \/ Busy)
    <3>1. IsTable(accounts)'
      <4>1. IsTable(Put(accounts, n, tag))
        BY PutTable DEF LiveInv
      <4> QED BY <4>1, <2>4 DEF IsTable
    <3>2. IsPools(users)'
      BY <2>4, InstalledInPool
    <3>3. IsTable(overlay)' /\ kept' \subseteq Names
      BY <2>4, <3>1 DEF LiveInv, IsTable, WriteOverlay, Keeps
    <3>4. raced' \in BOOLEAN
      BY <2>4
    <3> QED BY <2>a, <2>2, <3>1, <3>2, <3>3, <3>4 DEF LiveInv
  <2> QED BY <2>a, <2>3, <2>4
<1>6. ASSUME NEW g \in Finishes, FinishSpawn(g) PROVE LiveInv'
  <2>1. sessions' \subseteq Names
    BY <1>6, FinFields DEF FinishSpawn, LoginInv, LiveInv
  <2> QED BY <1>6, <2>1, ReloadStill DEF FinishSpawn, LiveInv, IsTable, IsPools, disk, live
<1>7. ASSUME NEW n \in Names, DeleteAsk(n) PROVE LiveInv'
  <2>1. IsTable(stopping)'
    <3>1. IsTable(Put(stopping, n, n \in sessions))
      BY PutTable DEF LiveInv
    <3> QED BY <3>1, <1>7 DEF DeleteAsk, IsTable
  <2> QED BY <1>7, <2>1, ReloadStill DEF DeleteAsk, LiveInv, IsTable, IsPools, disk, live
<1>8. ASSUME NEW n \in Names, DeleteEnd(n) PROVE LiveInv'
  <2>1. /\ stopping' = [m \in DOMAIN stopping \ {n} |-> stopping[m]]
        /\ sessions' = Stopped(n, stopping[n])
        /\ accounts' = [m \in DOMAIN accounts \ {n} |-> accounts[m]]
        /\ users' = [k \in {x \in DOMAIN users : Pruned(n)[x] # {}} |-> Pruned(n)[k]]
        /\ WriteOverlay /\ kept' = kept \ ({n} \cup Extends(n))
        /\ cred' = [cred EXCEPT ![n] = Nil]
        /\ raced' = (raced \/ Busy)
        /\ UNCHANGED <<yaml, watched, up, reload>>
    BY <1>8 DEF DeleteEnd
  <2>2. IsTable(stopping)' /\ IsTable(accounts)'
    BY <2>1 DEF LiveInv, IsTable
  <2>3. IsPools(users)'
    BY <2>1 DEF LiveInv, IsPools, Pruned
  <2>4. IsTable(overlay)' /\ kept' \subseteq Names
    BY <2>1, <2>2 DEF LiveInv, IsTable, WriteOverlay
  <2>5. sessions' \subseteq Names /\ raced' \in BOOLEAN
        /\ cred' \in [Names -> Flows \cup {"old", Nil}]
    BY <2>1 DEF LiveInv, Stopped
  <2> QED BY <2>1, <2>2, <2>3, <2>4, <2>5, ReloadStill DEF LiveInv
<1>9. ASSUME NEW n \in Names, Route(n) PROVE LiveInv'
  BY <1>9, ReloadStill DEF Route, LiveInv, IsTable, IsPools, disk, live
<1>10. ASSUME NEW y \in Yamls, EditYaml(y) PROVE LiveInv'
  <2>1. cred' \in [Names -> Flows \cup {"old", Nil}] /\ yaml' = y
    BY <1>10 DEF EditYaml, LiveInv
  <2> QED BY <1>10, <2>1, ReloadStill DEF EditYaml, LiveInv, IsTable, IsPools, live
<1>11. CASE Restart
  <2>1. /\ accounts' = IF Load.ok THEN Load.accounts ELSE <<>>
        /\ users' = IF Load.ok THEN Load.users ELSE <<>>
        /\ sessions' = Listed(users') /\ watched' = DOMAIN accounts'
        /\ up' = Load.ok /\ stopping' = <<>> /\ reload' = NoReload /\ raced' = FALSE
        /\ UNCHANGED <<disk, kept>>
    BY <1>11 DEF Restart
  <2>2. IsTable(accounts)' /\ IsPools(users)'
    <3>1. CASE Load.ok
      BY <2>1, <3>1, LoadTyped DEF LiveInv, IsTable, IsPools
    <3>2. CASE ~Load.ok
      BY <2>1, <3>2 DEF IsTable, IsPools
    <3> QED BY <3>1, <3>2
  <2>3. sessions' \subseteq Names /\ watched' \subseteq Names
    BY <2>1, <2>2 DEF IsTable, IsPools, Listed
  <2>4. ReloadTyped' /\ IsTable(stopping)'
    BY <2>1 DEF ReloadTyped, ReloadShape, NoReload, Installing, IsTable
  <2>5. up' \in BOOLEAN
    BY <2>1, WiredFacts DEF Load, Wired, LiveInv
  <2> QED BY <2>1, <2>2, <2>3, <2>4, <2>5 DEF LiveInv, IsTable, disk
<1>12. CASE UNCHANGED vars
  BY <1>12, <1>4 DEF vars, disk, live, others
<1> QED BY <1>1, <1>2, <1>3, <1>4, <1>5, <1>6, <1>7, <1>8, <1>9, <1>10, <1>11, <1>12,
      ReloadSteps DEF Next

\* The start has types and nothing under way.
LEMMA LiveInit ==
  ASSUME Init
  PROVE  LoginInv /\ LiveInv
<1>1. LoginInv
  <2>1. [at |-> "new"] \in FlowType /\ [at |-> "new"] \in FinType
    BY DEF FlowType, FinType
  <2>2. LoginTyped
    BY <2>1 DEF Init, LoginTyped
  <2>3. (\A f \in Flows : flow[f].at = "new") /\ (\A g \in Finishes : fin[g].at = "new")
    BY DEF Init
  <2> QED BY <2>2, <2>3, KeyFacts DEF Init, LoginInv, FlowsLinked, PoolRead
<1>2. IsTable(overlay) /\ IsTable(stopping)
  BY DEF Init, IsTable
<1>3. IsTable(accounts) /\ IsPools(users)
  BY <1>2, LoadTyped DEF Init
<1>4. sessions \subseteq Names /\ watched \subseteq Names
  BY <1>3 DEF Init, IsTable, IsPools, Listed
<1>5. ReloadTyped
  BY DEF Init, ReloadTyped, ReloadShape, NoReload, Installing
<1>6. LiveInv
  BY <1>2, <1>3, <1>4, <1>5 DEF Init, LiveInv
<1> QED BY <1>1, <1>6

\* The types, the flows and the pools that were read hold throughout.
LEMMA LoginInvariant == Spec => [](LoginInv /\ LiveInv)
<1>1. LoginInv /\ LiveInv /\ [Next]_vars => (LoginInv /\ LiveInv)'
  BY LoginStep, LiveStep DEF LiveInv
<1> QED BY <1>1, LiveInit, PTL DEF Spec

\* finish_account_login, begin, abort and the sweeper: the account a login
\* enters gets the pool that login asked for, although the finish has read it
\* before it waited for the lock, and the flow may have been aborted and another
\* begun meanwhile.
THEOREM PoolAsChosen == Spec => InstalledAsChosen
<1>1. ASSUME LoginInv, LiveInv, [Next]_vars, NEW n \in Names,
             cred'[n] # cred[n], cred'[n] \in Flows, accounts' # accounts
      PROVE  accounts'[n] = Effective(flow[cred'[n]].key)
  <2>1. ASSUME NEW g \in Finishes, FinishInstall(g)
        PROVE  accounts'[n] = Effective(flow[cred'[n]].key)
    <3>0. PICK m \in Names, f \in Flows : \E tag :
            /\ m = fin[g].name /\ tag = Effective(fin[g].key)
            /\ f = fin[g].flow /\ f = fin[g].code
            /\ cred' = [cred EXCEPT ![m] = f]
            /\ \/ UNCHANGED <<overlay, live, kept, raced>>
               \/ /\ tag \in DOMAIN users \cup {Nil}
                  /\ accounts' = Put(accounts, m, tag)
                  /\ users' = IF tag = Nil THEN users
                              ELSE [users EXCEPT ![tag] = @ \cup {m}]
                  /\ WriteOverlay /\ Keeps(m)
                  /\ raced' = (raced \/ Busy)
            /\ UNCHANGED <<yaml, sessions, watched, up, stopping, reload>>
      BY <1>1, <2>1, InstallFacts
    <3>1. PICK tag :
            /\ tag = Effective(fin[g].key) /\ f = fin[g].flow /\ f = fin[g].code
            /\ cred' = [cred EXCEPT ![m] = f]
            /\ accounts' = Put(accounts, m, tag)
      BY <3>0, <1>1 DEF live
    <3>2. m = n /\ cred'[n] = f
      BY <3>1, <1>1 DEF LiveInv
    <3>3. fin[g].key = flow[f].key
      BY <3>1, <2>1, <1>1 DEF FinishInstall, LoginInv, PoolRead
    <3>4. Put(accounts, m, tag)[m] = tag
      BY PutAt
    <3> QED BY <3>1, <3>2, <3>3, <3>4
  <2>2. ASSUME NEW m \in Names, DeleteEnd(m) PROVE FALSE
    BY <2>2, <1>1, KeyFacts DEF DeleteEnd, LiveInv
  <2>3. ASSUME NEW m \in Names, Login(m) \/ DeleteAsk(m) \/ Route(m) PROVE FALSE
    BY <2>3, <1>1 DEF Login, Begin, Drop, FinishAsk, DeleteAsk, Route, disk
  <2>4. ASSUME NEW f \in Flows, Spawn(f) \/ Spawned(f) PROVE FALSE
    BY <2>4, <1>1 DEF Spawn, Spawned, disk
  <2>5. ASSUME NEW g \in Finishes, FinishPop(g) \/ FinishFails(g) \/ FinishSpawn(g)
        PROVE  FALSE
    BY <2>5, <1>1 DEF FinishPop, FinishFails, FinishSpawn, disk
  <2>6. ASSUME ReloadBegin \/ ReloadDiff \/ ReloadSpawn \/ ReloadAdded \/ ReloadRemoved
                 \/ ReloadPop \/ ReloadPrewarm
        PROVE  FALSE
    BY <2>6, <1>1 DEF ReloadBegin, ReloadDiff, ReloadSpawn, ReloadAdded, ReloadRemoved,
       ReloadPop, ReloadPrewarm, aside, disk
  <2>7. ASSUME NEW y \in Yamls, EditYaml(y) PROVE FALSE
    BY <2>7, <1>1 DEF EditYaml, live
  <2>8. ASSUME Restart PROVE FALSE
    BY <2>8, <1>1 DEF Restart, disk
  <2>9. ASSUME UNCHANGED vars PROVE FALSE
    BY <2>9, <1>1 DEF vars
  <2> QED BY <1>1, <2>1, <2>2, <2>3, <2>4, <2>5, <2>6, <2>7, <2>8, <2>9 DEF Next
<1>2. LoginInv /\ LiveInv /\ [Next]_vars =>
        [\A n \in Names :
           cred'[n] # cred[n] /\ cred'[n] \in Flows /\ accounts' # accounts
             => accounts'[n] = Effective(flow[cred'[n]].key)]_vars
  BY <1>1
<1> QED BY <1>2, LoginInvariant, PTL DEF Spec, InstalledAsChosen

-----------------------------------------------------------------------------
(* The configuration stays one that a start takes.                         *)

\* What Config.load takes has keys for tags, and accounts for what it lists.
LEMMA LoadValid ==
  ASSUME yaml \in Yamls, Load.ok
  PROVE  /\ Tags(Load.accounts)
         /\ Listed(Load.users) \subseteq DOMAIN Load.accounts
<1>1. PICK acc : acc = Over(Read, yaml.accounts)
  OBVIOUS
<1>2. Load = Wired(yaml, acc) /\ Load.accounts = acc
  BY <1>1, WiredFacts DEF Load
<1> QED BY <1>2, WiredFacts DEF Tags

\* It takes config.yaml under an overlay whose tags are keys, but for what
\* config.yaml says itself.
LEMMA LoadTakes ==
  ASSUME yaml \in Yamls, Tags(overlay), ~YamlAtFault
  PROVE  Load.ok
<1>1. PICK acc : acc = Over(Read, yaml.accounts)
  OBVIOUS
<1>2. Load = Wired(yaml, acc) /\ Load.accounts = acc
  BY <1>1, WiredFacts DEF Load
<1>3. /\ \A n \in DOMAIN yaml.accounts : yaml.accounts[n] \in Keys \cup {Nil}
      /\ Listed(yaml.users) \subseteq DOMAIN acc
  BY <1>2, KeyFacts DEF YamlAtFault
<1>4. \A n \in DOMAIN acc : acc[n] \in Keys \cup {Nil}
  <2>1. /\ \A n \in DOMAIN Read : acc[n] = Read[n]
        /\ \A n \in DOMAIN yaml.accounts \ DOMAIN Read : acc[n] = yaml.accounts[n]
        /\ DOMAIN acc = DOMAIN Read \cup DOMAIN yaml.accounts
    BY <1>2, LoadFacts
  <2> QED BY <2>1, <1>3, ReadFacts DEF Tags
<1>5. Listed(Wired(yaml, acc).users) \subseteq DOMAIN acc
  <2>1. \A k \in Keys : Wired(yaml, acc).users[k] \subseteq
          DOMAIN acc \cup (IF k \in DOMAIN yaml.users THEN yaml.users[k] ELSE {})
    BY WiredFacts
  <2>2. DOMAIN Wired(yaml, acc).users = Keys
    BY WiredFacts
  <2> QED BY <2>1, <2>2, <1>3 DEF Listed
<1>6. Wired(yaml, acc).ok
  BY <1>4, <1>5, WiredFacts
<1> QED BY <1>2, <1>6

\* A table keeps its tags when an account is entered with a tag.
LEMMA PutTags ==
  ASSUME NEW acc, Tags(acc), NEW n, NEW tag \in Keys \cup {Nil}
  PROVE  Tags(Put(acc, n, tag))
<1> SUFFICES ASSUME NEW m \in DOMAIN Put(acc, n, tag)
             PROVE  Put(acc, n, tag)[m] \in Keys \cup {Nil}
  BY DEF Tags
<1>1. CASE m = n
  BY <1>1, PutAt
<1>2. CASE m # n
  <2>1. m \in DOMAIN acc /\ Put(acc, n, tag)[m] = acc[m]
    BY <1>2, PutElse
  <2> QED BY <2>1 DEF Tags
<1> QED BY <1>1, <1>2

\* The next stretch of a reload: nothing that is listed loses its account before
\* the pools are swapped, but for those it removes.
LEMMA ContinueValid ==
  ASSUME ConfigInv, Installing, NEW acc, NEW add, NEW remove, Tags(acc),
         add \subseteq DOMAIN reload.new.accounts,
         reload.at = "removing" => add = {},
         ~raced =>
           /\ DOMAIN reload.new.accounts \subseteq DOMAIN acc \cup add
           /\ remove \cap DOMAIN reload.new.accounts = {}
           /\ reload.at # "removing" => Listed(users) \subseteq DOMAIN acc,
         Continue(acc, add, remove), UNCHANGED <<overlay, raced>>
  PROVE  ConfigInv'
<1>0. Tags(reload.new.accounts) /\ Listed(reload.new.users) \subseteq DOMAIN reload.new.accounts
  BY DEF ConfigInv
<1>1. ASSUME NEW n \in add,
             accounts' = Put(acc, n, reload.new.accounts[n]), users' = users,
             reload' = [at |-> "adding", new |-> reload.new, name |-> n,
                        add |-> add \ {n}, remove |-> remove]
      PROVE  ConfigInv'
  <2>1. /\ reload'.at = "adding" /\ reload'.new = reload.new
        /\ reload'.add = add \ {n} /\ reload'.remove = remove
    BY <1>1
  <2>2. Tags(accounts')
    <3>1. reload.new.accounts[n] \in Keys \cup {Nil}
      BY <1>0 DEF Tags
    <3>2. Tags(Put(acc, n, reload.new.accounts[n]))
      BY <3>1, PutTags
    <3> QED BY <3>2, <1>1
  <2>3. DOMAIN acc \subseteq DOMAIN accounts' /\ n \in DOMAIN accounts'
    <3>1. n \in DOMAIN Put(acc, n, reload.new.accounts[n])
      BY PutAt
    <3>2. ASSUME NEW m \in DOMAIN acc, m # n
          PROVE  m \in DOMAIN Put(acc, n, reload.new.accounts[n])
      BY <3>2, PutElse
    <3> QED BY <3>1, <3>2, <1>1
  <2>4. ~raced => Listed(users) \subseteq DOMAIN accounts'
    BY <2>3
  <2>5. Tags(overlay')
    BY DEF ConfigInv, Tags
  <2> QED BY <2>1, <2>2, <2>3, <2>4, <2>5, <1>0, <1>1 DEF ConfigInv, Covered, Installing,
          Tags, Listed
<1>2. ASSUME add = {}, NEW n \in remove, accounts' = acc, users' = users,
             reload' = [at |-> "removing", new |-> reload.new, name |-> n,
                        found |-> n \in sessions, add |-> {}, remove |-> remove \ {n}]
      PROVE  ConfigInv'
  <2>1. /\ reload'.at = "removing" /\ reload'.new = reload.new /\ reload'.name = n
        /\ reload'.add = {} /\ reload'.remove = remove \ {n}
    BY <1>2
  <2> QED BY <2>1, <1>0, <1>2 DEF ConfigInv, Covered, Installing, Tags, Listed
<1>3. ASSUME add = {}, accounts' = acc, users' = reload.new.users,
             reload' = [at |-> "swapped", gone |-> Listed(users) \ Listed(users'),
                        add |-> Listed(users') \ Listed(users)]
      PROVE  ConfigInv'
  <2>1. reload'.at = "swapped"
    BY <1>3
  <2>2. ~raced => Listed(users') \subseteq DOMAIN accounts'
    BY <1>0, <1>3
  <2> QED BY <2>1, <2>2, <1>3 DEF ConfigInv, Covered, Installing, Tags, Listed
<1> QED BY <1>1, <1>2, <1>3 DEF Continue

\* What an account that comes or goes outside a reload leaves: the pools covered,
\* and no more than that inside one.
LEMMA AsideOfReload ==
  ASSUME LiveInv, ConfigInv, reload' = reload, raced' = (raced \/ Busy),
         Tags(accounts'), overlay' \in {overlay, accounts'},
         Listed(users) \subseteq DOMAIN accounts => Listed(users') \subseteq DOMAIN accounts'
  PROVE  ConfigInv'
<1>1. Tags(overlay')
  BY DEF ConfigInv, Tags
<1>2. CASE reload = NoReload
  <2>1. reload.at = "none" /\ raced' = raced
    BY <1>2 DEF NoReload, Busy, LiveInv
  <2> QED BY <2>1, <1>1 DEF ConfigInv, Covered, Installing, Tags, Listed
<1>3. CASE reload # NoReload
  <2>1. raced'
    BY <1>3 DEF Busy
  <2> QED BY <2>1, <1>1 DEF ConfigInv, Covered, Installing, Tags, Listed
<1> QED BY <1>2, <1>3

\* Nothing of the configuration moves but config.yaml.
LEMMA ConfigStill ==
  ASSUME ConfigInv, UNCHANGED <<overlay, accounts, users, reload, raced>>
  PROVE  ConfigInv'
BY DEF ConfigInv, Covered, Installing, Tags, Listed

\* The steps of a reload.
LEMMA ReloadValid ==
  ASSUME LiveInv, ConfigInv,
         ReloadBegin \/ ReloadDiff \/ ReloadSpawn \/ ReloadAdded \/ ReloadRemoved
           \/ ReloadPop \/ ReloadPrewarm
  PROVE  ConfigInv'
<1>0. UNCHANGED <<overlay, raced>>
  BY DEF ReloadBegin, ReloadDiff, ReloadSpawn, ReloadAdded, ReloadRemoved, ReloadPop,
     ReloadPrewarm, aside, disk
<1>1. ASSUME reload'.at \in {"swapped", "prewarm", "none"}, reload.at # "removing",
             UNCHANGED live
      PROVE  ConfigInv'
  BY <1>0, <1>1 DEF ConfigInv, Covered, Installing, Tags, Listed, live
<1>2. CASE ReloadBegin
  <2>1. reload' = [at |-> "oauth", new |-> Load] /\ UNCHANGED live /\ reload = NoReload
    BY <1>2 DEF ReloadBegin, Busy
  <2>2. reload'.at = "oauth" /\ reload'.new = Load /\ reload.at = "none"
    BY <2>1 DEF NoReload
  <2>3. Tags(Load.accounts) /\ Listed(Load.users) \subseteq DOMAIN Load.accounts
    BY <1>2, LoadValid DEF ReloadBegin, LiveInv
  <2>4. Tags(reload'.new.accounts)
        /\ Listed(reload'.new.users) \subseteq DOMAIN reload'.new.accounts
    BY <2>2, <2>3
  <2> QED BY <2>1, <2>2, <2>4, <1>0 DEF ConfigInv, Covered, Installing, Tags, Listed, live
<1>3. CASE ReloadDiff
  <2>1. reload.at = "oauth" /\ Installing
        /\ Continue(accounts, DOMAIN reload.new.accounts \ DOMAIN accounts,
                    DOMAIN accounts \ DOMAIN reload.new.accounts)
    BY <1>3 DEF ReloadDiff, Installing
  <2>2. Tags(accounts) /\ (~raced => Listed(users) \subseteq DOMAIN accounts)
    BY <2>1 DEF ConfigInv, Covered
  <2> QED BY <2>1, <2>2, <1>0, ContinueValid
<1>4. CASE ReloadSpawn
  <2>1. reload.at = "adding" /\ reload' = [reload EXCEPT !.at = "starting"]
        /\ UNCHANGED live
    BY <1>4 DEF ReloadSpawn
  <2>2. reload = [at |-> reload.at, new |-> reload.new, name |-> reload.name,
                  add |-> reload.add, remove |-> reload.remove]
    BY <2>1 DEF LiveInv, ReloadTyped, ReloadShape, NoReload
  <2>3. reload' = [at |-> "starting", new |-> reload.new, name |-> reload.name,
                   add |-> reload.add, remove |-> reload.remove]
    BY <2>1, <2>2
  <2>4. /\ reload'.at = "starting" /\ reload'.new = reload.new
        /\ reload'.add = reload.add /\ reload'.remove = reload.remove
    BY <2>3
  <2> QED BY <2>1, <2>4, <1>0 DEF ConfigInv, Covered, Installing, Tags, Listed, live
<1>5. CASE ReloadAdded
  <2>1. reload.at = "starting" /\ Installing
        /\ Continue(accounts, reload.add, reload.remove)
    BY <1>5 DEF ReloadAdded, Installing
  <2>2. /\ Tags(accounts) /\ reload.add \subseteq DOMAIN reload.new.accounts
        /\ ~raced =>
             /\ Listed(users) \subseteq DOMAIN accounts
             /\ DOMAIN reload.new.accounts \subseteq DOMAIN accounts \cup reload.add
             /\ reload.remove \cap DOMAIN reload.new.accounts = {}
    BY <2>1 DEF ConfigInv, Covered
  <2> QED BY <2>1, <2>2, <1>0, ContinueValid
<1>6. CASE ReloadRemoved
  <2>1. PICK acc : acc = [m \in DOMAIN accounts \ {reload.name} |-> accounts[m]]
    OBVIOUS
  <2>2. reload.at = "removing" /\ Installing /\ Continue(acc, reload.add, reload.remove)
    BY <1>6, <2>1 DEF ReloadRemoved, Installing
  <2>3. Tags(acc)
    BY <2>1 DEF ConfigInv, Tags
  <2>4. /\ reload.add = {}
        /\ ~raced =>
             /\ DOMAIN reload.new.accounts \subseteq DOMAIN accounts
             /\ (reload.remove \cup {reload.name}) \cap DOMAIN reload.new.accounts = {}
    BY <2>2 DEF ConfigInv
  <2>5. ~raced => DOMAIN reload.new.accounts \subseteq DOMAIN acc
                  /\ reload.remove \cap DOMAIN reload.new.accounts = {}
    BY <2>1, <2>4
  <2> QED BY <2>2, <2>3, <2>4, <2>5, <1>0, ContinueValid
<1>7. CASE ReloadPop
  BY <1>1, <1>7 DEF ReloadPop
<1>8. CASE ReloadPrewarm
  <2>1. reload.at = "prewarm" /\ UNCHANGED live
    BY <1>8 DEF ReloadPrewarm
  <2>2. reload = [at |-> reload.at, add |-> reload.add]
    BY <2>1 DEF LiveInv, ReloadTyped, ReloadShape, NoReload
  <2>3. reload'.at \in {"prewarm", "none"}
    BY <1>8, <2>1, <2>2 DEF ReloadPrewarm, NoReload
  <2> QED BY <1>1, <2>1, <2>3
<1> QED BY <1>2, <1>3, <1>4, <1>5, <1>6, <1>7, <1>8

\* Logins, deletions, reloads, edits and restarts keep it.
LEMMA ConfigStep ==
  ASSUME LoginInv, LiveInv, ConfigInv, [Next]_vars
  PROVE  ConfigInv'
<1>1. ASSUME NEW n \in Names, Login(n) \/ DeleteAsk(n) \/ Route(n) PROVE ConfigInv'
  BY <1>1, ConfigStill DEF Login, Begin, Drop, FinishAsk, DeleteAsk, Route, disk, live, others
<1>2. ASSUME NEW f \in Flows, Spawn(f) \/ Spawned(f) PROVE ConfigInv'
  BY <1>2, ConfigStill DEF Spawn, Spawned, disk, live, others
<1>3. ASSUME NEW g \in Finishes, FinishPop(g) \/ FinishFails(g) \/ FinishSpawn(g)
      PROVE  ConfigInv'
  BY <1>3, ConfigStill DEF FinishPop, FinishFails, FinishSpawn, disk, live, others
<1>4. ASSUME NEW g \in Finishes, FinishInstall(g) PROVE ConfigInv'
  <2>1. PICK n \in Names, f \in Flows : \E tag :
          /\ \/ UNCHANGED <<overlay, live, kept, raced>>
             \/ /\ tag \in DOMAIN users \cup {Nil}
                /\ accounts' = Put(accounts, n, tag)
                /\ users' = IF tag = Nil THEN users
                            ELSE [users EXCEPT ![tag] = @ \cup {n}]
                /\ WriteOverlay /\ Keeps(n)
                /\ raced' = (raced \/ Busy)
          /\ reload' = reload
    BY <1>4, InstallFacts
  <2>2. PICK tag :
          /\ \/ UNCHANGED <<overlay, live, kept, raced>>
             \/ /\ tag \in DOMAIN users \cup {Nil}
                /\ accounts' = Put(accounts, n, tag)
                /\ users' = IF tag = Nil THEN users
                            ELSE [users EXCEPT ![tag] = @ \cup {n}]
                /\ WriteOverlay /\ Keeps(n)
                /\ raced' = (raced \/ Busy)
          /\ reload' = reload
    BY <2>1
  <2>3. CASE UNCHANGED <<overlay, live, kept, raced>>
    BY <2>2, <2>3, ConfigStill DEF live
  <2>4. CASE /\ tag \in DOMAIN users \cup {Nil}
             /\ accounts' = Put(accounts, n, tag)
             /\ users' = IF tag = Nil THEN users
                         ELSE [users EXCEPT ![tag] = @ \cup {n}]
             /\ WriteOverlay /\ Keeps(n)
             /\ raced' = (raced \/ Busy)
    <3>1. Tags(accounts')
      <4>1. tag \in Keys \cup {Nil}
        BY <2>4 DEF LiveInv, IsPools
      <4>2. Tags(Put(accounts, n, tag))
        BY <4>1, PutTags DEF ConfigInv
      <4> QED BY <4>2, <2>4
    <3>2. /\ DOMAIN users' = DOMAIN users
          /\ \A k \in DOMAIN users : users'[k] \subseteq users[k] \cup {n}
      BY <2>4, InstalledInPool
    <3>3. DOMAIN accounts \cup {n} \subseteq DOMAIN accounts'
      <4>1. n \in DOMAIN Put(accounts, n, tag)
        BY PutAt
      <4>2. ASSUME NEW m \in DOMAIN accounts, m # n PROVE m \in DOMAIN Put(accounts, n, tag)
        BY <4>2, PutElse
      <4> QED BY <4>1, <4>2, <2>4
    <3>4. Listed(users) \subseteq DOMAIN accounts => Listed(users') \subseteq DOMAIN accounts'
      BY <3>2, <3>3 DEF Listed
    <3>5. overlay' \in {overlay, accounts'}
      BY <2>4 DEF WriteOverlay
    <3> QED BY <2>2, <2>4, <3>1, <3>4, <3>5, AsideOfReload
  <2> QED BY <2>2, <2>3, <2>4
<1>5. ASSUME NEW n \in Names, DeleteEnd(n) PROVE ConfigInv'
  <2>1. /\ accounts' = [m \in DOMAIN accounts \ {n} |-> accounts[m]]
        /\ users' = [k \in {x \in DOMAIN users : Pruned(n)[x] # {}} |-> Pruned(n)[k]]
        /\ WriteOverlay /\ kept' = kept \ ({n} \cup Extends(n))
        /\ raced' = (raced \/ Busy) /\ reload' = reload
    BY <1>5 DEF DeleteEnd
  <2>2. Tags(accounts')
    BY <2>1 DEF ConfigInv, Tags
  <2>3. \A k \in DOMAIN users' : k \in DOMAIN users /\ users'[k] \subseteq users[k] \ {n}
    BY <2>1 DEF Pruned
  <2>4. Listed(users) \subseteq DOMAIN accounts => Listed(users') \subseteq DOMAIN accounts'
    BY <2>1, <2>3 DEF Listed
  <2>5. overlay' \in {overlay, accounts'}
    BY <2>1 DEF WriteOverlay
  <2> QED BY <2>1, <2>2, <2>4, <2>5, AsideOfReload
<1>6. ASSUME NEW y \in Yamls, EditYaml(y) PROVE ConfigInv'
  BY <1>6, ConfigStill DEF EditYaml, live
<1>7. CASE Restart
  <2>1. /\ accounts' = IF Load.ok THEN Load.accounts ELSE <<>>
        /\ users' = IF Load.ok THEN Load.users ELSE <<>>
        /\ reload' = NoReload /\ overlay' = overlay
    BY <1>7 DEF Restart, disk
  <2>2. Tags(accounts') /\ Listed(users') \subseteq DOMAIN accounts'
    <3>1. CASE Load.ok
      BY <2>1, <3>1, LoadValid DEF LiveInv
    <3>2. CASE ~Load.ok
      BY <2>1, <3>2 DEF Tags, Listed
    <3> QED BY <3>1, <3>2
  <2>3. reload'.at = "none"
    BY <2>1 DEF NoReload
  <2> QED BY <2>1, <2>2, <2>3 DEF ConfigInv, Covered, Installing, Tags, Listed
<1>8. CASE UNCHANGED vars
  BY <1>8, ConfigStill DEF vars, live
<1> QED BY <1>1, <1>2, <1>3, <1>4, <1>5, <1>6, <1>7, <1>8, ReloadValid DEF Next

\* Throughout, whatever the operator writes.
LEMMA ConfigInvariant == Spec => [](LoginInv /\ LiveInv /\ ConfigInv)
<1>1. Init => LoginInv /\ LiveInv /\ ConfigInv
  <2> SUFFICES ASSUME Init PROVE ConfigInv
    BY LiveInit
  <2>1. Tags(overlay) /\ yaml \in Yamls /\ Load.ok
    BY DEF Init, Tags
  <2>2. Tags(Load.accounts) /\ Listed(Load.users) \subseteq DOMAIN Load.accounts
    BY <2>1, LoadValid
  <2>3. Tags(accounts) /\ Listed(users) \subseteq DOMAIN accounts
    BY <2>2 DEF Init
  <2>4. reload.at = "none"
    BY DEF Init, NoReload
  <2> QED BY <2>1, <2>3, <2>4 DEF ConfigInv, Covered, Installing
<1>2. LoginInv /\ LiveInv /\ ConfigInv /\ [Next]_vars => (LoginInv /\ LiveInv /\ ConfigInv)'
  BY LoginStep, LiveStep, ConfigStep DEF LiveInv
<1> QED BY <1>1, <1>2, PTL DEF Spec

\* Every variable keeps its type, a flow is in the registry exactly while it is
\* open, and the lock is held by the flow that is starting.
THEOREM TypeCorrect == Spec => []TypeOK
<1>1. LoginInv /\ LiveInv /\ ConfigInv => TypeOK
  <2> SUFFICES ASSUME LoginInv, LiveInv, ConfigInv PROVE TypeOK
    OBVIOUS
  <2>1. \A f \in Flows : flow[f].at \in Places /\ (f = rlock <=> flow[f].at = "spawning")
    BY DEF LoginInv, LoginTyped, FlowType, FlowsLinked, Places
  <2>2. \A g \in Finishes :
          fin[g].at \in {"new", "waiting", "exchange", "spawn", "starting", "over"}
    BY DEF LoginInv, LoginTyped, FinType
  <2>3. \A n \in DOMAIN accounts : accounts[n] \in Keys \cup {Nil}
    BY DEF ConfigInv, Tags
  <2>4. DOMAIN users \subseteq Keys /\ Listed(users) \subseteq Names
    BY DEF LiveInv, IsPools, Listed
  <2> QED BY <2>1, <2>2, <2>3, <2>4 DEF TypeOK, LoginInv, LoginTyped, FlowsLinked,
          LiveInv, IsTable
<1> QED BY <1>1, ConfigInvariant, PTL

\* Config.load, _wire_accounts and write_runtime_accounts: whatever logins,
\* deletions and reloads have written, a start is refused only for what
\* config.yaml says itself: a tag that is no key, or workers of an account that
\* neither file has (among them one that was deleted from the dashboard after it
\* had been wired by hand).  And the live pools list accounts there are, unless a
\* reload met a finish or a delete, or is removing accounts.
THEOREM StartsAgain == Spec => []ConfigValid
<1>1. LoginInv /\ LiveInv /\ ConfigInv => ConfigValid
  BY LoadTakes DEF LiveInv, ConfigInv, ConfigValid, Covered
<1> QED BY <1>1, ConfigInvariant, PTL

-----------------------------------------------------------------------------
(* Kept accounts.                                                          *)

\* Nothing starts in a process that did not come up, but another start.
LEMMA IdleStep ==
  ASSUME Idle, LoginInv, [Next]_vars
  PROVE  Idle'
<1>0. /\ NoReload.at = "none" /\ DOMAIN <<>> = {}
      /\ ~up => /\ reload.at = "none" /\ DOMAIN stopping = {}
               /\ \A g \in Finishes : fin[g].at \in {"new", "over"}
  BY DEF Idle, NoReload
<1>1. CASE Restart
  <2>1. reload' = NoReload /\ stopping' = <<>>
        /\ fin' = [g \in Finishes |-> IF fin[g].at = "new" THEN fin[g] ELSE [at |-> "over"]]
    BY <1>1 DEF Restart
  <2> QED BY <2>1 DEF Idle
<1>2. CASE ~Restart /\ up
  <2>1. up'
    BY <1>2 DEF Next, Login, Begin, Drop, FinishAsk, DeleteAsk, DeleteEnd, Route, Spawn,
       Spawned, FinishPop, FinishFails, FinishInstall, FinishSpawn, ReloadBegin,
       ReloadDiff, ReloadSpawn, ReloadAdded, ReloadRemoved, ReloadPop, ReloadPrewarm,
       EditYaml, others, aside, vars
  <2> QED BY <2>1 DEF Idle
<1>3. CASE ~Restart /\ ~up
  <2>1. ASSUME NEW n \in Names
        PROVE  ~DeleteAsk(n) /\ ~DeleteEnd(n) /\ ~Route(n)
               /\ (Login(n) => UNCHANGED <<up, reload, stopping, fin>>)
    BY <1>0, <1>3 DEF DeleteAsk, DeleteEnd, Route, Login, Begin, Drop, FinishAsk, others
  <2>2. ASSUME NEW g \in Finishes
        PROVE  ~FinishPop(g) /\ ~FinishFails(g) /\ ~FinishInstall(g) /\ ~FinishSpawn(g)
    BY <1>0, <1>3 DEF FinishPop, FinishFails, FinishInstall, FinishSpawn
  <2>3. /\ ~ReloadBegin /\ ~ReloadDiff /\ ~ReloadSpawn /\ ~ReloadAdded
        /\ ~ReloadRemoved /\ ~ReloadPop /\ ~ReloadPrewarm
    BY <1>0, <1>3 DEF ReloadBegin, ReloadDiff, ReloadSpawn, ReloadAdded, ReloadRemoved,
       ReloadPop, ReloadPrewarm
  <2>4. ASSUME NEW f \in Flows, Spawn(f) \/ Spawned(f)
        PROVE  UNCHANGED <<up, reload, stopping, fin>>
    BY <2>4 DEF Spawn, Spawned, others
  <2>5. ASSUME NEW y \in Yamls, EditYaml(y) PROVE UNCHANGED <<up, reload, stopping, fin>>
    BY <2>5 DEF EditYaml, login
  <2>6. UNCHANGED vars => UNCHANGED <<up, reload, stopping, fin>>
    BY DEF vars, login
  <2>7. UNCHANGED <<up, reload, stopping, fin>>
    BY <1>3, <2>1, <2>2, <2>3, <2>4, <2>5, <2>6 DEF Next
  <2> QED BY <2>7 DEF Idle
<1> QED BY <1>1, <1>2, <1>3

\* Nothing that holds a kept account moves.
LEMMA KeptStill ==
  ASSUME KeptInv, UNCHANGED <<overlay, live, reload, kept, up>>,
         \A n \in kept : cred[n] # Nil => cred'[n] # Nil
  PROVE  KeptInv'
BY DEF KeptInv, InPool, Installing, live

\* The next stretch of a reload: the accounts it adds or removes are others, and
\* the pools it swaps in have the kept ones.
LEMMA ContinueKept ==
  ASSUME KeptInv, up, Installing, NEW acc, NEW add, NEW remove,
         \A n \in kept : n \in DOMAIN acc /\ acc[n] = overlay[n] /\ n \notin add \cup remove,
         Continue(acc, add, remove), UNCHANGED <<overlay, cred, kept, up>>
  PROVE  KeptInv'
<1>0. ASSUME NEW n \in kept
      PROVE  /\ n \in DOMAIN overlay /\ overlay[n] \in Keys \cup {Nil} /\ cred[n] # Nil
             /\ n \in DOMAIN acc /\ acc[n] = overlay[n]
             /\ InPool(n, users) /\ InPool(n, reload.new.users)
             /\ n \in DOMAIN reload.new.accounts /\ reload.new.accounts[n] = overlay[n]
             /\ n \notin add /\ n \notin remove
  BY DEF KeptInv
<1>1. ASSUME NEW m \in add,
             accounts' = Put(acc, m, reload.new.accounts[m]), users' = users,
             reload' = [at |-> "adding", new |-> reload.new, name |-> m,
                        add |-> add \ {m}, remove |-> remove]
      PROVE  KeptInv'
  <2>1. /\ reload'.at = "adding" /\ reload'.new = reload.new
        /\ reload'.add = add \ {m} /\ reload'.remove = remove
    BY <1>1
  <2>2. ASSUME NEW n \in kept PROVE n \in DOMAIN accounts' /\ accounts'[n] = overlay[n]
    <3>1. n # m /\ n \in DOMAIN acc /\ acc[n] = overlay[n]
      BY <1>0
    <3>2. n \in DOMAIN Put(acc, m, reload.new.accounts[m])
          /\ Put(acc, m, reload.new.accounts[m])[n] = acc[n]
      BY <3>1, PutElse
    <3> QED BY <3>1, <3>2, <1>1
  <2> QED BY <2>1, <2>2, <1>0, <1>1 DEF KeptInv, InPool, Installing
<1>2. ASSUME add = {}, NEW m \in remove, accounts' = acc, users' = users,
             reload' = [at |-> "removing", new |-> reload.new, name |-> m,
                        found |-> m \in sessions, add |-> {}, remove |-> remove \ {m}]
      PROVE  KeptInv'
  <2>1. /\ reload'.at = "removing" /\ reload'.new = reload.new /\ reload'.name = m
        /\ reload'.add = {} /\ reload'.remove = remove \ {m}
    BY <1>2
  <2> QED BY <2>1, <1>0, <1>2 DEF KeptInv, InPool, Installing
<1>3. ASSUME accounts' = acc, users' = reload.new.users,
             reload' = [at |-> "swapped", gone |-> Listed(users) \ Listed(users'),
                        add |-> Listed(users') \ Listed(users)]
      PROVE  KeptInv'
  <2>1. reload'.at = "swapped"
    BY <1>3
  <2> QED BY <2>1, <1>0, <1>3 DEF KeptInv, InPool, Installing
<1> QED BY <1>1, <1>2, <1>3 DEF Continue

\* What the files say of a kept account is what it has.
LEMMA LoadKeeps ==
  ASSUME DbPath, LiveInv, KeptInv, NEW n \in kept
  PROVE  /\ n \in DOMAIN Load.accounts /\ Load.accounts[n] = overlay[n]
         /\ InPool(n, Load.users)
<1>1. n \in DOMAIN overlay /\ overlay[n] \in Keys \cup {Nil}
  BY DEF KeptInv
<1>2. n \in DOMAIN Load.accounts /\ Load.accounts[n] = overlay[n]
  BY <1>1, LoadFacts, ReadFacts DEF LiveInv
<1>3. overlay[n] # Nil => overlay[n] \in DOMAIN Load.users /\ n \in Load.users[overlay[n]]
  BY <1>1, <1>2, LoadFacts DEF LiveInv
<1> QED BY <1>2, <1>3 DEF InPool

\* The steps of a reload.
LEMMA ReloadKeeps ==
  ASSUME DbPath, Idle, LiveInv, KeptInv,
         ReloadBegin \/ ReloadDiff \/ ReloadSpawn \/ ReloadAdded \/ ReloadRemoved
           \/ ReloadPop \/ ReloadPrewarm
  PROVE  KeptInv'
<1>0. up /\ UNCHANGED <<overlay, cred, kept, up>>
  BY DEF Idle, NoReload, ReloadBegin, ReloadDiff, ReloadSpawn, ReloadAdded, ReloadRemoved,
     ReloadPop, ReloadPrewarm, aside, disk
<1>1. ASSUME reload'.at \in {"prewarm", "none"}, UNCHANGED live
      PROVE  KeptInv'
  BY <1>0, <1>1 DEF KeptInv, InPool, Installing, live
<1>2. CASE ReloadBegin
  <2>1. reload' = [at |-> "oauth", new |-> Load] /\ UNCHANGED live
    BY <1>2 DEF ReloadBegin
  <2>2. PICK new : new = Load
    OBVIOUS
  <2>3. reload'.at = "oauth" /\ reload'.new = new
    BY <2>1, <2>2
  <2>4. \A n \in kept : n \in DOMAIN new.accounts /\ new.accounts[n] = overlay[n]
                        /\ InPool(n, new.users)
    BY <2>2, LoadKeeps
  <2> QED BY <2>1, <2>3, <2>4, <1>0 DEF KeptInv, InPool, Installing, live
<1>3. CASE ReloadDiff
  <2>1. reload.at = "oauth" /\ Installing
        /\ Continue(accounts, DOMAIN reload.new.accounts \ DOMAIN accounts,
                    DOMAIN accounts \ DOMAIN reload.new.accounts)
    BY <1>3 DEF ReloadDiff, Installing
  <2>2. \A n \in kept : n \in DOMAIN accounts /\ accounts[n] = overlay[n]
                        /\ n \in DOMAIN reload.new.accounts
    BY <2>1, <1>0 DEF KeptInv
  <2> QED BY <2>1, <2>2, <1>0, ContinueKept
<1>4. CASE ReloadSpawn
  <2>1. reload.at = "adding" /\ reload' = [reload EXCEPT !.at = "starting"]
        /\ UNCHANGED live
    BY <1>4 DEF ReloadSpawn
  <2>2. reload = [at |-> reload.at, new |-> reload.new, name |-> reload.name,
                  add |-> reload.add, remove |-> reload.remove]
    BY <2>1 DEF LiveInv, ReloadTyped, ReloadShape, NoReload
  <2>3. reload' = [at |-> "starting", new |-> reload.new, name |-> reload.name,
                   add |-> reload.add, remove |-> reload.remove]
    BY <2>1, <2>2
  <2>4. /\ reload'.at = "starting" /\ reload'.new = reload.new
        /\ reload'.add = reload.add /\ reload'.remove = reload.remove
    BY <2>3
  <2> QED BY <2>1, <2>4, <1>0 DEF KeptInv, InPool, Installing, live
<1>5. CASE ReloadAdded
  <2>1. reload.at = "starting" /\ Installing
        /\ Continue(accounts, reload.add, reload.remove)
    BY <1>5 DEF ReloadAdded, Installing
  <2>2. \A n \in kept : n \in DOMAIN accounts /\ accounts[n] = overlay[n]
                        /\ n \notin reload.add \cup reload.remove
    BY <2>1, <1>0 DEF KeptInv
  <2> QED BY <2>1, <2>2, <1>0, ContinueKept
<1>6. CASE ReloadRemoved
  <2>1. PICK acc : acc = [m \in DOMAIN accounts \ {reload.name} |-> accounts[m]]
    OBVIOUS
  <2>2. reload.at = "removing" /\ Installing /\ Continue(acc, reload.add, reload.remove)
    BY <1>6, <2>1 DEF ReloadRemoved, Installing
  <2>3. \A n \in kept : n \in DOMAIN accounts /\ accounts[n] = overlay[n]
                        /\ n \notin reload.add \cup reload.remove /\ n # reload.name
    BY <2>2, <1>0 DEF KeptInv
  <2>4. \A n \in kept : n \in DOMAIN acc /\ acc[n] = overlay[n]
    BY <2>1, <2>3
  <2> QED BY <2>2, <2>3, <2>4, <1>0, ContinueKept
<1>7. CASE ReloadPop
  <2>1. reload'.at = "prewarm" /\ UNCHANGED live
    BY <1>7 DEF ReloadPop
  <2> QED BY <1>1, <2>1
<1>8. CASE ReloadPrewarm
  <2>1. reload.at = "prewarm" /\ UNCHANGED live
    BY <1>8 DEF ReloadPrewarm
  <2>2. reload = [at |-> reload.at, add |-> reload.add]
    BY <2>1 DEF LiveInv, ReloadTyped, ReloadShape, NoReload
  <2>3. reload'.at \in {"prewarm", "none"}
    BY <1>8, <2>1, <2>2 DEF ReloadPrewarm, NoReload
  <2> QED BY <1>1, <2>1, <2>3
<1> QED BY <1>2, <1>3, <1>4, <1>5, <1>6, <1>7, <1>8

\* A finish that goes through: its own account is kept if the overlay was written
\* and no reload is under way; the others stay what they were.
LEMMA InstallKeeps ==
  ASSUME LiveInv, KeptInv, up, up' = up, NEW n \in Names, NEW f \in Flows, NEW tag,
         tag \in DOMAIN users \cup {Nil}, cred' = [cred EXCEPT ![n] = f],
         accounts' = Put(accounts, n, tag),
         users' = IF tag = Nil THEN users ELSE [users EXCEPT ![tag] = @ \cup {n}],
         WriteOverlay /\ Keeps(n), reload' = reload
  PROVE  KeptInv'
<1>1. /\ DOMAIN users' = DOMAIN users
      /\ \A k \in DOMAIN users : users[k] \subseteq users'[k]
      /\ tag # Nil => tag \in DOMAIN users' /\ n \in users'[tag]
  BY InstalledInPool
<1>2. f # Nil /\ cred'[n] = f /\ (\A m \in Names \ {n} : cred'[m] = cred[m])
  BY KeyFacts DEF LiveInv
<1>3. n \in DOMAIN accounts' /\ accounts'[n] = tag
  <2>1. n \in DOMAIN Put(accounts, n, tag) /\ Put(accounts, n, tag)[n] = tag
    BY PutAt
  <2> QED BY <2>1
<1>4. ASSUME NEW m \in kept, m # n
      PROVE  /\ m \in DOMAIN accounts' /\ accounts'[m] = overlay[m]
             /\ m \in DOMAIN overlay' /\ overlay'[m] = overlay[m]
  <2>1. m \in DOMAIN accounts /\ accounts[m] = overlay[m] /\ m \in DOMAIN overlay
    BY DEF KeptInv
  <2>2. m \in DOMAIN Put(accounts, n, tag) /\ Put(accounts, n, tag)[m] = accounts[m]
    BY <1>4, <2>1, PutElse
  <2> QED BY <2>1, <2>2 DEF WriteOverlay
<1>5. ASSUME NEW m \in kept', m # n
      PROVE  /\ m \in kept /\ m \in Names /\ overlay'[m] \in Keys \cup {Nil}
             /\ cred'[m] # Nil /\ InPool(m, users)'
             /\ Installing => InPool(m, reload.new.users)'
  <2>1. m \in kept
    BY <1>5 DEF Keeps
  <2>2. m \in Names /\ overlay'[m] = overlay[m]
    BY <2>1, <1>4, <1>5 DEF LiveInv
  <2>3. overlay[m] \in Keys \cup {Nil} /\ cred[m] # Nil /\ InPool(m, users)
        /\ (Installing => InPool(m, reload.new.users))
    BY <2>1 DEF KeptInv
  <2> QED BY <2>1, <2>2, <2>3, <1>1, <1>2, <1>5 DEF InPool
<1>6. n \in kept' => overlay' = accounts' /\ reload' = NoReload
  BY DEF Keeps, Busy
<1>7. n \in kept' => /\ n \in DOMAIN overlay' /\ overlay'[n] = tag
                     /\ InPool(n, users)' /\ reload'.at = "none"
  BY <1>1, <1>3, <1>6 DEF InPool, NoReload
<1>8. tag \in Keys \cup {Nil}
  BY DEF LiveInv, IsPools
<1>9. ASSUME NEW m \in kept'
      PROVE  /\ m \in DOMAIN overlay' /\ overlay'[m] \in Keys \cup {Nil}
             /\ cred'[m] # Nil
             /\ m \in DOMAIN accounts' /\ accounts'[m] = overlay'[m]
             /\ InPool(m, users)'
             /\ Installing' =>
                  /\ m \in DOMAIN reload'.new.accounts
                  /\ reload'.new.accounts[m] = overlay'[m]
                  /\ InPool(m, reload.new.users)'
             /\ reload'.at \in {"adding", "starting", "removing"} =>
                  m \notin reload'.add \cup reload'.remove
             /\ reload'.at = "removing" => m # reload'.name
  <2>1. CASE m = n
    BY <2>1, <1>2, <1>3, <1>7, <1>8, <1>9 DEF Installing
  <2>2. CASE m # n
    BY <2>2, <1>4, <1>5, <1>9 DEF KeptInv, Installing
  <2> QED BY <2>1, <2>2
<1> QED BY <1>9 DEF KeptInv

\* Logins, deletions of other accounts, reloads, edits and restarts keep it.
LEMMA KeptStep ==
  ASSUME DbPath, Idle, LoginInv, LiveInv, KeptInv, [Next]_vars
  PROVE  KeptInv'
<1>1. ASSUME NEW n \in Names, Login(n) \/ DeleteAsk(n) \/ Route(n) PROVE KeptInv'
  BY <1>1, KeptStill DEF Login, Begin, Drop, FinishAsk, DeleteAsk, Route, disk, live, others
<1>2. ASSUME NEW f \in Flows, Spawn(f) \/ Spawned(f) PROVE KeptInv'
  BY <1>2, KeptStill DEF Spawn, Spawned, disk, live, others
<1>3. ASSUME NEW g \in Finishes, FinishPop(g) \/ FinishFails(g) \/ FinishSpawn(g)
      PROVE  KeptInv'
  BY <1>3, KeptStill DEF FinishPop, FinishFails, FinishSpawn, disk, live, others
<1>4. ASSUME NEW g \in Finishes, FinishInstall(g) PROVE KeptInv'
  <2>0. up
    BY <1>4 DEF Idle, FinishInstall
  <2>1. PICK n \in Names, f \in Flows : \E tag :
          /\ cred' = [cred EXCEPT ![n] = f]
          /\ \/ UNCHANGED <<overlay, live, kept, raced>>
             \/ /\ tag \in DOMAIN users \cup {Nil}
                /\ accounts' = Put(accounts, n, tag)
                /\ users' = IF tag = Nil THEN users
                            ELSE [users EXCEPT ![tag] = @ \cup {n}]
                /\ WriteOverlay /\ Keeps(n)
          /\ UNCHANGED <<reload, up>>
    BY <1>4, InstallFacts
  <2>2. PICK tag :
          /\ cred' = [cred EXCEPT ![n] = f]
          /\ \/ UNCHANGED <<overlay, live, kept, raced>>
             \/ /\ tag \in DOMAIN users \cup {Nil}
                /\ accounts' = Put(accounts, n, tag)
                /\ users' = IF tag = Nil THEN users
                            ELSE [users EXCEPT ![tag] = @ \cup {n}]
                /\ WriteOverlay /\ Keeps(n)
          /\ UNCHANGED <<reload, up>>
    BY <2>1
  <2>3. CASE UNCHANGED <<overlay, live, kept, raced>>
    <3>1. \A m \in Names : cred[m] # Nil => cred'[m] # Nil
      BY <2>2, KeyFacts DEF LiveInv
    <3> QED BY <2>2, <2>3, <3>1, KeptStill DEF LiveInv
  <2>4. CASE /\ tag \in DOMAIN users \cup {Nil}
             /\ accounts' = Put(accounts, n, tag)
             /\ users' = IF tag = Nil THEN users
                         ELSE [users EXCEPT ![tag] = @ \cup {n}]
             /\ WriteOverlay /\ Keeps(n)
    BY <2>2, <2>4, <2>0, InstallKeeps
  <2> QED BY <2>2, <2>3, <2>4
<1>5. ASSUME NEW n \in Names, DeleteEnd(n) PROVE KeptInv'
  <2>1. /\ accounts' = [m \in DOMAIN accounts \ {n} |-> accounts[m]]
        /\ users' = [k \in {x \in DOMAIN users : Pruned(n)[x] # {}} |-> Pruned(n)[k]]
        /\ WriteOverlay /\ kept' = kept \ ({n} \cup Extends(n))
        /\ cred' = [cred EXCEPT ![n] = Nil]
        /\ UNCHANGED <<reload, up>> /\ up
    BY <1>5 DEF DeleteEnd, Idle
  <2>2. kept' = kept \ ({n} \cup Extends(n)) /\ overlay' \in {overlay, accounts'}
    BY <2>1 DEF WriteOverlay
  <2>3. ASSUME NEW m \in kept'
        PROVE  /\ m \in kept /\ m \in Names /\ m # n /\ m \notin Extends(n)
               /\ m \in DOMAIN accounts' /\ accounts'[m] = accounts[m]
               /\ cred'[m] = cred[m]
    BY <2>1, <2>2 DEF LiveInv, KeptInv
  <2>4. ASSUME NEW m \in kept'
        PROVE  m \in DOMAIN overlay' /\ overlay'[m] = overlay[m]
               /\ accounts'[m] = overlay[m]
    BY <2>1, <2>2, <2>3 DEF KeptInv
  <2>5. ASSUME NEW m \in kept' PROVE InPool(m, users)'
    <3> SUFFICES ASSUME overlay[m] # Nil
                 PROVE  overlay[m] \in DOMAIN users' /\ m \in users'[overlay[m]]
      BY <2>4 DEF InPool
    <3>1. PICK k : k = overlay[m]
      OBVIOUS
    <3>2. k \in DOMAIN users /\ m \in users[k]
      BY <2>1, <2>3, <3>1 DEF KeptInv, InPool
    <3>3. m \in Pruned(n)[k]
      BY <2>3, <3>2 DEF Pruned
    <3>4. k \in DOMAIN users' /\ users'[k] = Pruned(n)[k]
      BY <2>1, <3>2, <3>3
    <3> QED BY <3>1, <3>3, <3>4
  <2>6. /\ reload' = reload
        /\ \A m \in kept' : overlay[m] \in Keys \cup {Nil} /\ cred'[m] # Nil
    BY <2>1, <2>3 DEF KeptInv
  <2>7. ASSUME NEW m \in kept', Installing
        PROVE  /\ m \in DOMAIN reload.new.accounts
               /\ reload.new.accounts[m] = overlay[m]
               /\ InPool(m, reload.new.users)'
    BY <2>3, <2>4, <2>6, <2>7 DEF KeptInv, InPool
  <2>8. ASSUME NEW m \in kept'
        PROVE  /\ reload.at \in {"adding", "starting", "removing"} =>
                    m \notin reload.add \cup reload.remove
               /\ reload.at = "removing" => m # reload.name
    BY <2>3 DEF KeptInv
  <2> QED BY <2>3, <2>4, <2>5, <2>6, <2>7, <2>8 DEF KeptInv, Installing
<1>6. ASSUME NEW y \in Yamls, EditYaml(y) PROVE KeptInv'
  <2>1. \A m \in Names : cred[m] # Nil => cred'[m] # Nil
    BY <1>6 DEF EditYaml
  <2> QED BY <1>6, <2>1, KeptStill DEF EditYaml, LiveInv
<1>7. CASE Restart
  <2>1. /\ up' => accounts' = Load.accounts /\ users' = Load.users
        /\ reload' = NoReload /\ UNCHANGED <<overlay, cred, kept>>
    BY <1>7 DEF Restart, disk
  <2>2. PICK new : new = Load
    OBVIOUS
  <2>3. \A n \in kept : n \in DOMAIN new.accounts /\ new.accounts[n] = overlay[n]
                        /\ InPool(n, new.users)
    BY <2>2, LoadKeeps
  <2>4. reload'.at = "none"
    BY <2>1 DEF NoReload
  <2> QED BY <2>1, <2>2, <2>3, <2>4 DEF KeptInv, InPool, Installing
<1>8. CASE UNCHANGED vars
  BY <1>8, KeptStill DEF vars, live
<1> QED BY <1>1, <1>2, <1>3, <1>4, <1>5, <1>6, <1>7, <1>8, ReloadKeeps DEF Next

\* write_runtime_accounts and Config.load: where config.yaml names the database,
\* an account whose login was finished and written, outside a reload, stays until
\* it is deleted, or another that its name extends (whose deletion prunes it): the
\* overlay it is in goes over config.yaml at every start, and every reload under
\* way was read with it there.
THEOREM KeptAccountsStay == Spec => []NeverDropped
<1>1. CASE DbPath
  <2>1. Init => LoginInv /\ LiveInv /\ Idle /\ KeptInv
    <3>1. Init => Idle /\ KeptInv
      BY DEF Init, Idle, KeptInv
    <3> QED BY <3>1, LiveInit
  <2>2. LoginInv /\ LiveInv /\ Idle /\ KeptInv /\ [Next]_vars
          => (LoginInv /\ LiveInv /\ Idle /\ KeptInv)'
    BY <1>1, LoginStep, LiveStep, IdleStep, KeptStep DEF LiveInv
  <2>3. KeptInv => NeverDropped
    BY DEF KeptInv, NeverDropped, InPool
  <2> QED BY <2>1, <2>2, <2>3, PTL DEF Spec
<1>2. CASE ~DbPath
  <2>1. NeverDropped
    BY <1>2 DEF NeverDropped
  <2> QED BY <2>1, PTL
<1> QED BY <1>1, <1>2

=============================================================================
