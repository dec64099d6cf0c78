------------------------------- MODULE Accounts -------------------------------
(***************************************************************************)
(* Accounts that come and go while the proxy runs: logins from the         *)
(* dashboard (src/src/oauth_login.py, begin/finish/abort of                *)
(* src/src/api/admin.py), delete_account, /admin/reload, and what a start  *)
(* reads back (src/src/config.py): config.yaml, which the operator edits,  *)
(* under the overlay accounts.runtime.yaml, which the proxy writes.        *)
(*                                                                         *)
(* The live configuration is two dicts that all of them change, each in    *)
(* its own order and with awaits in between.  An account has one worker,   *)
(* with the name of the account; a spawn that fails leaves none.  Bounds:  *)
(* one reload at a time.  Out: worker counts, priorities and the settings  *)
(* a reload changes in place.                                              *)
(***************************************************************************)
EXTENDS Naturals

CONSTANTS
  Names,      \* account names
  ApiKey,     \* config.api_key
  Yamls,      \* what the operator may have in config.yaml
  Flows,      \* POST /admin/accounts/new
  Finishes,   \* POST /admin/accounts/new/{name}/finish
  MAX_OPS,    \* bound: edits, deletions, reloads and restarts together
  DbPath,     \* whether config.yaml has a usage.db_path
  Extends(_)  \* the names that begin with that name and a hyphen

Nil == "nil"
Unset == "unset"   \* a login that names no pool
Skip == "skip"     \* pool "": the operator wires it
Keys == (UNION {DOMAIN y.users : y \in Yamls}) \cup {ApiKey}

\* An edit adds and removes accounts; it keeps the keys.
ASSUME AccountsAssumption ==
  /\ MAX_OPS \in Nat
  /\ DbPath \in BOOLEAN
  /\ {Nil, Unset, Skip} \cap (Keys \cup Flows) = {}
  /\ \A x, y \in Yamls : DOMAIN x.users = DOMAIN y.users
  /\ \A y \in Yamls : DOMAIN y.accounts # {} /\ DOMAIN y.accounts \subseteq Names
  /\ \A y \in Yamls : \A k \in DOMAIN y.users : y.users[k] \subseteq Names

VARIABLES
  yaml,      \* config.yaml
  overlay,   \* accounts.runtime.yaml: each account's pool tag
  accounts,  \* config.accounts, likewise
  users,     \* config.users: the workers each key may use
  cred,      \* whose login the account's directory holds
  sessions,  \* workers in the table of the manager
  watched,   \* accounts whose credentials the refresher walks
  up,        \* the process runs
  registry,  \* LoginRegistry._sessions
  rlock,     \* LoginRegistry._lock: the begin that holds it
  flow,      \* each LoginSession: its account, its pool, where it is
  fin,       \* each finish request
  stopping,  \* accounts in delete_account, and whether a worker was found
  reload,    \* the reload in progress
  ops,       \* edits, deletions, reloads and restarts so far
  kept,      \* history: logins finished for good, outside any reload
  raced      \* history: a reload met a finish or a delete since the start

live == <<accounts, users>>
login == <<registry, rlock, flow, fin>>
vars == <<yaml, overlay, live, cred, sessions, watched, up, login, stopping,
          reload, ops, kept, raced>>

NoReload == [at |-> "none"]

\* f, and g where f is not defined.
Over(f, g) == [x \in DOMAIN f \cup DOMAIN g |-> IF x \in DOMAIN f THEN f[x] ELSE g[x]]
\* f with x set to e.
Put(f, x, e) == Over([y \in {x} |-> e], f)

-----------------------------------------------------------------------------
(* Config.load and its validator.                                          *)

Listed(us) == UNION {us[k] : k \in DOMAIN us}

\* Mutant: the tags are applied before the api key gets its pool.
WiredTagsFirst(y, acc) ==
  LET tagged == [k \in DOMAIN y.users |->
                   y.users[k] \cup {n \in DOMAIN acc : acc[n] = k}]
      filled == Over(tagged, [k \in {ApiKey} |-> DOMAIN acc])
  IN [accounts |-> acc, users |-> filled,
      ok |-> /\ \A n \in DOMAIN acc : acc[n] \in DOMAIN tagged \cup {Nil}
             /\ Listed(filled) \subseteq DOMAIN acc]

\* _wire_accounts: a pool for the api key if it has none, then the tags; every
\* tag is a key and every listed worker has an account.
Wired(y, acc) ==
  LET filled == Over(y.users, [k \in {ApiKey} |-> DOMAIN acc])
      tagged == [k \in DOMAIN filled |->
                   filled[k] \cup {n \in DOMAIN acc : acc[n] = k}]
  IN [accounts |-> acc, users |-> tagged,
      ok |-> /\ \A n \in DOMAIN acc : acc[n] \in DOMAIN filled \cup {Nil}
             /\ Listed(tagged) \subseteq DOMAIN acc]

\* The overlay is written beside the database in use, and looked for beside the
\* one config.yaml names: without a name these are ./data and /data/proxy, and
\* nobody writes the second.
Read == IF DbPath THEN overlay ELSE <<>>

\* Mutant: config.yaml wins.
LoadYamlWins == Wired(yaml, Over(yaml.accounts, Read))

\* The overlay wins.
Load == Wired(yaml, Over(Read, yaml.accounts))

Places == {"new", "asked", "spawning", "failed", "open", "popped", "over", "used"}

TypeOK ==
  /\ yaml \in Yamls
  /\ DOMAIN overlay \subseteq Names /\ DOMAIN accounts \subseteq Names
  /\ \A n \in DOMAIN accounts : accounts[n] \in Keys \cup {Nil}
  /\ DOMAIN users \subseteq Keys /\ Listed(users) \subseteq Names
  /\ cred \in [Names -> Flows \cup {"old", Nil}]
  /\ sessions \subseteq Names
  /\ watched \subseteq Names
  /\ up \in BOOLEAN
  /\ registry \in [Names -> Flows \cup {Nil}]
  /\ \A n \in Names : registry[n] # Nil =>
       flow[registry[n]].at = "open" /\ flow[registry[n]].name = n
  /\ rlock \in Flows \cup {Nil}
  /\ \A f \in Flows : flow[f].at \in Places /\ (f = rlock <=> flow[f].at = "spawning")
  /\ \A g \in Finishes : fin[g].at \in {"new", "waiting", "exchange", "spawn", "starting", "over"}
  /\ DOMAIN stopping \subseteq Names
  /\ kept \subseteq Names

Init ==
  /\ yaml \in Yamls
  /\ overlay = <<>>
  /\ Load.ok
  /\ accounts = Load.accounts
  /\ users = Load.users
  /\ cred = [n \in Names |-> IF n \in DOMAIN accounts THEN "old" ELSE Nil]
  /\ sessions = Listed(users)
  /\ watched = DOMAIN accounts
  /\ up = TRUE
  /\ registry = [n \in Names |-> Nil]
  /\ rlock = Nil
  /\ flow = [f \in Flows |-> [at |-> "new"]]
  /\ fin = [g \in Finishes |-> [at |-> "new"]]
  /\ stopping = <<>>
  /\ reload = NoReload
  /\ ops = 0
  /\ kept = {}
  /\ raced = FALSE

disk == <<yaml, overlay, cred>>
others == <<sessions, watched, up, stopping, reload, ops, kept, raced>>

Busy == reload # NoReload
Operation == ops < MAX_OPS /\ ops' = ops + 1
FlowTo(f, at) == [flow EXCEPT ![f].at = at]

-----------------------------------------------------------------------------
(* The login flows.                                                        *)

\* begin_account_login: the name is free and so is the directory, for now.
Begin(f, n, k) ==
  /\ up
  /\ flow[f].at = "new"
  /\ n \notin DOMAIN accounts
  /\ cred[n] = Nil
  /\ k \in DOMAIN users \cup {Unset, Skip}
  /\ flow' = [flow EXCEPT ![f] = [at |-> "asked", name |-> n, key |-> k]]
  /\ UNCHANGED <<disk, live, registry, rlock, fin, others>>

\* LoginRegistry.begin gets the lock, and keeps it while the CLI starts.
Spawn(f) ==
  /\ flow[f].at = "asked"
  /\ rlock = Nil
  /\ \/ /\ registry[flow[f].name] = Nil
        /\ rlock' = f
        /\ flow' = FlowTo(f, "spawning")
     \/ /\ registry[flow[f].name] # Nil
        /\ flow' = FlowTo(f, "failed")
        /\ UNCHANGED rlock
  /\ UNCHANGED <<disk, live, registry, fin, others>>

\* The URL is on the screen; or 20 s pass, or the CLI does not start.
Spawned(f) ==
  /\ flow[f].at = "spawning"
  /\ rlock' = Nil
  /\ \/ /\ registry' = [registry EXCEPT ![flow[f].name] = f]
        /\ flow' = FlowTo(f, "open")
     \/ /\ flow' = FlowTo(f, "failed")
        /\ UNCHANGED registry
  /\ UNCHANGED <<disk, live, fin, others>>

\* abort, or the sweeper after 600 s.
Drop(n) ==
  /\ registry[n] # Nil
  /\ rlock = Nil
  /\ registry' = [registry EXCEPT ![n] = Nil]
  /\ flow' = FlowTo(registry[n], "over")
  /\ UNCHANGED <<disk, live, rlock, fin, others>>

\* finish_account_login, up to the lock: the pool of the flow that is open now,
\* and the code the operator got from the URL of some flow of this name.
FinishAsk(g, n, code) ==
  /\ up
  /\ fin[g].at = "new"
  /\ flow[code].at \in {"open", "popped", "over"}
  /\ flow[code].name = n
  /\ fin' = [fin EXCEPT ![g] =
       [at |-> "waiting", name |-> n, code |-> code,
        key |-> IF registry[n] = Nil THEN Unset ELSE flow[registry[n]].key]]
  /\ UNCHANGED <<disk, live, registry, rlock, flow, others>>

\* A finish that has popped its flow.
Popped(g, f) ==
  [at |-> "exchange", flow |-> f, name |-> fin[g].name, code |-> fin[g].code,
   key |-> fin[g].key]

\* Mutant: the flow is looked up and stays registered.
FinishPopKeeps(g) ==
  LET n == fin[g].name
  IN /\ fin[g].at = "waiting"
     /\ rlock = Nil
     /\ \/ /\ registry[n] = Nil
           /\ fin' = [fin EXCEPT ![g].at = "over"]
           /\ UNCHANGED flow
        \/ /\ registry[n] # Nil
           /\ fin' = [fin EXCEPT ![g] = Popped(g, registry[n])]
           /\ flow' = FlowTo(registry[n], "popped")
     /\ UNCHANGED <<disk, live, registry, rlock, others>>

\* LoginRegistry.finish pops the flow that is open by then, or answers 404.
FinishPop(g) ==
  LET n == fin[g].name
  IN /\ fin[g].at = "waiting"
     /\ rlock = Nil
     /\ \/ /\ registry[n] = Nil
           /\ fin' = [fin EXCEPT ![g].at = "over"]
           /\ UNCHANGED <<registry, flow>>
        \/ /\ registry[n] # Nil
           /\ fin' = [fin EXCEPT ![g] = Popped(g, registry[n])]
           /\ registry' = [registry EXCEPT ![n] = Nil]
           /\ flow' = FlowTo(registry[n], "popped")
     /\ UNCHANGED <<disk, live, rlock, others>>

\* The CLI hangs, exits with an error (the code of another flow), or leaves no
\* credentials.
FinishFails(g) ==
  /\ fin[g].at = "exchange"
  /\ fin' = [fin EXCEPT ![g].at = "over"]
  /\ flow' = FlowTo(fin[g].flow, "over")
  /\ UNCHANGED <<disk, live, registry, rlock, others>>

\* LoginSession.finish, when the CLI has exited: what it left moves into the
\* directory, whoever lives there.
Installs(g) ==
  /\ cred' = [cred EXCEPT ![fin[g].name] = fin[g].flow]
  /\ flow' = FlowTo(fin[g].flow, "used")

\* The tag of an account whose login asked for key.
Effective(key) ==
  CASE key = Skip -> Nil
    [] key = Unset -> IF ApiKey \in DOMAIN users THEN ApiKey ELSE Nil
    [] OTHER -> key

\* write_runtime_accounts: all accounts; an error is only logged.
WriteOverlay == overlay' \in {accounts', overlay}

\* An account is kept from a finish that has written it until a deletion or a
\* finish that touches it.
Keeps(n) == kept' = IF overlay' = accounts' /\ ~Busy THEN kept \cup {n} ELSE kept \ {n}

\* Mutant: the pool is asked for when the flow is gone.
FinishInstallLate(g) ==
  LET n == fin[g].name
      tag == Effective(IF registry[n] = Nil THEN Unset ELSE flow[registry[n]].key)
  IN /\ fin[g].at = "exchange"
     /\ fin[g].code = fin[g].flow
     /\ Installs(g)
     /\ accounts' = Put(accounts, n, tag)
     /\ users' = IF tag = Nil THEN users ELSE [users EXCEPT ![tag] = @ \cup {n}]
     /\ WriteOverlay /\ Keeps(n)
     /\ fin' = [fin EXCEPT ![g].at = "spawn"]
     /\ raced' = (raced \/ Busy)
     /\ UNCHANGED <<yaml, sessions, watched, up, registry, rlock, stopping, reload, ops>>

\* The credentials are installed and the account is wired, in one stretch.  A
\* pool that is gone by now is an error, with the credentials in place.
FinishInstall(g) ==
  LET n == fin[g].name
      tag == Effective(fin[g].key)
  IN /\ fin[g].at = "exchange"
     /\ fin[g].code = fin[g].flow
     /\ Installs(g)
     /\ \/ /\ tag \notin DOMAIN users \cup {Nil}
           /\ fin' = [fin EXCEPT ![g].at = "over"]
           /\ UNCHANGED <<overlay, live, kept, raced>>
        \/ /\ tag \in DOMAIN users \cup {Nil}
           /\ accounts' = Put(accounts, n, tag)
           /\ users' = IF tag = Nil THEN users
                       ELSE [users EXCEPT ![tag] = @ \cup {n}]
           /\ WriteOverlay /\ Keeps(n)
           /\ fin' = [fin EXCEPT ![g].at = "spawn"]
           /\ raced' = (raced \/ Busy)
     /\ UNCHANGED <<yaml, sessions, watched, up, registry, rlock, stopping,
                    reload, ops>>

\* spawn_account registers the worker under the manager's lock, and starts it;
\* the quota probe is told in the end, the refresher is not.
FinishSpawn(g) ==
  /\ \/ /\ fin[g].at = "spawn"
        /\ fin' = [fin EXCEPT ![g].at = "starting"]
        /\ sessions' = sessions \cup {fin[g].name}
     \/ /\ fin[g].at = "starting"
        /\ fin' = [fin EXCEPT ![g].at = "over"]
        /\ sessions' \in {sessions, sessions \ {fin[g].name}}
  /\ UNCHANGED <<disk, live, registry, rlock, flow, watched, up, stopping,
                 reload, ops, kept, raced>>

-----------------------------------------------------------------------------
(* delete_account.                                                         *)

DeleteAsk(n) ==
  /\ up
  /\ n \in DOMAIN accounts \ DOMAIN stopping
  /\ Operation
  /\ stopping' = Put(stopping, n, n \in sessions)
  /\ UNCHANGED <<disk, live, sessions, watched, up, login, reload, kept, raced>>

Stopped(n, found) == IF found THEN sessions \ {n} ELSE sessions

Pruned(n) == [k \in DOMAIN users |-> users[k] \ ({n} \cup Extends(n))]

\* The workers found are stopped; the rest is one stretch: the account leaves
\* the config and the pools, by prefix, an empty pool goes, the overlay is
\* written and the directory removed.
DeleteEnd(n) ==
  /\ n \in DOMAIN stopping
  /\ stopping' = [m \in DOMAIN stopping \ {n} |-> stopping[m]]
  /\ sessions' = Stopped(n, stopping[n])
  /\ accounts' = [m \in DOMAIN accounts \ {n} |-> accounts[m]]
  /\ users' = [k \in {x \in DOMAIN users : Pruned(n)[x] # {}} |-> Pruned(n)[k]]
  /\ WriteOverlay
  /\ kept' = kept \ ({n} \cup Extends(n))
  /\ cred' = [cred EXCEPT ![n] = Nil]
  /\ raced' = (raced \/ Busy)
  /\ UNCHANGED <<yaml, watched, up, login, reload, ops>>

-----------------------------------------------------------------------------
(* /admin/reload: the new configuration is read once, then applied over    *)
(* awaits.                                                                 *)

aside == <<disk, watched, up, login, stopping, kept, raced>>

ReloadBegin ==
  /\ up
  /\ ~Busy
  /\ Load.ok
  /\ Operation
  /\ reload' = [at |-> "oauth", new |-> Load]
  /\ UNCHANGED <<live, sessions, aside>>

\* The stretch up to the next await: one more account is installed and spawned,
\* or stopped; with none left, the pools are swapped.
Continue(acc, add, remove) ==
  \/ \E n \in add :
       /\ accounts' = Put(acc, n, reload.new.accounts[n])
       /\ reload' = [at |-> "adding", new |-> reload.new, name |-> n,
                     add |-> add \ {n}, remove |-> remove]
       /\ UNCHANGED users
  \/ /\ add = {}
     /\ \E n \in remove :
          /\ accounts' = acc
          /\ reload' = [at |-> "removing", new |-> reload.new, name |-> n,
                        found |-> n \in sessions,
                        add |-> {}, remove |-> remove \ {n}]
          /\ UNCHANGED users
  \/ /\ add = {} /\ remove = {}
     /\ accounts' = acc
     /\ users' = reload.new.users
     /\ reload' = [at |-> "swapped",
                   gone |-> Listed(users) \ Listed(users'),
                   add |-> Listed(users') \ Listed(users)]

ReloadDiff ==
  /\ reload.at = "oauth"
  /\ Continue(accounts, DOMAIN reload.new.accounts \ DOMAIN accounts,
              DOMAIN accounts \ DOMAIN reload.new.accounts)
  /\ UNCHANGED <<sessions, ops, aside>>

ReloadSpawn ==
  /\ reload.at = "adding"
  /\ sessions' = sessions \cup {reload.name}
  /\ reload' = [reload EXCEPT !.at = "starting"]
  /\ UNCHANGED <<live, ops, aside>>

ReloadAdded ==
  /\ reload.at = "starting"
  /\ sessions' \in {sessions, sessions \ {reload.name}}
  /\ Continue(accounts, reload.add, reload.remove)
  /\ UNCHANGED <<ops, aside>>

ReloadRemoved ==
  /\ reload.at = "removing"
  /\ sessions' = Stopped(reload.name, reload.found)
  /\ Continue([m \in DOMAIN accounts \ {reload.name} |-> accounts[m]],
              reload.add, reload.remove)
  /\ UNCHANGED <<ops, aside>>

\* Under the manager's lock, the workers no pool lists any more.
ReloadPop ==
  /\ reload.at = "swapped"
  /\ sessions' = sessions \ reload.gone
  /\ reload' = [at |-> "prewarm", add |-> reload.add]
  /\ UNCHANGED <<live, ops, aside>>

ReloadPrewarm ==
  /\ reload.at = "prewarm"
  /\ \/ \E n \in reload.add :
          /\ sessions' \in {sessions, sessions \cup {n}}
          /\ reload' = [reload EXCEPT !.add = @ \ {n}]
     \/ /\ reload.add = {}
        /\ reload' = NoReload
        /\ UNCHANGED sessions
  /\ UNCHANGED <<live, ops, aside>>

-----------------------------------------------------------------------------
\* A request whose key lists the worker finds none and creates it.
Route(n) ==
  /\ up
  /\ n \in Listed(users) \ sessions
  /\ sessions' = sessions \cup {n}
  /\ UNCHANGED <<disk, live, watched, up, login, stopping, reload, ops, kept,
                 raced>>

\* With the directory of each account that is entered.
EditYaml(y) ==
  /\ yaml # y
  /\ Operation
  /\ yaml' = y
  /\ cred' = [n \in Names |->
                IF n \in DOMAIN y.accounts \ DOMAIN yaml.accounts /\ cred[n] = Nil
                THEN "old" ELSE cred[n]]
  /\ UNCHANGED <<overlay, live, sessions, watched, up, login, stopping, reload,
                 kept, raced>>

\* The process ends, at any await, and is started again: it comes up with what
\* the files say, or it does not come up before somebody starts it once more.
Restart ==
  /\ Operation
  /\ up' = Load.ok
  /\ accounts' = IF Load.ok THEN Load.accounts ELSE <<>>
  /\ users' = IF Load.ok THEN Load.users ELSE <<>>
  /\ sessions' = Listed(users')
  /\ watched' = DOMAIN accounts'
  /\ registry' = [n \in Names |-> Nil]
  /\ rlock' = Nil
  /\ flow' = [f \in Flows |-> IF flow[f].at = "new" THEN flow[f]
                              ELSE [at |-> "failed"]]
  /\ fin' = [g \in Finishes |-> IF fin[g].at = "new" THEN fin[g]
                                ELSE [at |-> "over"]]
  /\ stopping' = <<>>
  /\ reload' = NoReload
  /\ raced' = FALSE
  /\ UNCHANGED <<disk, kept>>

Login(n) ==
  \/ \E f \in Flows, k \in Keys \cup {Unset, Skip} : Begin(f, n, k)
  \/ Drop(n)
  \/ \E g \in Finishes, f \in Flows : FinishAsk(g, n, f)

Next ==
  \/ \E n \in Names : Login(n) \/ DeleteAsk(n) \/ DeleteEnd(n) \/ Route(n)
  \/ \E f \in Flows : Spawn(f) \/ Spawned(f)
  \/ \E g \in Finishes :
       FinishPop(g) \/ FinishFails(g) \/ FinishInstall(g) \/ FinishSpawn(g)
  \/ ReloadBegin \/ ReloadDiff \/ ReloadSpawn \/ ReloadAdded \/ ReloadRemoved
  \/ ReloadPop \/ ReloadPrewarm
  \/ \E y \in Yamls : EditYaml(y)
  \/ Restart

Spec == Init /\ [][Next]_vars

-----------------------------------------------------------------------------
\* Config.load refuses config.yaml for what it says itself: a tag that is no key,
\* or a worker of an account that neither file has.
YamlAtFault ==
  \/ \E n \in DOMAIN yaml.accounts :
       yaml.accounts[n] \notin DOMAIN yaml.users \cup {ApiKey, Nil}
  \/ ~(Listed(yaml.users) \subseteq DOMAIN Load.accounts)

\* Whatever logins, deletions and reloads have written, it is never a reason for
\* which the process does not start: only config.yaml is, and it also is when it
\* lists the workers of a dashboard account (pool "": the operator wires it by
\* hand) that has since been deleted.  And the live pools are ones the validator
\* of the start would take, unless a reload met a finish or a delete, or is
\* removing accounts.
ConfigValid ==
  /\ Load.ok \/ YamlAtFault
  /\ raced \/ reload.at = "removing" \/ Listed(users) \subseteq DOMAIN accounts

\* Where config.yaml names the database, an account whose login was finished and
\* written, outside a reload, stays until it is deleted, or one whose name it
\* extends (PrunesOwn): in the overlay, and in a running process in the live
\* configuration and the pool of its tag, over restarts, reloads, edits of
\* config.yaml, manual wiring and the fate of the others.
NeverDropped ==
  DbPath =>
    \A n \in kept :
      /\ n \in DOMAIN overlay
      /\ cred[n] # Nil
      /\ up => /\ n \in DOMAIN accounts
               /\ accounts[n] = overlay[n]
               /\ accounts[n] # Nil => n \in users[accounts[n]]

\* An account gets the pool its own login asked for, though a finish reads the
\* pool before it waits for the lock, and the flow it read may be aborted and
\* another one begun while it waits.
InstalledAsChosen ==
  [][\A n \in Names :
       cred'[n] # cred[n] /\ cred'[n] \in Flows /\ accounts' # accounts
         => accounts'[n] = Effective(flow[cred'[n]].key)]_vars

-----------------------------------------------------------------------------
(* What the code says and does not do.                                     *)

\* "The refresher walks every configured path each tick" (oauth_refresh.py:24),
\* "one .credentials.json per account" (main.py:114): an account added later is
\* not walked before the next start.
EveryAccountWatched == DOMAIN accounts \subseteq watched

\* "already has contents - refuse to clobber" (admin.py:428): while a finish runs,
\* a second login of the name may begin, and its finish overwrites the first.
NothingClobbered ==
  [][\A n \in Names : cred'[n] \in Flows => cred[n] \in {Nil, cred'[n]}]_vars

\* "Persist to the runtime overlay so the account survives container restarts
\* without manual config.yaml edits" (admin.py:538): without a db_path in
\* config.yaml no start reads what was persisted.
LoginSurvives == up => kept \subseteq DOMAIN accounts

\* "Stop all workers for an account and remove it from config" (admin.py:585): the
\* workers the operator was told to wire in config.yaml (pool "", admin.py:391)
\* stay listed there, and from then on every start is refused.
StillStarts == [][Load.ok /\ yaml' = yaml => Load.ok']_vars

\* "account is gone for good" (admin.py:587): an account of config.yaml is back
\* after a start, and a reload that overlaps brings back any.
DeletedIsGone ==
  \A n \in Names : cred[n] = Nil => n \notin DOMAIN accounts

\* "otherwise the worker would have no account to symlink to at runtime"
\* (config.py:238): a request recreates a worker while its account is deleted.
NoStrayWorker == sessions \subseteq DOMAIN accounts

\* "Pools are account-disjoint" (admin.py:684): a start gives the pool of the api
\* key every account, also those tagged with another key.
DisjointPools ==
  \A j, k \in DOMAIN users : j # k => users[j] \cap users[k] = {}

\* "account names themselves may contain hyphens" (config.py:344): deleting one
\* account prunes another whose name begins with it.
PrunesOwn ==
  [][\A n \in DOMAIN stopping \ DOMAIN stopping' :
       up' /\ ~raced' /\ DOMAIN accounts' = DOMAIN accounts \ {n} =>
         Listed(users) \ {n} \subseteq Listed(users')]_vars
=============================================================================
