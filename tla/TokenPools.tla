------------------------------ MODULE TokenPools ------------------------------
(***************************************************************************)
(* add_token_to_grok2api_pools (account_outputs.py): the token of a saved  *)
(* account goes to a local JSON file and to a remote grok2api server, each *)
(* if it is enabled, and an error of one is a result, not an exception.    *)
(* Each account has a worker thread of its own.                            *)
(*                                                                         *)
(* The local file is read and replaced under its FileLock, in two actions, *)
(* since the process may die in between.  Requests to the server are one   *)
(* action each.  The cache of the administrator's token is shared by the   *)
(* threads and filled under its lock, login included.                      *)
(*                                                                         *)
(* Abstractions: one pool per file and server; a token is its account; an  *)
(* ETag identifies the content it was served with; an admin token is the   *)
(* number of the session it belongs to, and only the latest is accepted;   *)
(* two files that are found broken do not fall into the same second.       *)
(***************************************************************************)
EXTENDS Naturals, ConfirmedAccounts

CONSTANTS Others,    \* tokens that were in the pools before
          Nobody,    \* holder of a free lock
          MaxLogin   \* bound on the admin sessions of the server

ASSUME PoolsAssumption ==
    /\ Nobody \notin Accounts
    /\ Others \cap Accounts = {}
    /\ MaxLogin \in Nat \ {0}

VARIABLES
    enabled,    \* pools that are enabled
    api,        \* what the server is: the new one ("go"), or an old one with
                \* /tokens/add ("add"), full save only ("save"), or neither
    tokenFile,  \* the local file: its state and tokens
    rootFile,   \* tokens of the file an earlier version kept; none if {}
    aside,      \* tokens in copies that were moved aside as broken
    fileLock,   \* FileLock of the local file
    remote,     \* tokens the server has
    session,    \* the admin session the server accepts
    cached,     \* session of the cached admin token, 0 if none
    held,       \* session of the token each worker sends
    refused,    \* workers whose first attempt got a 401
    seen,       \* tokens each worker has read and is about to write back
    pooling,    \* step of each worker
    result      \* outcome of each pool for each worker

localVars  == <<tokenFile, rootFile, aside, fileLock>>
remoteVars == <<remote, session, cached, held, refused>>
poolVars   == <<enabled, api, localVars, remoteVars, seen, pooling, result>>

Tokens   == Accounts \cup Others
Steps    == {"off", "local", "replace", "remote", "import", "save", "done"}
Outcomes == {"none", "ok", "failed"}

PoolsTypeOK ==
    /\ enabled \subseteq {"local", "remote"}
    /\ api \in {"go", "add", "save", "none"}
    /\ tokenFile \in [state : {"absent", "ok", "broken"}, tokens : SUBSET Tokens]
    /\ rootFile \subseteq Tokens
    /\ aside \subseteq Tokens
    /\ fileLock \in Accounts \cup {Nobody}
    /\ remote \subseteq Tokens
    /\ session \in 1..MaxLogin
    /\ cached \in 0..session
    /\ held \in [Accounts -> 0..session]
    /\ refused \subseteq Accounts
    /\ seen \in [Accounts -> SUBSET Tokens]
    /\ pooling \in [Accounts -> Steps]
    /\ result \in [Accounts -> [local : Outcomes, remote : Outcomes]]

Goto(a, step) == pooling' = [pooling EXCEPT ![a] = step]

LocalResult(a, r) ==
    result' = [result EXCEPT ![a].local = r] /\ Goto(a, "remote")

RemoteResult(a, r) ==
    result' = [result EXCEPT ![a].remote = r] /\ Goto(a, "done")

-----------------------------------------------------------------------------
(* add_token_to_grok2api_local_pool.                                       *)

\* Bug: the file is written without its lock.
FileNotLocked == TRUE

FileFree == fileLock = Nobody

SkipLocal(a) ==
    /\ pooling[a] = "local"
    /\ "local" \notin enabled
    /\ Goto(a, "remote")
    /\ UNCHANGED <<enabled, api, localVars, remoteVars, seen, result>>

\* The file an earlier version kept in the project's directory is moved to
\* its new place unless there is one already.
Migrated ==
    IF rootFile # {} /\ tokenFile.state = "absent"
    THEN [state |-> "ok", tokens |-> rootFile]
    ELSE tokenFile

\* The lock is taken and the file read.  A file that does not parse is moved
\* aside, which may fail; any other error changes nothing.
ReadLocal(a) ==
    /\ pooling[a] = "local"
    /\ "local" \in enabled
    /\ \/ LocalResult(a, "failed") /\ UNCHANGED <<localVars, seen>>
       \/ /\ FileFree
          /\ rootFile' = IF Migrated = tokenFile THEN rootFile ELSE {}
          /\ CASE Migrated.state = "broken" ->
                    /\ \/ /\ tokenFile' = [state |-> "absent", tokens |-> {}]
                          /\ aside' = aside \cup Migrated.tokens
                       \/ tokenFile' = Migrated /\ UNCHANGED aside
                    /\ LocalResult(a, "failed")
                    /\ UNCHANGED <<fileLock, seen>>
               [] a \in Migrated.tokens ->
                    /\ tokenFile' = Migrated
                    /\ LocalResult(a, "ok")
                    /\ UNCHANGED <<aside, fileLock, seen>>
               [] OTHER ->
                    /\ tokenFile' = Migrated
                    /\ fileLock' = a
                    /\ seen' = [seen EXCEPT ![a] = Migrated.tokens]
                    /\ Goto(a, "replace")
                    /\ UNCHANGED <<aside, result>>
    /\ UNCHANGED <<enabled, api, remoteVars>>

\* The backup and the temporary file are written before the file is replaced.
ReplaceLocal(a) ==
    /\ pooling[a] = "replace"
    /\ \/ /\ tokenFile' = [state |-> "ok", tokens |-> seen[a] \cup {a}]
          /\ LocalResult(a, "ok")
       \/ LocalResult(a, "failed") /\ UNCHANGED tokenFile
    /\ fileLock' = Nobody
    /\ seen' = [seen EXCEPT ![a] = {}]
    /\ UNCHANGED <<enabled, api, rootFile, aside, remoteVars>>

\* Somebody edits the file by hand and leaves it unparseable, once.
BreakLocal ==
    /\ tokenFile.state = "ok"
    /\ aside = {}
    /\ tokenFile' = [tokenFile EXCEPT !.state = "broken"]
    /\ UNCHANGED <<enabled, api, rootFile, aside, fileLock, remoteVars, seen, pooling, result>>

-----------------------------------------------------------------------------
(* add_token_to_grok2api_remote_pool.                                      *)

SkipRemote(a) ==
    /\ pooling[a] = "remote"
    /\ "remote" \notin enabled
    /\ Goto(a, "done")
    /\ UNCHANGED <<enabled, api, localVars, remoteVars, seen, result>>

\* A request is carried out and answered, carried out but taken for failed
\* (the answer is lost, or reports a failed synchronisation), or neither.
Send(a, tokens) ==
    \/ remote' = tokens /\ RemoteResult(a, "ok")
    \/ remote' = tokens /\ RemoteResult(a, "failed")
    \/ UNCHANGED remote /\ RemoteResult(a, "failed")

\* _get_grok2api_admin_token: a cached token that is about to expire is
\* replaced like a missing one, and the second attempt always logs in.
GetAdminToken(a) ==
    /\ pooling[a] = "remote"
    /\ "remote" \in enabled
    /\ api = "go"
    /\ \/ /\ cached # 0 /\ a \notin refused
          /\ held' = [held EXCEPT ![a] = cached]
          /\ Goto(a, "import")
          /\ UNCHANGED <<cached, result>>
       \/ /\ cached' = session
          /\ held' = [held EXCEPT ![a] = session]
          /\ Goto(a, "import")
          /\ UNCHANGED result
       \/ RemoteResult(a, "failed") /\ UNCHANGED <<cached, held>>
    /\ UNCHANGED <<enabled, api, localVars, remote, session, refused, seen>>

\* The first 401 clears the cache, whoever filled it meanwhile.
Import(a) ==
    /\ pooling[a] = "import"
    /\ \/ /\ held[a] = session
          /\ Send(a, remote \cup {a})
          /\ UNCHANGED <<cached, refused>>
       \/ /\ held[a] # session
          /\ IF a \in refused
             THEN RemoteResult(a, "failed") /\ UNCHANGED <<cached, refused>>
             ELSE /\ refused' = refused \cup {a}
                  /\ cached' = 0
                  /\ Goto(a, "remote")
                  /\ UNCHANGED result
          /\ UNCHANGED remote
    /\ held' = [held EXCEPT ![a] = 0]
    /\ UNCHANGED <<enabled, api, localVars, session, seen>>

\* The server ends all admin sessions.
Revoke ==
    /\ api = "go"
    /\ session < MaxLogin
    /\ session' = session + 1
    /\ UNCHANGED <<enabled, api, localVars, remote, cached, held, refused, seen, pooling, result>>

\* An old server: /tokens/add, or else the whole pool is read, provided that
\* the configuration allows it and the server sends an ETag.
AddToken(a) ==
    /\ pooling[a] = "remote"
    /\ "remote" \in enabled
    /\ api # "go"
    /\ \/ api = "add" /\ Send(a, remote \cup {a}) /\ UNCHANGED seen
       \/ /\ api = "save"
          /\ seen' = [seen EXCEPT ![a] = remote]
          /\ Goto(a, "save")
          /\ UNCHANGED <<remote, result>>
       \/ RemoteResult(a, "failed") /\ UNCHANGED <<remote, seen>>
    /\ UNCHANGED <<enabled, api, localVars, session, cached, held, refused>>

\* Bug: the pool is saved without If-Match.
AnyMatches(a) == TRUE

\* The server's answer to If-Match.
Matches(a) == remote = seen[a]

SavePool(a) ==
    /\ pooling[a] = "save"
    /\ \/ Matches(a) /\ Send(a, seen[a] \cup {a})
       \/ UNCHANGED remote /\ RemoteResult(a, "failed")
    /\ seen' = [seen EXCEPT ![a] = {}]
    /\ UNCHANGED <<enabled, api, localVars, session, cached, held, refused>>

\* Another client of the server adds a token.
OtherClient ==
    /\ "remote" \in enabled
    /\ \E t \in Others \ remote : remote' = remote \cup {t}
    /\ UNCHANGED <<enabled, api, localVars, session, cached, held, refused, seen, pooling, result>>

-----------------------------------------------------------------------------

PoolsInit ==
    /\ enabled \in {{"local"}, {"remote"}, {"local", "remote"}}
    /\ api \in {"go", "add", "save", "none"}
    /\ "remote" \in enabled \/ api = "none"
    /\ tokenFile \in {[state |-> "absent", tokens |-> {}], [state |-> "ok", tokens |-> {}]}
    /\ rootFile \in {{}, Others}
    /\ aside = {}
    /\ fileLock = Nobody
    /\ remote = {}
    /\ session = 1
    /\ cached = 0
    /\ held = [a \in Accounts |-> 0]
    /\ refused = {}
    /\ seen = [a \in Accounts |-> {}]
    /\ pooling = [a \in Accounts |-> "off"]
    /\ result = [a \in Accounts |-> [local |-> "none", remote |-> "none"]]

PoolStep(a) ==
    \/ SkipLocal(a) \/ ReadLocal(a) \/ ReplaceLocal(a)
    \/ SkipRemote(a) \/ GetAdminToken(a) \/ Import(a) \/ AddToken(a) \/ SavePool(a)

Outside == BreakLocal \/ Revoke \/ OtherClient

-----------------------------------------------------------------------------

LocalTokens == tokenFile.tokens \cup rootFile \cup aside

\* No token is lost: what is in the local file, in the file of an earlier
\* version or in a copy moved aside stays in one of them, and what the server
\* has it keeps, whoever writes at the same time and wherever a writer dies.
TokensStay ==
    [][LocalTokens \subseteq LocalTokens' /\ remote \subseteq remote']_poolVars
=============================================================================
