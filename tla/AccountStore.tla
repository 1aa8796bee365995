----------------------------- MODULE AccountStore -----------------------------
(***************************************************************************)
(* Accounts: the handlers of LoginHandler.h (login, verify, v2/login) and  *)
(* the database operations under them.  All HTTP sessions run on the one   *)
(* thread of the pool's first io_context, so requests are served one after *)
(* the other; but a handler is a sequence of database writes, and the      *)
(* process can die between two of them (a kill, or a mongocxx exception,   *)
(* which nothing catches).  The database survives.                         *)
(***************************************************************************)
EXTENDS Integers, FiniteSets

CONSTANTS
    Users,          \* usernames, one client each
    NoName,         \* the empty username, which a login may carry like any other
    MaxTokens,      \* bound of the model: values of createToken
    MaxFaults,      \* bound of the model: crashes and lost replies
    MaxRepeats      \* bound of the model: logins of clients that have no need to

ASSUME AccountAssumption ==
    /\ MaxTokens \in Nat /\ MaxFaults \in Nat /\ MaxRepeats \in Nat

FirstId == 100
NoCount == 0            \* no document in `counters`
Empty == 0              \* the empty string, of an id, session key or token

VARIABLES
    accounts,       \* collection `account`: _id -> [name, sessionKey, token]
    count,          \* collection `counters`
    pc,             \* the next database write of the request in progress
    user,           \* whose request it is
    account,        \* the handler's Account: [id, name, sessionKey, token]
    clock,          \* seeds createToken: the next token
    held,           \* what each client was told: [id, key]
    fresh,          \* no login was begun since the client was told
    outcome,        \* the client's last answer: "none", "error", "ok", "in"
    crashes, losses, \* counters of the two kinds of fault
    repeats         \* counter of needless logins

dbVars == <<accounts, count>>
clientVars == <<held, fresh, outcome>>
faultVars == <<crashes, losses, repeats>>
vars == <<dbVars, pc, user, account, clock, clientVars, faultVars>>

\* A new Account, whose username createAccountWithUid sets.
Blank_NoName(name) ==                             \* mutant: setUsername forgotten
    [id |-> Empty, name |-> Empty, sessionKey |-> Empty, token |-> Empty]
Blank(name) == [id |-> Empty, name |-> name, sessionKey |-> Empty, token |-> Empty]

Exists_WithKey(name, id) ==                       \* mutant: wants a session key too
    /\ accounts[id].name = name
    /\ accounts[id].sessionKey # Empty

\* The document a find by username meets.
Exists(name, id) == accounts[id].name = name

\* An Account filled from a document.
Loaded_NoKey(id) ==                               \* mutant: sessionKey not read back
    [id |-> id, name |-> accounts[id].name,
     sessionKey |-> Empty, token |-> accounts[id].token]
Loaded(id) ==
    [id |-> id, name |-> accounts[id].name,
     sessionKey |-> accounts[id].sessionKey, token |-> accounts[id].token]

\* find_one_and_update by the OLD VALUE of the field: one of the documents
\* that hold it, or none.
StoreKey_Many(old, new) ==                        \* mutant: update_many
    accounts' = [id \in DOMAIN accounts |->
                  IF accounts[id].sessionKey = old
                  THEN [accounts[id] EXCEPT !.sessionKey = new] ELSE accounts[id]]
StoreKey_AfterAssign(old, new) ==                 \* mutant: old read after the assignment
    \/ \E id \in DOMAIN accounts :
        /\ accounts[id].sessionKey = new
        /\ accounts' = [accounts EXCEPT ![id].sessionKey = new]
    \/ /\ \A id \in DOMAIN accounts : accounts[id].sessionKey # new
       /\ UNCHANGED accounts
StoreKey(old, new) ==
    \/ \E id \in DOMAIN accounts :
        /\ accounts[id].sessionKey = old
        /\ accounts' = [accounts EXCEPT ![id].sessionKey = new]
    \/ /\ \A id \in DOMAIN accounts : accounts[id].sessionKey # old
       /\ UNCHANGED accounts

StoreToken(old, new) ==
    \/ \E id \in DOMAIN accounts :
        /\ accounts[id].token = old
        /\ accounts' = [accounts EXCEPT ![id].token = new]
    \/ /\ \A id \in DOMAIN accounts : accounts[id].token # old
       /\ UNCHANGED accounts

CreateToken ==
    /\ clock < MaxTokens
    /\ clock' = clock + 1

Init ==
    /\ accounts = [id \in {} |-> Empty] /\ count = NoCount
    /\ pc = "idle" /\ user \in Users /\ account = Blank(user)
    /\ clock = Empty + 1
    /\ held = [u \in Users |-> [id |-> Empty, key |-> Empty]]
    /\ fresh = [u \in Users |-> FALSE]
    /\ outcome = [u \in Users |-> "none"]
    /\ crashes = 0 /\ losses = 0 /\ repeats = 0

-----------------------------------------------------------------------------
(* login: PwdAuthenticate                                                   *)

\* A client logs in until it is told a key, and when it is refused; at times
\* without need, too.
WantsLogin(u) ==
    \/ (~fresh[u] \/ outcome[u] = "error") /\ UNCHANGED repeats
    \/ repeats < MaxRepeats /\ repeats' = repeats + 1

\* authenticate takes an Account without a username for one that does not exist
\* or could not be made, so a login of the empty name ends in an error, even
\* when the account was just inserted.
Decide(u) ==
    \/ /\ u = NoName
       /\ pc' = "idle" /\ outcome' = [outcome EXCEPT ![u] = "error"]
    \/ /\ u # NoName
       /\ pc' = "sessionKey" /\ outcome' = [outcome EXCEPT ![u] = "none"]

\* getAccountByName, and the second look of createAccountWithUid.
Login(u) ==
    /\ pc = "idle" /\ WantsLogin(u)
    /\ user' = u
    /\ fresh' = [fresh EXCEPT ![u] = FALSE]
    /\ \/ \E id \in DOMAIN accounts :
            /\ Exists(u, id)
            /\ account' = Loaded(id)
            /\ Decide(u)
       \/ /\ \A id \in DOMAIN accounts : ~Exists(u, id)
          /\ account' = Blank(u)
          /\ pc' = "nextId"
          /\ outcome' = [outcome EXCEPT ![u] = "none"]
    /\ UNCHANGED <<dbVars, clock, held, crashes, losses>>

NextId_FirstNotSaved ==                           \* mutant: the first count not inserted
    /\ pc = "nextId"
    /\ count' = IF count = NoCount THEN NoCount ELSE count + 1
    /\ account' = [account EXCEPT !.id = IF count = NoCount THEN FirstId ELSE count + 1]
    /\ pc' = "loginToken"
    /\ UNCHANGED <<accounts, user, clock, clientVars, faultVars>>

NextId ==
    /\ pc = "nextId"
    /\ count' = IF count = NoCount THEN FirstId ELSE count + 1
    /\ account' = [account EXCEPT !.id = count']
    /\ pc' = "loginToken"
    /\ UNCHANGED <<accounts, user, clock, clientVars, faultVars>>

\* saveAccount evaluates generateLoginToken among the arguments of insert_one:
\* a write of its own, before the insert.
LoginToken ==
    /\ pc = "loginToken"
    /\ CreateToken
    /\ StoreToken(account.token, clock)
    /\ account' = [account EXCEPT !.token = clock]
    /\ pc' = "insert"
    /\ UNCHANGED <<count, user, clientVars, faultVars>>

Insert ==
    /\ pc = "insert"
    /\ account.id \notin DOMAIN accounts
    /\ accounts' = [id \in DOMAIN accounts \cup {account.id} |->
                     IF id = account.id
                     THEN [name |-> account.name, sessionKey |-> account.sessionKey,
                           token |-> account.token]
                     ELSE accounts[id]]
    /\ Decide(user)
    /\ UNCHANGED <<count, user, account, clock, held, fresh, faultVars>>

\* generateSessionKey
SessionKey ==
    /\ pc = "sessionKey"
    /\ CreateToken
    /\ StoreKey(account.sessionKey, clock)
    /\ account' = [account EXCEPT !.sessionKey = clock]
    /\ pc' = "reply"
    /\ UNCHANGED <<count, user, clientVars, faultVars>>

\* The response carries the Account in memory; the connection may lose it.
Reply ==
    /\ pc = "reply"
    /\ pc' = "idle"
    /\ \/ /\ held' = [held EXCEPT ![user] = [id |-> account.id, key |-> account.sessionKey]]
          /\ fresh' = [fresh EXCEPT ![user] = TRUE]
          /\ UNCHANGED losses
       \/ /\ crashes + losses < MaxFaults
          /\ losses' = losses + 1
          /\ UNCHANGED <<held, fresh>>
    /\ UNCHANGED <<dbVars, user, account, clock, outcome, crashes, repeats>>

-----------------------------------------------------------------------------
(* verify: TokenAuthenticate; v2/login: SessionKeyAuthenticate              *)

\* The check both make: the account exists and the key is the one stored.
Verifies(id, key) == id \in DOMAIN accounts /\ accounts[id].sessionKey = key

Verify(u) ==
    /\ pc = "idle"
    /\ fresh[u] /\ outcome[u] = "none"
    /\ outcome' = [outcome EXCEPT ![u] =
                    IF Verifies(held[u].id, held[u].key) THEN "ok" ELSE "error"]
    /\ UNCHANGED <<dbVars, pc, user, account, clock, held, fresh, faultVars>>

ComboLogin(u) ==
    /\ pc = "idle"
    /\ fresh[u] /\ outcome[u] = "ok"
    /\ user' = u
    /\ \/ /\ Verifies(held[u].id, held[u].key)
          /\ account' = Loaded(held[u].id)
          /\ pc' = "comboToken"
          /\ UNCHANGED outcome
       \/ /\ ~Verifies(held[u].id, held[u].key)
          /\ outcome' = [outcome EXCEPT ![u] = "error"]
          /\ UNCHANGED <<account, pc>>
    /\ UNCHANGED <<dbVars, clock, held, fresh, faultVars>>

ComboToken ==
    /\ pc = "comboToken"
    /\ CreateToken
    /\ StoreToken(account.token, clock)
    /\ account' = [account EXCEPT !.token = clock]
    /\ pc' = "idle"
    /\ outcome' = [outcome EXCEPT ![user] = "in"]
    /\ UNCHANGED <<count, user, held, fresh, faultVars>>

-----------------------------------------------------------------------------
\* The process dies with the request in progress and is started again.
Crash ==
    /\ pc # "idle" /\ crashes + losses < MaxFaults
    /\ pc' = "idle"
    /\ crashes' = crashes + 1
    /\ UNCHANGED <<dbVars, user, account, clock, clientVars, losses, repeats>>

Handler == NextId \/ LoginToken \/ Insert \/ SessionKey \/ Reply \/ ComboToken

Request(u) == Login(u) \/ Verify(u) \/ ComboLogin(u)

Next == Handler \/ Crash \/ \E u \in Users : Request(u)

Spec == Init /\ [][Next]_vars

\* The thread runs its handler to the end, and a client goes on until it is in.
Fairness == WF_vars(Handler) /\ \A u \in Users : WF_vars(Request(u))
FairSpec == Spec /\ Fairness

-----------------------------------------------------------------------------
(* Properties                                                               *)

Document == [name: Users, sessionKey: Nat, token: Nat]

\* Type invariant.
TypeOK ==
    /\ accounts \in [DOMAIN accounts -> Document]
    /\ DOMAIN accounts \subseteq Nat
    /\ count \in Nat
    /\ pc \in {"idle", "nextId", "loginToken", "insert", "sessionKey", "reply", "comboToken"}
    /\ user \in Users
    /\ account \in [id: Nat, name: Users, sessionKey: Nat, token: Nat]
    /\ clock \in Nat
    /\ held \in [Users -> [id: Nat, key: Nat]]
    /\ fresh \in [Users -> BOOLEAN]
    /\ outcome \in [Users -> {"none", "error", "ok", "in"}]
    /\ crashes \in Nat /\ losses \in Nat /\ repeats \in Nat

\* A username has one account, although nothing in the database asks for it and
\* a login can be cut off between any two of its writes and repeated.
UniqueNames ==
    \A a, b \in DOMAIN accounts : accounts[a].name = accounts[b].name => a = b

\* An id that getNextId gave is never an account's already, so insert_one never
\* throws; a crash between the two leaves a gap in the ids.
IdsFresh ==
    /\ pc \in {"loginToken", "insert"} => account.id \notin DOMAIN accounts
    /\ \A id \in DOMAIN accounts : id <= count

\* A session key that is set is the key of one account, although
\* generateSessionKey finds its document by the key's old value, which after
\* crashes several accounts share: "".
KeysDistinct ==
    \A a, b \in DOMAIN accounts :
        /\ accounts[a].sessionKey = accounts[b].sessionKey
        /\ accounts[a].sessionKey # Empty
        => a = b

\* Accounts without a session key, the one being created aside.
Unkeyed ==
    {id \in DOMAIN accounts : accounts[id].sessionKey = Empty} \
    (IF pc = "sessionKey" THEN {account.id} ELSE {})

\* The empty name has an account once it was logged in with.
NamelessAccount == \E id \in DOMAIN accounts : accounts[id].name = NoName

\* A crash leaves at most one account without a session key, and so does the
\* first login of the empty name, for good or until another login writes it;
\* logins do not multiply them.
UnkeyedBounded ==
    Cardinality(Unkeyed) <= crashes + (IF NamelessAccount THEN 1 ELSE 0)

\* While no crash has cut a login off and nobody has logged in with the empty
\* name, the key a client was told last is the key its account verifies,
\* whatever other logins came in between.
ToldKeyVerifies ==
    crashes = 0 /\ ~NamelessAccount =>
        \A u \in Users : fresh[u] => Verifies(held[u].id, held[u].key)

\* However crashes, lost replies, needless logins and the empty name leave the
\* keys, a client with a name that logs in again when it is refused is let in
\* for good: a second login repairs what was left, and no other client's login
\* takes that away.
EveryoneGetsIn == \A u \in Users \ {NoName} : <>[](outcome[u] = "in")

==============================================================================
