-------------------------- MODULE AccountStoreProofs --------------------------
(***************************************************************************)
(* AccountStore for every set of users, every number of tokens and faults: *)
(* ids and usernames name one account, and session keys are not shared.    *)
(***************************************************************************)
EXTENDS AccountStore, FiniteSetTheorems, TLAPS

USE DEF FirstId, NoCount, Empty

Creating == {"nextId", "loginToken", "insert"}

\* A handler that creates an account works for a name nobody has, with no key.
CreatesNew ==
    pc \in Creating =>
        /\ account.sessionKey = Empty
        /\ \A id \in DOMAIN accounts : accounts[id].name # account.name

\* Ids start at FirstId and the counter is ahead of them.
IdsCounted ==
    /\ count = NoCount \/ count >= FirstId
    /\ \A id \in DOMAIN accounts : id >= FirstId
    /\ pc \in {"loginToken", "insert"} => account.id >= FirstId /\ account.id <= count

\* An account is made for the user who logs in.
OwnName == pc \in Creating => account.name = user

\* Keys are tokens that createToken gave before.
KeysOld == \A id \in DOMAIN accounts : accounts[id].sessionKey < clock

StoreInv ==
    /\ TypeOK /\ clock > Empty
    /\ CreatesNew /\ UniqueNames /\ OwnName
    /\ IdsCounted /\ IdsFresh
    /\ KeysOld /\ KeysDistinct

-----------------------------------------------------------------------------

LEMMA TypeInit == Init => TypeOK
  BY AccountAssumption DEF Init, TypeOK, Blank, Document

\* What an update by old value does to the collection: at most one document's
\* field changes, to the new value.
LEMMA StoreKeyChanges ==
  ASSUME NEW old \in Nat, NEW new \in Nat, TypeOK, StoreKey(old, new)
  PROVE  /\ DOMAIN accounts' = DOMAIN accounts
         /\ accounts' \in [DOMAIN accounts -> Document]
         /\ \A id \in DOMAIN accounts : accounts'[id].name = accounts[id].name
         /\ \/ accounts' = accounts
            \/ \E id \in DOMAIN accounts :
                /\ accounts'[id].sessionKey = new
                /\ \A other \in DOMAIN accounts :
                    other # id => accounts'[other] = accounts[other]
  <1>1. CASE UNCHANGED accounts
    BY <1>1 DEF TypeOK
  <1>2. ASSUME NEW id \in DOMAIN accounts,
               accounts' = [accounts EXCEPT ![id].sessionKey = new]
        PROVE  /\ DOMAIN accounts' = DOMAIN accounts
               /\ accounts' \in [DOMAIN accounts -> Document]
               /\ \A a \in DOMAIN accounts : accounts'[a].name = accounts[a].name
               /\ accounts'[id].sessionKey = new
               /\ \A other \in DOMAIN accounts :
                    other # id => accounts'[other] = accounts[other]
    BY <1>2 DEF TypeOK, Document
  <1> QED BY <1>1, <1>2 DEF StoreKey

LEMMA StoreTokenChanges ==
  ASSUME NEW old \in Nat, NEW new \in Nat, TypeOK, StoreToken(old, new)
  PROVE  /\ DOMAIN accounts' = DOMAIN accounts
         /\ accounts' \in [DOMAIN accounts -> Document]
         /\ \A id \in DOMAIN accounts :
              /\ accounts'[id].name = accounts[id].name
              /\ accounts'[id].sessionKey = accounts[id].sessionKey
  <1>1. CASE UNCHANGED accounts
    BY <1>1 DEF TypeOK
  <1>2. ASSUME NEW id \in DOMAIN accounts,
               accounts' = [accounts EXCEPT ![id].token = new]
        PROVE  /\ DOMAIN accounts' = DOMAIN accounts
               /\ accounts' \in [DOMAIN accounts -> Document]
               /\ \A a \in DOMAIN accounts :
                    /\ accounts'[a].name = accounts[a].name
                    /\ accounts'[a].sessionKey = accounts[a].sessionKey
    BY <1>2 DEF TypeOK, Document
  <1> QED BY <1>1, <1>2 DEF StoreToken

LEMMA InitInv == Init => StoreInv
  <1> SUFFICES ASSUME Init PROVE StoreInv OBVIOUS
  <1>1. TypeOK BY TypeInit
  <1>2. DOMAIN accounts = {} BY DEF Init
  <1> QED
    BY <1>1, <1>2 DEF Init, StoreInv, CreatesNew, OwnName, Creating, UniqueNames,
        IdsCounted, IdsFresh, KeysOld, KeysDistinct

LEMMA StepInv == StoreInv /\ [Next]_vars => StoreInv'
  <1> SUFFICES ASSUME StoreInv, [Next]_vars PROVE StoreInv' OBVIOUS
  <1> USE DEF StoreInv
  <1>1. ASSUME NEW u \in Users, Login(u) PROVE StoreInv'
    <2>0. repeats' \in Nat
      BY <1>1 DEF Login, WantsLogin, TypeOK
    <2>1. ASSUME NEW id \in DOMAIN accounts, account' = Loaded(id), Decide(u)
          PROVE StoreInv'
      BY <1>1, <2>0, <2>1 DEF Login, Decide, Loaded, dbVars, faultVars, TypeOK, Document,
          CreatesNew, OwnName, Creating, UniqueNames, IdsCounted, IdsFresh, KeysOld, KeysDistinct
    <2>2. ASSUME \A id \in DOMAIN accounts : ~Exists(u, id),
                 account' = Blank(u), pc' = "nextId",
                 outcome' = [outcome EXCEPT ![u] = "none"]
          PROVE StoreInv'
      BY <1>1, <2>0, <2>2 DEF Login, Blank, Exists, dbVars, faultVars, TypeOK, Document,
          CreatesNew, OwnName, Creating, UniqueNames, IdsCounted, IdsFresh, KeysOld, KeysDistinct
    <2> QED BY <1>1, <2>1, <2>2 DEF Login
  <1>2. CASE NextId
    <2>1. TypeOK' /\ CreatesNew' /\ OwnName'
      BY <1>2 DEF NextId, TypeOK, CreatesNew, OwnName, Creating, clientVars, faultVars
    <2>2. IdsCounted' /\ IdsFresh'
      BY <1>2 DEF NextId, TypeOK, IdsCounted, IdsFresh, clientVars, faultVars
    <2> QED
      BY <1>2, <2>1, <2>2 DEF NextId, UniqueNames, KeysOld, KeysDistinct
  <1>3. CASE LoginToken
    <2>1. /\ DOMAIN accounts' = DOMAIN accounts
          /\ accounts' \in [DOMAIN accounts -> Document]
          /\ \A id \in DOMAIN accounts :
               /\ accounts'[id].name = accounts[id].name
               /\ accounts'[id].sessionKey = accounts[id].sessionKey
      BY <1>3, StoreTokenChanges DEF LoginToken, TypeOK
    <2>2. TypeOK' /\ clock' > Empty /\ CreatesNew' /\ OwnName'
      BY <1>3, <2>1 DEF LoginToken, CreateToken, TypeOK, CreatesNew, OwnName, Creating,
          clientVars, faultVars
    <2>3. IdsCounted' /\ IdsFresh'
      BY <1>3, <2>1 DEF LoginToken, TypeOK, IdsCounted, IdsFresh
    <2>4. UniqueNames' /\ KeysOld' /\ KeysDistinct'
      BY <1>3, <2>1 DEF LoginToken, CreateToken, TypeOK, Document, UniqueNames,
          KeysOld, KeysDistinct
    <2> QED BY <2>2, <2>3, <2>4
  <1>4. CASE Insert
    <2>1. /\ DOMAIN accounts' = DOMAIN accounts \cup {account.id}
          /\ \A id \in DOMAIN accounts : accounts'[id] = accounts[id]
          /\ accounts'[account.id].name = account.name
          /\ accounts'[account.id].sessionKey = Empty
          /\ accounts' \in [DOMAIN accounts' -> Document]
      BY <1>4 DEF Insert, CreatesNew, OwnName, Creating, TypeOK, Document
    <2>2. TypeOK'
      BY <1>4, <2>1 DEF Insert, Decide, TypeOK, faultVars
    <2>3. CreatesNew' /\ OwnName' /\ IdsCounted' /\ IdsFresh'
      BY <1>4, <2>1 DEF Insert, Decide, CreatesNew, OwnName, Creating, IdsCounted, IdsFresh, TypeOK
    <2>4. UniqueNames'
      BY <1>4, <2>1 DEF Insert, CreatesNew, OwnName, Creating, UniqueNames
    <2>5. KeysOld' /\ KeysDistinct'
      BY <1>4, <2>1 DEF Insert, KeysOld, KeysDistinct
    <2> QED BY <1>4, <2>2, <2>3, <2>4, <2>5 DEF Insert
  <1>5. CASE SessionKey
    <2>1. /\ DOMAIN accounts' = DOMAIN accounts
          /\ accounts' \in [DOMAIN accounts -> Document]
          /\ \A id \in DOMAIN accounts : accounts'[id].name = accounts[id].name
          /\ \/ accounts' = accounts
             \/ \E id \in DOMAIN accounts :
                 /\ accounts'[id].sessionKey = clock
                 /\ \A other \in DOMAIN accounts :
                     other # id => accounts'[other] = accounts[other]
      BY <1>5, StoreKeyChanges DEF SessionKey, TypeOK
    <2>2. TypeOK' /\ clock' > Empty
      BY <1>5, <2>1 DEF SessionKey, CreateToken, TypeOK, clientVars, faultVars
    <2>3. CreatesNew' /\ OwnName' /\ IdsCounted' /\ IdsFresh' /\ UniqueNames'
      BY <1>5, <2>1 DEF SessionKey, CreatesNew, OwnName, Creating, IdsCounted, IdsFresh,
          UniqueNames, TypeOK
    <2>4. KeysOld' /\ KeysDistinct'
      <3>1. clock \in Nat /\ clock' = clock + 1
        BY <1>5 DEF SessionKey, CreateToken, TypeOK
      <3>2. \A id \in DOMAIN accounts :
                accounts[id].sessionKey \in Nat /\ accounts[id].sessionKey < clock
        BY DEF TypeOK, Document, KeysOld
      <3>3. CASE accounts' = accounts
        BY <3>1, <3>2, <3>3 DEF KeysOld, KeysDistinct
      <3>4. ASSUME NEW id \in DOMAIN accounts, accounts'[id].sessionKey = clock,
                   \A other \in DOMAIN accounts :
                       other # id => accounts'[other] = accounts[other]
            PROVE  KeysOld' /\ KeysDistinct'
        <4>1. \A other \in DOMAIN accounts :
                  other # id => accounts'[other].sessionKey = accounts[other].sessionKey
          BY <3>4
        <4> QED BY <2>1, <3>1, <3>2, <3>4, <4>1 DEF KeysOld, KeysDistinct
      <3> QED BY <2>1, <3>3, <3>4
    <2> QED BY <1>5, <2>2, <2>3, <2>4
  <1>6. CASE Reply
    <2>1. held' \in [Users -> [id: Nat, key: Nat]] /\ fresh' \in [Users -> BOOLEAN]
      <3>1. [id |-> account.id, key |-> account.sessionKey] \in [id: Nat, key: Nat]
        BY DEF TypeOK
      <3>2. /\ held \in [Users -> [id: Nat, key: Nat]]
            /\ fresh \in [Users -> BOOLEAN]
        BY DEF TypeOK
      <3>3. CASE /\ held' = [held EXCEPT ![user] = [id |-> account.id,
                                                   key |-> account.sessionKey]]
                 /\ fresh' = [fresh EXCEPT ![user] = TRUE]
        BY <3>1, <3>2, <3>3
      <3>4. CASE UNCHANGED <<held, fresh>>
        BY <3>2, <3>4
      <3> QED BY <1>6, <3>3, <3>4 DEF Reply
    <2>2. losses' \in Nat
      BY <1>6 DEF Reply, TypeOK
    <2>3. TypeOK'
      BY <1>6, <2>1, <2>2 DEF Reply, dbVars, TypeOK
    <2> QED
      BY <1>6, <2>3 DEF Reply, dbVars, CreatesNew, OwnName, Creating, UniqueNames,
        IdsCounted, IdsFresh, KeysOld, KeysDistinct
  <1>7. CASE ComboToken
    <2>1. /\ DOMAIN accounts' = DOMAIN accounts
          /\ accounts' \in [DOMAIN accounts -> Document]
          /\ \A id \in DOMAIN accounts :
               /\ accounts'[id].name = accounts[id].name
               /\ accounts'[id].sessionKey = accounts[id].sessionKey
      BY <1>7, StoreTokenChanges DEF ComboToken, TypeOK
    <2>2. TypeOK' /\ clock' > Empty
      BY <1>7, <2>1 DEF ComboToken, CreateToken, TypeOK, faultVars
    <2>3. CreatesNew' /\ OwnName' /\ IdsCounted' /\ IdsFresh'
      BY <1>7, <2>1 DEF ComboToken, CreatesNew, OwnName, Creating, IdsCounted, IdsFresh
    <2>4. UniqueNames' /\ KeysOld' /\ KeysDistinct'
      BY <1>7, <2>1 DEF ComboToken, CreateToken, TypeOK, Document, UniqueNames,
          KeysOld, KeysDistinct
    <2> QED BY <2>2, <2>3, <2>4
  <1>8. ASSUME NEW u \in Users, Verify(u) PROVE StoreInv'
    BY <1>8 DEF Verify, dbVars, faultVars, TypeOK, CreatesNew, OwnName, Creating,
        UniqueNames, IdsCounted, IdsFresh, KeysOld, KeysDistinct
  <1>9. ASSUME NEW u \in Users, ComboLogin(u) PROVE StoreInv'
    <2>1. TypeOK'
      <3>1. /\ outcome' \in [Users -> {"none", "error", "ok", "in"}]
            /\ pc' \in {"idle", "comboToken"} /\ user' = u
            /\ UNCHANGED <<dbVars, clock, held, fresh, faultVars>>
        BY <1>9 DEF ComboLogin, TypeOK
      <3>2. account' = account \/ account' = Loaded(held[u].id)
        BY <1>9 DEF ComboLogin
      <3>3. account' \in [id: Nat, name: Users, sessionKey: Nat, token: Nat]
        BY <1>9, <3>2 DEF ComboLogin, Verifies, Loaded, TypeOK, Document
      <3> QED
        BY <3>1, <3>3 DEF dbVars, faultVars, TypeOK
    <2>2. pc' \in {"idle", "comboToken"}
      BY <1>9 DEF ComboLogin
    <2> QED
      BY <1>9, <2>1, <2>2 DEF ComboLogin, dbVars, CreatesNew, OwnName, Creating,
          UniqueNames, IdsCounted, IdsFresh, KeysOld, KeysDistinct
  <1>10. CASE Crash
    BY <1>10 DEF Crash, dbVars, clientVars, TypeOK, CreatesNew, OwnName, Creating,
        UniqueNames, IdsCounted, IdsFresh, KeysOld, KeysDistinct
  <1>11. CASE UNCHANGED vars
    BY <1>11 DEF vars, dbVars, clientVars, faultVars, TypeOK, CreatesNew, OwnName, Creating,
        UniqueNames, IdsCounted, IdsFresh, KeysOld, KeysDistinct
  <1> QED
    BY <1>1, <1>2, <1>3, <1>4, <1>5, <1>6, <1>7, <1>8, <1>9, <1>10, <1>11
        DEF Next, Handler, Request

LEMMA Always == Spec => []StoreInv
  BY InitInv, StepInv, PTL DEF Spec

-----------------------------------------------------------------------------

\* Documents, handlers and clients hold what the code's types say.
THEOREM TypeCorrect == Spec => []TypeOK
  <1>1. StoreInv => TypeOK BY DEF StoreInv
  <1> QED BY <1>1, Always, PTL

\* createAccountWithUid never makes a second account for a username, whatever
\* cuts logins off between their database writes.
THEOREM OneAccountPerName == Spec => []UniqueNames
  <1>1. StoreInv => UniqueNames BY DEF StoreInv
  <1> QED BY <1>1, Always, PTL

\* getNextId never gives an id that an account has, so insert_one never throws.
THEOREM InsertFresh == Spec => []IdsFresh
  <1>1. StoreInv => IdsFresh BY DEF StoreInv
  <1> QED BY <1>1, Always, PTL

\* generateSessionKey never stores one session key in two accounts.
THEOREM KeysNotShared == Spec => []KeysDistinct
  <1>1. StoreInv => KeysDistinct BY DEF StoreInv
  <1> QED BY <1>1, Always, PTL

-----------------------------------------------------------------------------
(* What a client was told.  Without crashes and without an account of the   *)
(* empty name, only the account whose key is about to be written is without *)
(* one, so the update by old value meets it.                                *)

HandlerOwnsAccount ==
    /\ pc \in Creating \cup {"sessionKey", "reply"} =>
            account.name = user /\ ~fresh[user]
    /\ pc \in {"sessionKey", "reply"} =>
            /\ account.id \in DOMAIN accounts
            /\ accounts[account.id].name = user
            /\ accounts[account.id].sessionKey = account.sessionKey

OnlyOneUnkeyed ==
    \A id \in DOMAIN accounts :
        accounts[id].sessionKey = Empty => pc = "sessionKey" /\ id = account.id

ToldOwnKey ==
    \A u \in Users : fresh[u] =>
        /\ held[u].id \in DOMAIN accounts
        /\ accounts[held[u].id].name = u
        /\ accounts[held[u].id].sessionKey = held[u].key

KeyInv == crashes = 0 /\ ~NamelessAccount => HandlerOwnsAccount /\ OnlyOneUnkeyed /\ ToldOwnKey

LEMMA KeyInit == Init => KeyInv
  BY DEF Init, KeyInv, HandlerOwnsAccount, Creating, OnlyOneUnkeyed, ToldOwnKey, Blank

\* An account that is made stays, and keeps its name.
LEMMA NamesStay ==
  ASSUME StoreInv, [Next]_vars
  PROVE  \A id \in DOMAIN accounts :
            id \in DOMAIN accounts' /\ accounts'[id].name = accounts[id].name
  <1>0. TypeOK
    BY DEF StoreInv
  <1>1. CASE LoginToken \/ ComboToken
    BY <1>0, <1>1, StoreTokenChanges DEF LoginToken, ComboToken, TypeOK
  <1>2. CASE SessionKey
    BY <1>0, <1>2, StoreKeyChanges DEF SessionKey, TypeOK
  <1>3. CASE Insert
    BY <1>3 DEF Insert
  <1>4. CASE UNCHANGED accounts
    BY <1>4
  <1> QED
    BY <1>1, <1>2, <1>3, <1>4 DEF Next, Handler, Request, NextId, Reply, Crash, Login,
        Verify, ComboLogin, dbVars, vars

LEMMA KeyStep == StoreInv /\ KeyInv /\ [Next]_vars => KeyInv'
  <1> SUFFICES ASSUME StoreInv, KeyInv, [Next]_vars, crashes' = 0, ~NamelessAccount'
               PROVE  HandlerOwnsAccount' /\ OnlyOneUnkeyed' /\ ToldOwnKey'
    BY DEF KeyInv
  <1>0. TypeOK /\ crashes \in Nat
    BY DEF StoreInv, TypeOK
  <1>1. CASE Crash
    BY <1>0, <1>1 DEF Crash
  <1>2. CASE ~Crash
    <2>1. crashes = 0
      BY <1>0, <1>2 DEF Next, Handler, Request, NextId, LoginToken, Insert, SessionKey,
          Reply, ComboToken, Login, Verify, ComboLogin, clientVars, faultVars, vars
    <2>2. HandlerOwnsAccount /\ OnlyOneUnkeyed /\ ToldOwnKey
      BY <2>1, NamesStay DEF KeyInv, NamelessAccount
    <2>3. /\ DOMAIN fresh = Users /\ fresh \in [Users -> BOOLEAN]
          /\ DOMAIN held = Users /\ user \in Users
      BY <1>0 DEF TypeOK
    <2>4. ASSUME NEW u \in Users, Login(u)
          PROVE  HandlerOwnsAccount' /\ OnlyOneUnkeyed' /\ ToldOwnKey'
      <3>1. /\ pc = "idle" /\ user' = u /\ UNCHANGED <<accounts, held>>
            /\ fresh' = [fresh EXCEPT ![u] = FALSE]
        BY <2>4 DEF Login, dbVars
      <3>2. HandlerOwnsAccount'
        BY <2>2, <2>3, <2>4, <3>1 DEF Login, Decide, Exists, Loaded, Blank, HandlerOwnsAccount, Creating
      <3> QED BY <2>2, <2>3, <3>1, <3>2 DEF OnlyOneUnkeyed, ToldOwnKey
    <2>5. CASE NextId
      BY <1>0, <2>2, <2>5 DEF NextId, TypeOK, clientVars, HandlerOwnsAccount, Creating,
          OnlyOneUnkeyed, ToldOwnKey
    <2>6. CASE LoginToken
      <3>1. /\ DOMAIN accounts' = DOMAIN accounts
            /\ \A id \in DOMAIN accounts :
                 /\ accounts'[id].name = accounts[id].name
                 /\ accounts'[id].sessionKey = accounts[id].sessionKey
        BY <1>0, <2>6, StoreTokenChanges DEF LoginToken, TypeOK
      <3>2. /\ pc = "loginToken" /\ pc' = "insert" /\ user' = user
            /\ held' = held /\ fresh' = fresh /\ account'.name = account.name
        BY <1>0, <2>6 DEF LoginToken, TypeOK, clientVars
      <3>3. HandlerOwnsAccount' /\ OnlyOneUnkeyed'
        BY <2>2, <3>1, <3>2 DEF HandlerOwnsAccount, Creating, OnlyOneUnkeyed
      <3>4. ToldOwnKey'
        BY <2>2, <3>1, <3>2 DEF ToldOwnKey
      <3> QED
        BY <3>3, <3>4
    <2>7. CASE Insert
      <3>1. /\ DOMAIN accounts' = DOMAIN accounts \cup {account.id}
            /\ \A id \in DOMAIN accounts : accounts'[id] = accounts[id]
            /\ accounts'[account.id].name = account.name
            /\ accounts'[account.id].sessionKey = account.sessionKey
        BY <2>7 DEF Insert
      <3>2. user # NoName
        BY <2>2, <2>7, <3>1 DEF Insert, HandlerOwnsAccount, Creating, NamelessAccount
      <3>3. /\ pc = "insert" /\ pc' = "sessionKey"
            /\ UNCHANGED <<user, account, held, fresh>>
        BY <2>7, <3>2 DEF Insert, Decide
      <3> QED
        BY <2>2, <3>1, <3>3 DEF HandlerOwnsAccount, Creating, OnlyOneUnkeyed, ToldOwnKey
    <2>8. CASE SessionKey
      <3>1. /\ account.id \in DOMAIN accounts /\ ~fresh[user]
            /\ accounts[account.id].name = user
            /\ accounts[account.id].sessionKey = account.sessionKey
        BY <2>2, <2>8 DEF SessionKey, HandlerOwnsAccount, Creating
      <3>2. \A id \in DOMAIN accounts :
                accounts[id].sessionKey = account.sessionKey => id = account.id
        BY <2>2, <3>1 DEF OnlyOneUnkeyed, StoreInv, KeysDistinct
      <3>3. accounts' = [accounts EXCEPT ![account.id].sessionKey = clock]
        BY <2>8, <3>1, <3>2 DEF SessionKey, StoreKey
      <3>4. /\ DOMAIN accounts' = DOMAIN accounts
            /\ \A id \in DOMAIN accounts :
                 id # account.id => accounts'[id] = accounts[id]
            /\ accounts'[account.id].name = user
            /\ accounts'[account.id].sessionKey = clock
        <4>1. accounts[account.id] \in Document
          BY <1>0, <3>1 DEF TypeOK
        <4> QED BY <3>1, <3>3, <4>1 DEF Document
      <3>5. account' = [account EXCEPT !.sessionKey = clock]
        BY <2>8 DEF SessionKey
      <3>6. /\ account'.id = account.id /\ account'.name = account.name
            /\ account'.sessionKey = clock
        BY <1>0, <3>5 DEF TypeOK
      <3>7. clock # Empty /\ pc' = "reply" /\ UNCHANGED <<user, held, fresh>>
        BY <1>0, <2>8 DEF SessionKey, StoreInv, clientVars, TypeOK
      <3>8. HandlerOwnsAccount'
        BY <2>2, <2>8, <3>1, <3>4, <3>6, <3>7 DEF SessionKey, HandlerOwnsAccount
      <3>9. OnlyOneUnkeyed'
        BY <2>2, <3>2, <3>4, <3>7 DEF OnlyOneUnkeyed
      <3>10. ToldOwnKey'
        BY <2>2, <3>1, <3>4, <3>7 DEF ToldOwnKey
      <3> QED BY <3>8, <3>9, <3>10
    <2>9. CASE Reply
      <3>1. pc = "reply" /\ pc' = "idle" /\ UNCHANGED <<accounts, user, account>>
        BY <2>9 DEF Reply, dbVars
      <3>2. ToldOwnKey'
        BY <2>2, <2>3, <2>9, <3>1 DEF Reply, HandlerOwnsAccount, ToldOwnKey
      <3> QED BY <2>2, <3>1, <3>2 DEF HandlerOwnsAccount, Creating, OnlyOneUnkeyed
    <2>10. CASE ComboToken
      <3>1. /\ DOMAIN accounts' = DOMAIN accounts
            /\ \A id \in DOMAIN accounts :
                 /\ accounts'[id].name = accounts[id].name
                 /\ accounts'[id].sessionKey = accounts[id].sessionKey
        BY <1>0, <2>10, StoreTokenChanges DEF ComboToken, TypeOK
      <3> QED
        BY <2>2, <2>10, <3>1 DEF ComboToken, HandlerOwnsAccount, Creating,
            OnlyOneUnkeyed, ToldOwnKey
    <2>11. ASSUME NEW u \in Users, Verify(u) \/ ComboLogin(u)
           PROVE  HandlerOwnsAccount' /\ OnlyOneUnkeyed' /\ ToldOwnKey'
      <3>1. /\ pc = "idle" /\ pc' \in {"idle", "comboToken"}
            /\ UNCHANGED <<accounts, held, fresh>>
        BY <2>11 DEF Verify, ComboLogin, dbVars
      <3> QED BY <2>2, <3>1 DEF HandlerOwnsAccount, Creating, OnlyOneUnkeyed, ToldOwnKey
    <2>12. CASE UNCHANGED vars
      BY <2>2, <2>12 DEF vars, dbVars, clientVars, HandlerOwnsAccount, OnlyOneUnkeyed, ToldOwnKey
    <2> QED
      BY <1>2, <2>4, <2>5, <2>6, <2>7, <2>8, <2>9, <2>10, <2>11, <2>12
          DEF Next, Handler, Request
  <1> QED BY <1>1, <1>2

\* Until a crash or a login of the empty name, the key a client was told last is
\* the one its account verifies.
THEOREM ToldKey == Spec => []ToldKeyVerifies
  <1>1. KeyInv => ToldKeyVerifies
    BY DEF KeyInv, ToldOwnKey, ToldKeyVerifies, Verifies
  <1>2. StoreInv /\ KeyInv /\ [Next]_vars => (StoreInv /\ KeyInv)'
    BY StepInv, KeyStep
  <1> QED BY InitInv, KeyInit, <1>1, <1>2, PTL DEF Spec

-----------------------------------------------------------------------------
(* Accounts without a key: a crash leaves one at most, the empty name has    *)
(* one, and the update by old value, whichever account it meets, never adds  *)
(* one.                                                                      *)

AllUnkeyed == {id \in DOMAIN accounts : accounts[id].sessionKey = Empty}

Allowed == crashes + (IF NamelessAccount THEN 1 ELSE 0)

UnkeyedInv ==
    /\ IsFiniteSet(Unkeyed) /\ Cardinality(Unkeyed) <= Allowed
    /\ pc = "sessionKey" =>
         /\ account.id \in DOMAIN accounts
         /\ accounts[account.id].sessionKey = account.sessionKey

\* The set grows by no more than what is counted.
LEMMA UnkeyedAdds ==
    ASSUME NEW S, NEW T, NEW x, NEW n \in Nat, IsFiniteSet(S), Cardinality(S) <= n,
           T \subseteq S \cup {x}
    PROVE  IsFiniteSet(T) /\ Cardinality(T) <= n + 1
  <1>1. /\ IsFiniteSet(S \cup {x}) /\ Cardinality(S \cup {x}) <= Cardinality(S) + 1
        /\ Cardinality(S) \in Nat /\ Cardinality(S \cup {x}) \in Nat
    BY FS_AddElement, FS_CardinalityType
  <1>2. IsFiniteSet(T) /\ Cardinality(T) <= Cardinality(S \cup {x}) /\ Cardinality(T) \in Nat
    BY <1>1, FS_Subset, FS_CardinalityType
  <1> QED BY <1>1, <1>2

LEMMA UnkeyedSame ==
    ASSUME NEW S, NEW T, NEW n \in Nat, IsFiniteSet(S), Cardinality(S) <= n, T \subseteq S
    PROVE  IsFiniteSet(T) /\ Cardinality(T) <= n
  <1>1. /\ IsFiniteSet(T) /\ Cardinality(T) <= Cardinality(S)
        /\ Cardinality(S) \in Nat /\ Cardinality(T) \in Nat
    BY FS_Subset, FS_CardinalityType
  <1> QED BY <1>1

\* One element for another.
LEMMA UnkeyedSwaps ==
    ASSUME NEW S, NEW T, NEW x, NEW y \in S, NEW n \in Nat, IsFiniteSet(S),
           Cardinality(S) <= n, T \subseteq (S \ {y}) \cup {x}
    PROVE  IsFiniteSet(T) /\ Cardinality(T) <= n
  <1>1. /\ IsFiniteSet(S \ {y}) /\ Cardinality(S \ {y}) = Cardinality(S) - 1
        /\ Cardinality(S) \in Nat /\ Cardinality(S \ {y}) \in Nat
    BY FS_RemoveElement, FS_CardinalityType
  <1>2. n - 1 \in Nat /\ Cardinality(S \ {y}) <= n - 1
    BY <1>1
  <1>3. IsFiniteSet(T) /\ Cardinality(T) <= (n - 1) + 1
    BY <1>1, <1>2, UnkeyedAdds
  <1> QED BY <1>3

LEMMA UnkeyedInit == Init => UnkeyedInv
  <1> SUFFICES ASSUME Init PROVE UnkeyedInv
    OBVIOUS
  <1>1. Unkeyed = {} /\ Allowed = 0 /\ pc = "idle"
    BY DEF Init, Unkeyed, Allowed, NamelessAccount
  <1>2. IsFiniteSet({}) /\ Cardinality({}) = 0
    BY FS_EmptySet
  <1> QED BY <1>1, <1>2 DEF UnkeyedInv

LEMMA UnkeyedStep == StoreInv /\ UnkeyedInv /\ [Next]_vars => UnkeyedInv'
  <1> SUFFICES ASSUME StoreInv, UnkeyedInv, [Next]_vars PROVE UnkeyedInv'
    OBVIOUS
  <1>1. /\ TypeOK /\ crashes \in Nat /\ IsFiniteSet(Unkeyed) /\ Cardinality(Unkeyed) <= Allowed
        /\ clock # Empty /\ Allowed \in Nat
    BY DEF StoreInv, TypeOK, UnkeyedInv, Allowed
  <1>10. ASSUME UNCHANGED crashes
         PROVE  Allowed' \in Nat /\ Allowed <= Allowed'
    <2>1. NamelessAccount => NamelessAccount'
      BY NamesStay DEF NamelessAccount
    <2> QED BY <1>1, <1>10, <2>1 DEF Allowed
  <1>11. ASSUME UNCHANGED crashes, Unkeyed' \subseteq Unkeyed
         PROVE  IsFiniteSet(Unkeyed') /\ Cardinality(Unkeyed') <= Allowed'
    <2>1. Allowed' \in Nat /\ Allowed <= Allowed'
      BY <1>10, <1>11
    <2>2. Cardinality(Unkeyed) <= Allowed'
      BY <1>1, <2>1, FS_CardinalityType
    <2> QED BY <1>1, <1>11, <2>1, <2>2, UnkeyedSame
  <1>2. CASE UNCHANGED <<accounts, crashes>> /\ pc # "sessionKey" /\ pc' # "sessionKey"
    <2>1. Unkeyed' \subseteq Unkeyed
      BY <1>2 DEF Unkeyed
    <2> QED BY <1>2, <1>11, <2>1 DEF UnkeyedInv
  <1>3. ASSUME NEW u \in Users, Login(u)
        PROVE  UnkeyedInv'
    <2>1. UNCHANGED <<accounts, crashes>> /\ pc = "idle"
      BY <1>3 DEF Login, dbVars
    <2>2. Unkeyed' \subseteq Unkeyed
      BY <2>1 DEF Unkeyed
    <2>3. pc' = "sessionKey" => /\ account'.id \in DOMAIN accounts
                                /\ accounts[account'.id].sessionKey = account'.sessionKey
      BY <1>3 DEF Login, Loaded
    <2> QED BY <1>11, <2>1, <2>2, <2>3 DEF UnkeyedInv
  <1>4. CASE Insert
    <2>1. /\ pc = "insert" /\ UNCHANGED <<account, crashes>>
          /\ account.id \notin DOMAIN accounts
          /\ DOMAIN accounts' = DOMAIN accounts \cup {account.id}
          /\ accounts'[account.id].name = account.name
          /\ accounts'[account.id].sessionKey = account.sessionKey
          /\ \A id \in DOMAIN accounts : accounts'[id] = accounts[id]
      BY <1>4 DEF Insert, faultVars
    <2>2. CASE pc' = "sessionKey"
      <3>1. Unkeyed' \subseteq Unkeyed
        BY <2>1, <2>2 DEF Unkeyed
      <3> QED BY <1>11, <2>1, <2>2, <3>1 DEF UnkeyedInv
    <2>3. CASE pc' = "idle" /\ user = NoName
      <3>1. ~NamelessAccount /\ NamelessAccount'
        BY <2>1, <2>3 DEF StoreInv, CreatesNew, OwnName, Creating, NamelessAccount
      <3>2. Allowed' = Allowed + 1
        BY <1>1, <2>1, <3>1 DEF Allowed
      <3>3. Unkeyed' \subseteq Unkeyed \cup {account.id}
        BY <2>1, <2>3 DEF Unkeyed
      <3> QED BY <1>1, <2>3, <3>2, <3>3, UnkeyedAdds DEF UnkeyedInv
    <2> QED BY <1>4, <2>2, <2>3 DEF Insert, Decide
  <1>5. CASE SessionKey
    <2>1. /\ pc = "sessionKey" /\ pc' = "reply" /\ UNCHANGED crashes
          /\ account.id \in DOMAIN accounts
          /\ accounts[account.id].sessionKey = account.sessionKey
      BY <1>5 DEF SessionKey, faultVars, UnkeyedInv
    <2>2. PICK id \in DOMAIN accounts :
            /\ accounts[id].sessionKey = account.sessionKey
            /\ accounts' = [accounts EXCEPT ![id].sessionKey = clock]
      BY <1>5, <2>1 DEF SessionKey, StoreKey
    <2>3. /\ DOMAIN accounts' = DOMAIN accounts
          /\ accounts'[id].sessionKey = clock
          /\ \A other \in DOMAIN accounts : other # id => accounts'[other] = accounts[other]
      <3>1. accounts[id] \in Document
        BY <1>1, <2>2 DEF TypeOK
      <3> QED BY <2>2, <3>1 DEF Document
    <2>4. Unkeyed' = AllUnkeyed \ {id}
      BY <1>1, <2>1, <2>3 DEF Unkeyed, AllUnkeyed
    <2>5. Unkeyed = AllUnkeyed \ {account.id}
      BY <2>1 DEF Unkeyed, AllUnkeyed
    <2>6. CASE id \in Unkeyed
      <3>1. Unkeyed' \subseteq (Unkeyed \ {id}) \cup {account.id}
        BY <2>4, <2>5
      <3>2. IsFiniteSet(Unkeyed') /\ Cardinality(Unkeyed') <= Allowed
        BY <1>1, <2>6, <3>1, UnkeyedSwaps
      <3>3. IsFiniteSet(Unkeyed') /\ Cardinality(Unkeyed') <= Allowed'
        BY <1>1, <1>10, <2>1, <3>2, FS_CardinalityType
      <3> QED BY <2>1, <3>3 DEF UnkeyedInv
    <2>7. CASE id \notin Unkeyed
      <3>1. Unkeyed' \subseteq Unkeyed
        BY <2>1, <2>2, <2>4, <2>5, <2>7 DEF AllUnkeyed
      <3> QED BY <1>11, <2>1, <3>1 DEF UnkeyedInv
    <2> QED BY <2>6, <2>7
  <1>6. CASE LoginToken \/ ComboToken
    <2>1. /\ StoreToken(account.token, clock) /\ account.token \in Nat /\ clock \in Nat
          /\ pc # "sessionKey" /\ pc' # "sessionKey" /\ UNCHANGED crashes
      BY <1>1, <1>6 DEF LoginToken, ComboToken, TypeOK, faultVars
    <2>2. /\ DOMAIN accounts' = DOMAIN accounts
          /\ \A id \in DOMAIN accounts : accounts'[id].sessionKey = accounts[id].sessionKey
      BY <1>1, <2>1, StoreTokenChanges
    <2>3. Unkeyed' = Unkeyed
      BY <2>1, <2>2 DEF Unkeyed
    <2> QED BY <1>11, <2>1, <2>3 DEF UnkeyedInv
  <1>7. CASE Crash
    <2>1. UNCHANGED accounts /\ pc' = "idle" /\ crashes' = crashes + 1
      BY <1>7 DEF Crash, dbVars
    <2>2. Unkeyed' \subseteq Unkeyed \cup {account.id}
      BY <2>1 DEF Unkeyed
    <2>3. Allowed' = Allowed + 1
      BY <1>1, <2>1 DEF Allowed, NamelessAccount
    <2> QED BY <1>1, <2>1, <2>2, <2>3, UnkeyedAdds DEF UnkeyedInv
  <1>8. CASE UNCHANGED vars
    BY <1>8 DEF vars, dbVars, faultVars, UnkeyedInv, Unkeyed, Allowed, NamelessAccount
  <1>9. CASE NextId \/ Reply \/ \E u \in Users : Verify(u) \/ ComboLogin(u)
    BY <1>2, <1>9 DEF NextId, Reply, Verify, ComboLogin, dbVars, faultVars
  <1> QED
    BY <1>3, <1>4, <1>5, <1>6, <1>7, <1>8, <1>9 DEF Next, Handler, Request

\* However logins are cut off and repeated, there are no more accounts without
\* a session key than the process has died, the one of the empty name and the
\* one being created aside.
THEOREM CrashesBoundUnkeyed == Spec => []UnkeyedBounded
  <1>1. UnkeyedInv => UnkeyedBounded
    BY DEF UnkeyedInv, UnkeyedBounded, Allowed
  <1>2. StoreInv /\ UnkeyedInv /\ [Next]_vars => (StoreInv /\ UnkeyedInv)'
    BY StepInv, UnkeyedStep
  <1> QED BY InitInv, UnkeyedInit, <1>1, <1>2, PTL DEF Spec

==============================================================================
