------------------------------- MODULE Startup -------------------------------
(***************************************************************************)
(* main: keys, configuration, database, io threads, certificate, HTTP and  *)
(* game servers, and the signals.  Main goes through them in turn while    *)
(* the io threads already serve what it has opened.  The configuration is  *)
(* read from tables of a Lua file, whose values may be missing or of       *)
(* another type; lua_State's stack holds what the reads push and do not    *)
(* pop.  What the servers do then is in HttpServer and GameServer.         *)
(***************************************************************************)
EXTENDS Integers, Sequences, FiniteSets, SequencesExt

CONSTANTS
    MinStack,       \* LUA_MINSTACK (20): what may be pushed without asking
    MaxMissing      \* so many values may be missing from the file

ASSUME StartupAssumption == MinStack \in Nat /\ MaxMissing \in Nat

\* The values Config::initCig reads, in its order, by their paths.
Settings ==
    << <<"server", "dispatch", "bindAddress">>, <<"server", "dispatch", "bindPort">>,
       <<"server", "game", "bindAddress">>, <<"server", "game", "bindPort">>,
       <<"databaseInfo", "connectionUri">>, <<"databaseInfo", "collection">>,
       <<"RegionInfo", "name">>, <<"RegionInfo", "title">>, <<"RegionInfo", "ip">> >>

Uri == 5            \* the number of the database's

Default == <<>>     \* "" or 0: a value that was not read

VARIABLES
    pc,             \* where main is
    read,           \* how many values initCig has read
    stack,          \* lua_State's stack: each entry the path of its value
    missing,        \* history: settings without a value of the right type
    values,         \* Config's fields: of each setting the path it was read from
    key,            \* the dispatch key: "none", "read", "bad" (no such file)
    connectionUri,  \* databaseManager's copy
    pooledUri,      \* the uri of the connection pool, made by the first request
    accepting,      \* the HTTP server takes connections
    handlers,       \* m_Packets is filled
    receiving,      \* AsyncRec is spawned
    signal,         \* "none", "pending"
    death           \* "no", or what ended the process

luaVars == <<read, stack, missing, values>>
dbVars == <<connectionUri, pooledUri>>
serverVars == <<accepting, handlers, receiving>>
vars == <<pc, luaVars, key, dbVars, serverVars, signal, death>>

NotYet == <<"not yet">>

Init ==
    /\ pc = "keys"
    /\ read = 0 /\ missing = {} /\ values = [i \in DOMAIN Settings |-> Default]
    /\ stack = <<>> /\ key = "none"
    /\ connectionUri = Default /\ pooledUri = NotYet
    /\ accepting = FALSE /\ handlers = FALSE /\ receiving = FALSE
    /\ signal = "none" /\ death = "no"

Die(how) ==
    /\ death' = how
    /\ UNCHANGED <<pc, luaVars, key, dbVars, serverVars, signal>>

-----------------------------------------------------------------------------
(* Config                                                                   *)

\* A file that is not there makes a key of no bytes that can be read.
LoadKeys ==
    /\ pc = "keys"
    /\ key' \in {"read", "bad"}
    /\ pc' = "file"
    /\ UNCHANGED <<luaVars, dbVars, serverVars, signal, death>>

\* luaL_dofile: an error is printed, and its message stays on the stack.
LoadFile ==
    /\ pc = "file"
    /\ stack' \in {<<>>, <<Default>>}
    /\ pc' = "settings"
    /\ UNCHANGED <<read, missing, values, key, dbVars, serverVars, signal, death>>

\* lua_getfield(L, -1, k) pushes a field of the value on top.
GetField_First(s, k) == Append(s, Append(s[1], k))   \* mutant: of the first value pushed
GetField(s, k) == Append(s, Append(Last(s), k))

\* A global table and one or two fields, each of what is then on top.
Pushed(path) ==
    LET table == Append(stack, <<path[1]>>)
        field == GetField(table, path[2])
    IN  IF Len(path) = 2 THEN field ELSE GetField(field, path[3])

\* What getValFromTable leaves, on its early return and when it pops the keys, but not the
\* table before them.
LeftBehind_All(s, path, right) == s               \* mutant: nothing popped
LeftBehind(s, path, right) ==
    IF right THEN SubSeq(s, 1, Len(s) - (Len(path) - 1)) ELSE s

\* The value on top is taken if it is of the right type; where a path ends at
\* no value of the file, nothing is.
ReadValue ==
    /\ pc = "settings" /\ read < Len(Settings)
    /\ LET path == Settings[read + 1]
           pushed == Pushed(path)
       IN  \E right \in BOOLEAN :
            /\ right \/ Cardinality(missing) < MaxMissing
            /\ missing' = IF right THEN missing ELSE missing \cup {read + 1}
            /\ values' = [values EXCEPT ![read + 1] =
                           IF right /\ Last(pushed) = path THEN Last(pushed) ELSE @]
            /\ stack' = LeftBehind(pushed, path, right)
    /\ read' = read + 1
    /\ UNCHANGED <<pc, key, dbVars, serverVars, signal, death>>

\* A table on the way is missing: lua_getfield of nil, with no one to catch it.
ReadPanics ==
    /\ pc = "settings" /\ read < Len(Settings)
    /\ Die("panic")

-----------------------------------------------------------------------------
(* main                                                                     *)

Proceed(from, to) ==
    /\ pc = from
    /\ pc' = to
    /\ UNCHANGED <<luaVars, key, dbVars, serverVars, signal, death>>

InitDataBase ==
    /\ pc = "settings" /\ read = Len(Settings) /\ pc' = "addresses"
    /\ connectionUri' = values[Uri]
    /\ UNCHANGED <<luaVars, key, pooledUri, serverVars, signal, death>>

\* The io threads are started; make_address throws for "", as for any other
\* value that is no address, or the signal_set is made.
Addresses ==
    \/ pc = "addresses" /\ Die("uncaught")
    \/ Default \notin {values[1], values[3]} /\ Proceed("addresses", "certificate")

LoadCertificate ==
    \/ Proceed("certificate", "http")
    \/ pc = "certificate" /\ Die("uncaught")

\* HttpServer: what fails is logged, and main goes on without it.
StartHttp ==
    /\ pc = "http"
    /\ accepting' \in BOOLEAN
    /\ pc' = "handlers"
    /\ UNCHANGED <<luaVars, key, dbVars, handlers, receiving, signal, death>>

\* GameServer: its socket is bound or throws; then handlers, then the loop.
StartGame_LoopFirst ==                            \* mutant: the loop spawned first
    \/ /\ pc = "handlers" /\ receiving' = TRUE /\ pc' = "game"
       /\ UNCHANGED <<luaVars, key, dbVars, accepting, handlers, signal, death>>
    \/ /\ pc = "game" /\ handlers' = TRUE /\ pc' = "run"
       /\ UNCHANGED <<luaVars, key, dbVars, accepting, receiving, signal, death>>
StartGame ==
    \/ pc = "handlers" /\ Die("uncaught")
    \/ /\ pc = "handlers" /\ handlers' = TRUE /\ pc' = "game"
       /\ UNCHANGED <<luaVars, key, dbVars, accepting, receiving, signal, death>>
    \/ /\ pc = "game" /\ receiving' = TRUE /\ pc' = "run"
       /\ UNCHANGED <<luaVars, key, dbVars, accepting, handlers, signal, death>>

\* io_context.run hands the signal to its handler, whenever it came.
Stop == signal = "pending" /\ Proceed("run", "stopping")

Main ==
    \/ LoadKeys \/ LoadFile \/ ReadValue \/ ReadPanics
    \/ InitDataBase \/ Addresses \/ LoadCertificate
    \/ StartHttp \/ StartGame \/ Stop

-----------------------------------------------------------------------------
(* Everyone else.                                                           *)

\* Before there is a signal_set a signal ends the process.
Signal ==
    IF pc \in {"keys", "file", "settings", "addresses"}
    THEN Die("killed")
    ELSE /\ signal' = "pending"
         /\ UNCHANGED <<pc, luaVars, key, dbVars, serverVars, death>>

\* An HTTP request on an io thread: the first login makes the connection pool,
\* and the region list is encrypted with the dispatch key.
Login ==
    /\ pooledUri' = IF pooledUri = NotYet THEN connectionUri ELSE pooledUri
    /\ UNCHANGED <<pc, luaVars, key, connectionUri, serverVars, signal, death>>
RegionList == key = "bad" /\ Die("bad key")
Request == accepting /\ (Login \/ RegionList)

\* A client's first message, decrypted with the dispatch key and handled.
Message ==
    /\ receiving
    /\ \/ key = "bad" /\ Die("bad key")
       \/ key = "read" /\ ~handlers /\ Die("no handler")

Next == death = "no" /\ (Main \/ Signal \/ Request \/ Message)

Spec == Init /\ [][Next]_vars

-----------------------------------------------------------------------------
(* Properties.                                                              *)

\* The variables have their types.
TypeOK ==
    /\ pc \in {"keys", "file", "settings", "addresses", "certificate",
               "http", "handlers", "game", "run", "stopping"}
    /\ read \in 0..Len(Settings) /\ missing \subseteq 1..read
    /\ Range(values) \subseteq Range(Settings) \cup {Default}
    /\ key \in {"none", "read", "bad"}
    /\ connectionUri \in {Default, Settings[Uri]}
    /\ pooledUri \in {NotYet, Default, Settings[Uri]}
    /\ {accepting, handlers, receiving} \subseteq BOOLEAN
    /\ signal \in {"none", "pending"}
    /\ death \in {"no", "panic", "uncaught", "killed", "bad key", "no handler"}

\* Each value is the one of its own path, or the default if the file has none:
\* what earlier reads left on the stack does not shift later ones.
ValuesRight ==
    \A i \in 1..read :
        values[i] = IF i \in missing THEN Default ELSE Settings[i]

\* Every read finds room on the stack for what it pushes, although no one asks
\* for it and earlier reads left values behind, if no more than MaxMissing
\* values are missing.
StackFits ==
    pc = "settings" /\ read < Len(Settings)
        => Len(stack) + Len(Settings[read + 1]) <= MinStack

\* The io threads serve while main is still starting, but nothing before what it
\* needs is there: the connection pool, made once for the life of the process,
\* has the uri of the configuration, however early the first request comes, and
\* no message finds the table of handlers empty.
ReadyWhenServing ==
    /\ pooledUri \in {NotYet, values[Uri]}
    /\ death # "no handler"
==============================================================================
