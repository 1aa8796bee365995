---------------------------- MODULE StartupProofs ----------------------------
(***************************************************************************)
(* The configuration is read right and into room enough, and what the io   *)
(* threads serve while main still starts finds what it needs.              *)
(***************************************************************************)
EXTENDS Startup, SequenceTheorems, FiniteSetTheorems, TLAPS

Names == {"server", "databaseInfo", "RegionInfo", "dispatch", "game", "bindAddress",
          "bindPort", "connectionUri", "collection", "name", "title", "ip"}
Paths == Seq(Names)

-----------------------------------------------------------------------------
(* The stack.                                                               *)

LEMMA Tuples ==
    ASSUME NEW S, NEW a \in S, NEW b \in S, NEW c \in S
    PROVE  /\ <<a>> \in Seq(S) /\ <<a, b>> \in Seq(S) /\ <<a, b, c>> \in Seq(S)
           /\ Len(<<a, b>>) = 2 /\ Len(<<a, b, c>>) = 3
OBVIOUS

LEMMA SettingsPaths ==
    /\ DOMAIN Settings = 1..9 /\ Len(Settings) = 9
    /\ \A i \in 1..9 : /\ Settings[i] \in Paths
                       /\ i <= 4 => Len(Settings[i]) = 3
                       /\ i > 4 => Len(Settings[i]) = 2
<1>1. /\ Settings[1] = <<"server", "dispatch", "bindAddress">>
      /\ Settings[2] = <<"server", "dispatch", "bindPort">>
      /\ Settings[3] = <<"server", "game", "bindAddress">>
      /\ Settings[4] = <<"server", "game", "bindPort">>
      /\ Settings[5] = <<"databaseInfo", "connectionUri">>
      /\ Settings[6] = <<"databaseInfo", "collection">>
      /\ Settings[7] = <<"RegionInfo", "name">>
      /\ Settings[8] = <<"RegionInfo", "title">>
      /\ Settings[9] = <<"RegionInfo", "ip">>
  BY DEF Settings
<1>2. /\ "server" \in Names /\ "databaseInfo" \in Names /\ "RegionInfo" \in Names
      /\ "dispatch" \in Names /\ "game" \in Names /\ "bindAddress" \in Names
      /\ "bindPort" \in Names /\ "connectionUri" \in Names /\ "collection" \in Names
      /\ "name" \in Names /\ "title" \in Names /\ "ip" \in Names
  BY DEF Names
<1>3. /\ Settings[1] \in Paths /\ Settings[2] \in Paths /\ Settings[3] \in Paths
      /\ Settings[4] \in Paths /\ Settings[5] \in Paths /\ Settings[6] \in Paths
      /\ Settings[7] \in Paths /\ Settings[8] \in Paths /\ Settings[9] \in Paths
  <2>1. \A a, b \in Names : <<a, b>> \in Paths
    BY Tuples DEF Paths
  <2>2. \A a, b, c \in Names : <<a, b, c>> \in Paths
    BY Tuples DEF Paths
  <2> QED
    BY <1>1, <1>2, <2>1, <2>2
<1>4. /\ Len(Settings[1]) = 3 /\ Len(Settings[2]) = 3 /\ Len(Settings[3]) = 3
      /\ Len(Settings[4]) = 3 /\ Len(Settings[5]) = 2 /\ Len(Settings[6]) = 2
      /\ Len(Settings[7]) = 2 /\ Len(Settings[8]) = 2 /\ Len(Settings[9]) = 2
  BY DEF Settings
<1>5. DOMAIN Settings = 1..9 /\ Len(Settings) = 9
  BY DEF Settings
<1> QED
  BY <1>3, <1>4, <1>5

\* A path is pushed name by name.
LEMMA GrowTo2 ==
    ASSUME NEW S, NEW a \in S, NEW b \in S
    PROVE  Append(<<a>>, b) = <<a, b>>
<1> DEFINE one == <<a>>  two == <<a, b>>  more == Append(one, b)
<1>1. one \in Seq(S) /\ Len(one) = 1 /\ one[1] = a
  OBVIOUS
<1>2. two \in Seq(S) /\ Len(two) = 2 /\ two[1] = a /\ two[2] = b
  OBVIOUS
<1> HIDE DEF one, two
<1>3. more \in Seq(S) /\ Len(more) = 2 /\ more[1] = a /\ more[2] = b
  BY <1>1 DEF one
<1> HIDE DEF more
<1>4. more = two
  BY <1>2, <1>3, SeqEqual
<1> QED
  BY <1>4 DEF one, two, more

LEMMA GrowTo3 ==
    ASSUME NEW S, NEW a \in S, NEW b \in S, NEW c \in S
    PROVE  Append(<<a, b>>, c) = <<a, b, c>>
<1> DEFINE two == <<a, b>>  three == <<a, b, c>>  more == Append(two, c)
<1>1. two \in Seq(S) /\ Len(two) = 2 /\ two[1] = a /\ two[2] = b
  OBVIOUS
<1>2. three \in Seq(S) /\ Len(three) = 3 /\ three[1] = a /\ three[2] = b /\ three[3] = c
  OBVIOUS
<1> HIDE DEF two, three
<1>3. more \in Seq(S) /\ Len(more) = 3 /\ more[1] = a /\ more[2] = b /\ more[3] = c
  BY <1>1 DEF two
<1> HIDE DEF more
<1>4. more = three
  BY <1>2, <1>3, SeqEqual
<1> QED
  BY <1>4 DEF two, three, more

LEMMA OnTop ==
    ASSUME NEW s \in Seq(Paths), NEW p \in Paths
    PROVE  /\ Append(s, p) \in Seq(Paths) /\ Len(Append(s, p)) = Len(s) + 1
           /\ Last(Append(s, p)) = p
BY DEF Last

\* lua_getfield on a path of two or three names: as many values are pushed, and
\* the last is the path's own, whatever lay on the stack before.
LEMMA PushedOnTop ==
    ASSUME stack \in Seq(Paths), NEW path \in Paths, Len(path) \in {2, 3}
    PROVE  /\ Pushed(path) \in Seq(Paths)
           /\ Len(Pushed(path)) = Len(stack) + Len(path)
           /\ Last(Pushed(path)) = path
<1> DEFINE table == Append(stack, <<path[1]>>)
           field == GetField(table, path[2])
           last == GetField(field, path[3])
<1>1. path[1] \in Names /\ path[2] \in Names /\ (Len(path) = 3 => path[3] \in Names)
  BY ElementOfSeq DEF Paths
<1>2. table \in Seq(Paths) /\ Len(table) = Len(stack) + 1 /\ Last(table) = <<path[1]>>
  BY <1>1, OnTop, Tuples DEF Paths
<1> HIDE DEF table
<1>3. field = Append(table, <<path[1], path[2]>>)
  BY <1>1, <1>2, GrowTo2, Zenon DEF GetField
<1>4. /\ field \in Seq(Paths) /\ Len(field) = Len(stack) + 2
      /\ Last(field) = <<path[1], path[2]>>
  <2>1. <<path[1], path[2]>> \in Paths
    BY <1>1, Tuples, Zenon DEF Paths
  <2> QED
    BY <1>2, <1>3, <2>1, OnTop
<1> HIDE DEF field
<1>5. CASE Len(path) = 2
  <2>1. Pushed(path) = field
    BY <1>5 DEF Pushed, table, field
  <2>2. path = <<path[1], path[2]>>
    BY <1>5 DEF Paths
  <2> QED
    BY <1>4, <1>5, <2>1, <2>2
<1>6. CASE Len(path) = 3
  <2>1. last = Append(field, <<path[1], path[2], path[3]>>)
    <3>1. Append(<<path[1], path[2]>>, path[3]) = <<path[1], path[2], path[3]>>
      BY <1>1, <1>6, GrowTo3, Zenon
    <3> QED
      BY <1>4, <3>1, Zenon DEF GetField
  <2>2. /\ last \in Seq(Paths) /\ Len(last) = Len(stack) + 3
        /\ Last(last) = <<path[1], path[2], path[3]>>
    <3>1. <<path[1], path[2], path[3]>> \in Paths
      BY <1>1, <1>6, Tuples, Zenon DEF Paths
    <3> QED
      BY <1>4, <2>1, <3>1, OnTop
  <2> HIDE DEF last
  <2>3. Pushed(path) = last
    BY <1>6 DEF Pushed, table, field, last
  <2>4. path = <<path[1], path[2], path[3]>>
    BY <1>6 DEF Paths
  <2> QED
    BY <1>6, <2>2, <2>3, <2>4
<1> QED
  BY <1>5, <1>6

-----------------------------------------------------------------------------
(* Reading the values.                                                      *)

LEMMA FirstFew ==
    ASSUME NEW n \in Nat
    PROVE  IsFiniteSet(1..n) /\ Cardinality(1..n) = n
<1>1. IsFiniteSet(1..n) /\ Cardinality(1..n) = IF 1 > n THEN 0 ELSE n - 1 + 1
  BY FS_Interval
<1> QED
  BY <1>1

LEMMA DefaultPath == <<>> \in Seq(Paths) /\ <<Default>> \in Seq(Paths) /\ Len(<<Default>>) = 1
BY DEF Default, Paths

\* Those whose path has three names leave one value more when they are missing.
Long == 1..4

\* What the reads so far have taken, and what they have left on the stack.
ReadInv ==
    /\ read \in 0..9 /\ stack \in Seq(Paths)
    /\ missing \subseteq 1..read
    /\ Cardinality(missing) <= MaxMissing
    /\ Len(stack) <= 1 + read + Cardinality(missing) + Cardinality(missing \cap Long)
    /\ pc = "keys" => stack = <<>>
    /\ pc \in {"keys", "file"} => read = 0
    /\ values = [i \in 1..9 |-> IF i \in 1..read \ missing THEN Settings[i] ELSE Default]

LEMMA ReadInit == Init => ReadInv
<1> SUFFICES ASSUME Init PROVE ReadInv
  OBVIOUS
<1>1. Cardinality({}) = 0 /\ {} \cap Long = {}
  BY FS_EmptySet
<1> QED
  BY <1>1, SettingsPaths, StartupAssumption DEF Init, ReadInv

\* One more value read, or found missing.
LEMMA ReadOne ==
    ASSUME ReadInv, ReadValue
    PROVE  ReadInv'
<1>1. PICK n : n = read + 1
  OBVIOUS
<1>2. read \in 0..8 /\ n \in 1..9 /\ read' = n /\ pc' = "settings" /\ pc = "settings"
  BY <1>1, SettingsPaths DEF ReadInv, ReadValue
<1>3. PICK path : path = Settings[n]
  OBVIOUS
<1>4. path \in Paths /\ Len(path) = IF n \in Long THEN 3 ELSE 2
  <2>1. path \in Paths /\ (n <= 4 => Len(path) = 3) /\ (n > 4 => Len(path) = 2)
    BY <1>2, <1>3, SettingsPaths
  <2> QED
    BY <1>2, <2>1 DEF Long
<1>5. PICK pushed : pushed = Pushed(path)
  OBVIOUS
<1>6. pushed \in Seq(Paths) /\ Len(pushed) = Len(stack) + Len(path) /\ Last(pushed) = path
  BY <1>4, <1>5, PushedOnTop DEF ReadInv
<1>7. PICK right \in BOOLEAN :
        /\ right \/ Cardinality(missing) < MaxMissing
        /\ missing' = IF right THEN missing ELSE missing \cup {n}
        /\ values' = [values EXCEPT ![n] = IF right /\ Last(pushed) = path THEN Last(pushed) ELSE @]
        /\ stack' = LeftBehind(pushed, path, right)
  BY <1>1, <1>3, <1>5 DEF ReadValue
<1>8. IsFiniteSet(missing) /\ IsFiniteSet(missing \cap Long)
  <2>1. IsFiniteSet(1..read)
    BY <1>2, FS_Interval
  <2>2. missing \subseteq 1..read /\ missing \cap Long \subseteq 1..read
    BY DEF ReadInv
  <2> QED
    BY <2>1, <2>2, FS_Subset
<1>9. /\ Cardinality(missing) \in Nat /\ Cardinality(missing \cap Long) \in Nat
      /\ Len(stack) \in Nat
  BY <1>8, FS_CardinalityType DEF ReadInv
<1>10. n \notin missing
  BY <1>1, <1>2 DEF ReadInv
<1>11. values = [i \in 1..9 |-> IF i \in 1..read \ missing THEN Settings[i] ELSE Default]
  BY DEF ReadInv
<1>12. CASE right
  <2>1. stack' = SubSeq(pushed, 1, Len(pushed) - (Len(path) - 1))
    BY <1>7, <1>12 DEF LeftBehind
  <2>2. stack' \in Seq(Paths) /\ Len(stack') = Len(stack) + 1
    <3>1. PICK l : l = Len(pushed) - (Len(path) - 1)
      OBVIOUS
    <3>2. l = Len(stack) + 1 /\ l \in 1..Len(pushed)
      BY <1>4, <1>6, <1>9, <3>1
    <3>3. stack' = SubSeq(pushed, 1, l)
      BY <2>1, <3>1
    <3> QED
      BY <1>6, <3>2, <3>3, SubSeqProperties
  <2>3. missing' = missing
    BY <1>7, <1>12
  <2>4. values' = [i \in 1..9 |-> IF i \in 1..n \ missing THEN Settings[i] ELSE Default]
    <3>1. values' = [values EXCEPT ![n] = path]
      BY <1>6, <1>7, <1>12
    <3>2. \A i \in 1..9 : i \in 1..n \ missing <=> i = n \/ i \in 1..read \ missing
      BY <1>1, <1>2, <1>10
    <3> QED
      BY <1>2, <1>3, <1>11, <3>1, <3>2
  <2>5. missing \subseteq 1..n /\ Cardinality(missing) <= MaxMissing
    BY <1>1, <1>2 DEF ReadInv
  <2>6. Len(stack') <= 1 + n + Cardinality(missing) + Cardinality(missing \cap Long)
    BY <1>1, <1>2, <1>9, <2>2 DEF ReadInv
  <2> QED
    BY <1>2, <2>2, <2>3, <2>4, <2>5, <2>6 DEF ReadInv
<1>13. CASE ~right
  <2>1. stack' = pushed
    BY <1>7, <1>13 DEF LeftBehind
  <2>2. missing' = missing \cup {n} /\ missing' \subseteq 1..n
    BY <1>1, <1>2, <1>7, <1>13 DEF ReadInv
  <2>3. Cardinality(missing') = Cardinality(missing) + 1
    BY <1>8, <1>10, <2>2, FS_AddElement
  <2>4. Cardinality(missing') <= MaxMissing
    BY <1>7, <1>9, <1>13, <2>3, StartupAssumption
  <2>5. Len(stack') <= 1 + n + Cardinality(missing') + Cardinality(missing' \cap Long)
    <3>1. Len(stack) <= 1 + read + Cardinality(missing) + Cardinality(missing \cap Long)
      BY DEF ReadInv
    <3>2. CASE n \in Long
      <4>1. missing' \cap Long = (missing \cap Long) \cup {n}
        BY <2>2, <3>2
      <4>2. Cardinality(missing' \cap Long) = Cardinality(missing \cap Long) + 1
        BY <1>8, <1>10, <4>1, FS_AddElement
      <4>3. Len(stack') = Len(stack) + 3
        BY <1>4, <1>6, <2>1, <3>2
      <4> QED
        BY <1>1, <1>2, <1>9, <2>3, <3>1, <4>2, <4>3
    <3>3. CASE n \notin Long
      <4>1. missing' \cap Long = missing \cap Long
        BY <2>2, <3>3
      <4>2. Len(stack') = Len(stack) + 2
        BY <1>4, <1>6, <2>1, <3>3
      <4> QED
        <5>1. Cardinality(missing' \cap Long) = Cardinality(missing \cap Long)
          BY <4>1, Zenon
        <5> QED
          BY <1>1, <1>2, <1>9, <2>3, <3>1, <4>2, <5>1
    <3> QED
      BY <3>2, <3>3
  <2>6. values' = [i \in 1..9 |-> IF i \in 1..n \ missing' THEN Settings[i] ELSE Default]
    <3>1. values' = [values EXCEPT ![n] = values[n]]
      BY <1>7, <1>13
    <3>2. values' = values
      BY <1>2, <1>11, <3>1
    <3>3. \A i \in 1..9 : i \in 1..n \ missing' <=> i \in 1..read \ missing
      BY <1>1, <1>2, <2>2
    <3> QED
      BY <1>11, <3>2, <3>3
  <2> QED
    BY <1>2, <1>6, <2>1, <2>2, <2>4, <2>5, <2>6 DEF ReadInv
<1> QED
  BY <1>12, <1>13

\* The reads leave the others alone, and the others them.
LEMMA ReadStep ==
    ASSUME ReadInv, [Next]_vars
    PROVE  ReadInv'
<1>1. CASE LoadKeys
  BY <1>1 DEF ReadInv, LoadKeys, luaVars
<1>2. CASE LoadFile
  <2>1. read = 0 /\ read' = 0 /\ missing = {} /\ missing' = {} /\ pc' = "settings"
    BY <1>2 DEF ReadInv, LoadFile
  <2>2. stack' \in Seq(Paths) /\ Len(stack') <= 1
    <3>1. stack' = <<>> \/ stack' = <<Default>>
      BY <1>2 DEF LoadFile
    <3>2. CASE stack' = <<>>
      BY <3>2, DefaultPath
    <3>3. CASE stack' = <<Default>>
      BY <3>3, DefaultPath
    <3> QED
      BY <3>1, <3>2, <3>3
  <2>3. Cardinality({}) = 0 /\ {} \cap Long = {}
    BY FS_EmptySet
  <2>4. values' = values
    BY <1>2 DEF LoadFile
  <2> QED
    BY <2>1, <2>2, <2>3, <2>4 DEF ReadInv
<1>3. CASE ReadValue
  BY <1>3, ReadOne
<1>4. CASE ReadPanics
  BY <1>4 DEF ReadInv, ReadPanics, Die, luaVars
<1>5. CASE InitDataBase
  BY <1>5 DEF ReadInv, InitDataBase, luaVars
<1>6. CASE Addresses
  BY <1>6 DEF ReadInv, Addresses, Proceed, Die, luaVars
<1>7. CASE LoadCertificate
  BY <1>7 DEF ReadInv, LoadCertificate, Proceed, Die, luaVars
<1>8. CASE StartHttp
  BY <1>8 DEF ReadInv, StartHttp, luaVars
<1>9. CASE StartGame
  BY <1>9 DEF ReadInv, StartGame, Die, luaVars
<1>10. CASE Stop
  BY <1>10 DEF ReadInv, Stop, Proceed, luaVars
<1>11. CASE Signal
  BY <1>11 DEF ReadInv, Signal, Die, luaVars
<1>12. CASE Request
  BY <1>12 DEF ReadInv, Request, Login, RegionList, Die, luaVars
<1>13. CASE Message
  BY <1>13 DEF ReadInv, Message, Die, luaVars
<1>14. CASE UNCHANGED vars
  BY <1>14 DEF ReadInv, vars, luaVars
<1> QED
  BY <1>1, <1>2, <1>3, <1>4, <1>5, <1>6, <1>7, <1>8, <1>9, <1>10, <1>11, <1>12, <1>13,
     <1>14 DEF Next, Main

LEMMA ReadAlways == Spec => []ReadInv
<1>1. ReadInv /\ [Next]_vars => ReadInv'
  BY ReadStep
<1> QED
  BY ReadInit, <1>1, PTL DEF Spec

\* Each value is the one of its own path, or the default if the file has none,
\* whatever earlier reads left on the stack.
THEOREM ValuesOfTheirPaths == Spec => []ValuesRight
<1>1. ReadInv => ValuesRight
  <2> SUFFICES ASSUME ReadInv, NEW i \in 1..read
               PROVE  values[i] = IF i \in missing THEN Default ELSE Settings[i]
    BY DEF ValuesRight
  <2>1. i \in 1..9 /\ (i \in 1..read \ missing <=> i \notin missing)
    BY DEF ReadInv
  <2> QED
    BY <2>1 DEF ReadInv
<1> QED
  BY <1>1, ReadAlways, PTL

\* Reads that check nothing find room for what they push, if the file is short
\* of few enough values: each may leave one value more than a read that finds
\* its own, and two if its path is long, as four of them are.
StackSuffices ==
    11 + MaxMissing + (IF MaxMissing < 4 THEN MaxMissing ELSE 4) <= MinStack

THEOREM RoomOnStack == ASSUME StackSuffices PROVE Spec => []StackFits
<1>1. ReadInv => StackFits
  <2> SUFFICES ASSUME ReadInv, pc = "settings", read < Len(Settings)
               PROVE  Len(stack) + Len(Settings[read + 1]) <= MinStack
    BY DEF StackFits
  <2>1. read \in 0..8 /\ missing \subseteq 1..read
    BY SettingsPaths DEF ReadInv
  <2>2. /\ IsFiniteSet(missing) /\ IsFiniteSet(Long \cap 1..read)
        /\ Cardinality(Long \cap 1..read) = IF read < 4 THEN read ELSE 4
    <3>1. IsFiniteSet(1..read) /\ Cardinality(1..read) = read
      BY <2>1, FirstFew
    <3>2. IsFiniteSet(1..4) /\ Cardinality(1..4) = 4
      BY FirstFew
    <3>3. Long \cap 1..read = IF read < 4 THEN 1..read ELSE 1..4
      BY <2>1 DEF Long
    <3> QED
      BY <2>1, <3>1, <3>2, <3>3, FS_Subset
  <2>3. missing \cap Long \subseteq Long \cap 1..read /\ missing \cap Long \subseteq missing
    BY <2>1
  <2>4. /\ Cardinality(missing \cap Long) <= Cardinality(Long \cap 1..read)
        /\ Cardinality(missing \cap Long) <= Cardinality(missing)
        /\ Cardinality(missing \cap Long) \in Nat /\ Cardinality(missing) \in Nat
    BY <2>2, <2>3, FS_Subset, FS_CardinalityType
  <2>5. Cardinality(missing) <= read
    <3>1. IsFiniteSet(1..read) /\ Cardinality(1..read) = read
      BY <2>1, FirstFew
    <3> QED
      BY <2>1, <3>1, FS_Subset
  <2>6. Len(Settings[read + 1]) = IF read < 4 THEN 3 ELSE 2
    <3>1. PICK n : n = read + 1
      OBVIOUS
    <3>2. n \in 1..9 /\ (read < 4 <=> n <= 4)
      BY <2>1, <3>1
    <3>3. (n <= 4 => Len(Settings[n]) = 3) /\ (n > 4 => Len(Settings[n]) = 2)
      BY <3>2, SettingsPaths
    <3>4. CASE read < 4
      <4>1. Len(Settings[read + 1]) = 3
        BY <3>1, <3>2, <3>3, <3>4, Zenon
      <4> QED
        BY <3>4, <4>1, Zenon
    <3>5. CASE ~(read < 4)
      <4>1. n > 4
        BY <2>1, <3>1, <3>5
      <4>2. Len(Settings[read + 1]) = 2
        BY <3>1, <3>3, <4>1, Zenon
      <4> QED
        BY <3>5, <4>2, Zenon
    <3> QED
      BY <3>4, <3>5
  <2>7. /\ Len(stack) \in Nat /\ Cardinality(missing) <= MaxMissing
        /\ Len(stack) <= 1 + read + Cardinality(missing) + Cardinality(missing \cap Long)
    BY DEF ReadInv
  <2> QED
    BY <2>1, <2>2, <2>4, <2>5, <2>6, <2>7, StackSuffices, StartupAssumption DEF StackSuffices
<1> QED
  BY <1>1, ReadAlways, PTL

-----------------------------------------------------------------------------
(* What is served.                                                          *)

\* How far main is when the io threads serve requests and messages: past the
\* copy of the uri, which does not change again, and past the handlers.
ServeInv ==
    /\ pc \in {"keys", "file", "settings", "addresses", "certificate",
               "http", "handlers", "game", "run", "stopping"}
    /\ accepting => pc \in {"handlers", "game", "run", "stopping"}
    /\ pooledUri # NotYet => accepting /\ pooledUri = connectionUri
    /\ pc \notin {"keys", "file", "settings"} => connectionUri = values[Uri]
    /\ pc \in {"game", "run", "stopping"} => handlers
    /\ receiving => handlers
    /\ death # "no handler"

\* Nor does what ends the process serve anything more.
LEMMA ServeDie ==
    ASSUME ServeInv, NEW how, how # "no handler", Die(how)
    PROVE  ServeInv'
BY DEF ServeInv, Die, luaVars, dbVars, serverVars

LEMMA ServeStep ==
    ASSUME ServeInv, [Next]_vars
    PROVE  ServeInv'
<1>1. CASE LoadKeys
  BY <1>1 DEF ServeInv, LoadKeys, luaVars, dbVars, serverVars
<1>2. CASE LoadFile
  BY <1>2 DEF ServeInv, LoadFile, dbVars, serverVars
<1>3. CASE ReadValue
  BY <1>3 DEF ServeInv, ReadValue, dbVars, serverVars
<1>4. CASE ReadPanics
  BY <1>4 DEF ServeInv, ReadPanics, Die, luaVars, dbVars, serverVars
<1>5. CASE InitDataBase
  BY <1>5 DEF ServeInv, InitDataBase, luaVars, serverVars
<1>6. CASE Addresses
  <2>1. CASE Proceed("addresses", "certificate")
    BY <2>1 DEF ServeInv, Proceed, luaVars, dbVars, serverVars
  <2>2. CASE Die("uncaught")
    BY <2>2, ServeDie
  <2> QED
    BY <1>6, <2>1, <2>2 DEF Addresses
<1>7. CASE LoadCertificate
  <2>1. CASE Proceed("certificate", "http")
    BY <2>1 DEF ServeInv, Proceed, luaVars, dbVars, serverVars
  <2>2. CASE Die("uncaught")
    BY <2>2, ServeDie
  <2> QED
    BY <1>7, <2>1, <2>2 DEF LoadCertificate
<1>8. CASE StartHttp
  BY <1>8 DEF ServeInv, StartHttp, luaVars, dbVars
<1>9. CASE StartGame
  <2>1. CASE Die("uncaught")
    BY <2>1, ServeDie
  <2>2. CASE pc = "handlers" /\ handlers' = TRUE /\ pc' = "game"
    BY <1>9, <2>2 DEF ServeInv, StartGame, Die, luaVars, dbVars, serverVars
  <2>3. CASE pc = "game" /\ receiving' = TRUE /\ pc' = "run"
    BY <1>9, <2>3 DEF ServeInv, StartGame, Die, luaVars, dbVars, serverVars
  <2> QED
    BY <1>9, <2>1, <2>2, <2>3 DEF StartGame
<1>10. CASE Stop
  BY <1>10 DEF ServeInv, Stop, Proceed, luaVars, dbVars, serverVars
<1>11. CASE Signal
  BY <1>11 DEF ServeInv, Signal, Die, luaVars, dbVars, serverVars
<1>12. CASE Request
  <2>1. CASE accepting /\ Login
    BY <2>1 DEF ServeInv, Login, luaVars, serverVars
  <2>2. CASE Die("bad key")
    BY <2>2, ServeDie
  <2> QED
    BY <1>12, <2>1, <2>2 DEF Request, RegionList
<1>13. CASE Message
  <2>1. Die("bad key")
    BY <1>13, Zenon DEF Message, ServeInv
  <2> QED
    BY <2>1, ServeDie
<1>14. CASE UNCHANGED vars
  BY <1>14 DEF ServeInv, vars, luaVars, dbVars, serverVars
<1> QED
  BY <1>1, <1>2, <1>3, <1>4, <1>5, <1>6, <1>7, <1>8, <1>9, <1>10, <1>11, <1>12, <1>13,
     <1>14 DEF Next, Main

\* The io threads serve while main is still starting, but nothing before what it
\* needs is there: the pool has the uri of the configuration, however early the
\* first request comes, and no message finds the table of handlers empty.
THEOREM ServesWhenReady == Spec => []ReadyWhenServing
<1>1. Init => ServeInv
  BY DEF Init, ServeInv
<1>2. ServeInv /\ [Next]_vars => ServeInv'
  BY ServeStep
<1>3. ServeInv => ReadyWhenServing
  <2> SUFFICES ASSUME ServeInv, pooledUri # NotYet PROVE pooledUri = values[Uri]
    BY DEF ServeInv, ReadyWhenServing
  <2> QED
    BY DEF ServeInv
<1> QED
  BY <1>1, <1>2, <1>3, PTL DEF Spec

LEMMA UriIsOne == Uri \in 1..9
BY DEF Uri

\* The variables have their types.
THEOREM StartupTypes == Spec => []TypeOK
<1> DEFINE Rest ==
      /\ pc \in {"keys", "file", "settings", "addresses", "certificate",
                 "http", "handlers", "game", "run", "stopping"}
      /\ key \in {"none", "read", "bad"}
      /\ connectionUri \in {Default, Settings[Uri]}
      /\ pooledUri \in {NotYet, Default, Settings[Uri]}
      /\ {accepting, handlers, receiving} \subseteq BOOLEAN
      /\ signal \in {"none", "pending"}
      /\ death \in {"no", "panic", "uncaught", "killed", "bad key", "no handler"}
<1>1. Init => Rest
  BY DEF Init
<1>2. ReadInv /\ Rest /\ [Next]_vars => Rest'
  <2> SUFFICES ASSUME ReadInv, Rest, [Next]_vars PROVE Rest'
    OBVIOUS
  <2>1. values[Uri] \in {Default, Settings[Uri]}
    BY UriIsOne DEF ReadInv
  <2>2. CASE LoadKeys
    BY <2>2 DEF LoadKeys, luaVars, dbVars, serverVars
  <2>3. CASE LoadFile
    BY <2>3 DEF LoadFile, dbVars, serverVars
  <2>4. CASE ReadValue
    BY <2>4 DEF ReadValue, dbVars, serverVars
  <2>5. CASE ReadPanics
    BY <2>5 DEF ReadPanics, Die, luaVars, dbVars, serverVars
  <2>6. CASE InitDataBase
    BY <2>1, <2>6 DEF InitDataBase, luaVars, serverVars
  <2>7. CASE Addresses
    BY <2>7 DEF Addresses, Proceed, Die, luaVars, dbVars, serverVars
  <2>8. CASE LoadCertificate
    BY <2>8 DEF LoadCertificate, Proceed, Die, luaVars, dbVars, serverVars
  <2>9. CASE StartHttp
    BY <2>9 DEF StartHttp, luaVars, dbVars
  <2>10. CASE StartGame
    BY <2>10 DEF StartGame, Die, luaVars, dbVars, serverVars
  <2>11. CASE Stop
    BY <2>11 DEF Stop, Proceed, luaVars, dbVars, serverVars
  <2>12. CASE Signal
    BY <2>12 DEF Signal, Die, luaVars, dbVars, serverVars
  <2>13. CASE Request
    BY <2>13 DEF Request, Login, RegionList, Die, luaVars, dbVars, serverVars
  <2>14. CASE Message
    BY <2>14 DEF Message, Die, luaVars, dbVars, serverVars
  <2>15. CASE UNCHANGED vars
    BY <2>15 DEF vars, luaVars, dbVars, serverVars
  <2> QED
    BY <2>2, <2>3, <2>4, <2>5, <2>6, <2>7, <2>8, <2>9, <2>10, <2>11, <2>12, <2>13, <2>14,
       <2>15 DEF Next, Main
<1>3. ReadInv /\ Rest => TypeOK
  <2> SUFFICES ASSUME ReadInv, Rest PROVE TypeOK
    OBVIOUS
  <2>1. read \in 0..Len(Settings) /\ missing \subseteq 1..read
    BY SettingsPaths DEF ReadInv
  <2>2. Range(values) \subseteq Range(Settings) \cup {Default}
    BY SettingsPaths DEF ReadInv, Range
  <2> QED
    BY <2>1, <2>2 DEF TypeOK
<1> HIDE DEF Rest
<1> QED
  BY <1>1, <1>2, <1>3, ReadAlways, PTL DEF Spec
=============================================================================
