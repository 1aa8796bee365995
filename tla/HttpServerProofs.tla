--------------------------- MODULE HttpServerProofs ---------------------------
(***************************************************************************)
(* HttpServer for every number of connections and requests: a session does *)
(* one thing at a time, whence its answers come in turn and end with the   *)
(* one that closes the connection.                                         *)
(***************************************************************************)
EXTENDS HttpServer, TLAPS

\* What a session may be doing: nothing (not begun or ended), or one of these.
Quiet(c) == ops[c] = {} /\ writes[c] = <<>> /\ c \notin busy

Starting(c) ==
    /\ ops[c] \in {{"detect"}, {"handshake"}} /\ writes[c] = <<>> /\ c \notin busy
    /\ nread[c] = 0 /\ Len(answers[c]) = 0

Reading(c) ==
    /\ ops[c] = {"read"} /\ writes[c] = <<>> /\ c \notin busy
    /\ nread[c] = Len(answers[c])
    /\ \A i \in 1..nread[c] : asked[c][i].keepAlive

Handling(c) ==
    /\ ops[c] = {} /\ writes[c] = <<>> /\ c \in busy
    /\ nread[c] = Len(answers[c]) + 1

Writing(c) ==
    /\ ops[c] = {} /\ writes[c] = <<nread[c]>> /\ c \notin busy
    /\ nread[c] = Len(answers[c]) + 1

Closing(c) == ops[c] = {"shutdown"} /\ writes[c] = <<>> /\ c \notin busy

OneThing(c) ==
    Quiet(c) \/ Starting(c) \/ Reading(c) \/ Handling(c) \/ Writing(c) \/ Closing(c)

InTurn(c) == \A i \in DOMAIN answers[c] : answers[c][i] = i

KeptAlive(c) == \A i \in 1..nread[c] - 1 : asked[c][i].keepAlive

\* A connection is made once, and its session begins when it is accepted.
Untouched(c) == Quiet(c) /\ nread[c] = 0 /\ Len(answers[c]) = 0

OneBusy == \A c, d \in busy : c = d

HttpInv ==
    /\ TypeOK /\ OneBusy
    /\ \A c \in Conns : OneThing(c) /\ InTurn(c) /\ KeptAlive(c)
    /\ \A c \in unused \cup backlog : Untouched(c)

USE DEF Outstanding, Alive, Up, Handler, Starts, DoRead

\* A step that leaves a session's variables alone leaves what is said of it.
LEMMA SameSession ==
    ASSUME NEW c \in Conns, OneThing(c), InTurn(c), KeptAlive(c),
           ops'[c] = ops[c], writes'[c] = writes[c], c \in busy' <=> c \in busy,
           nread'[c] = nread[c], answers'[c] = answers[c], asked'[c] = asked[c]
    PROVE  /\ OneThing(c)' /\ InTurn(c)' /\ KeptAlive(c)'
           /\ Untouched(c) => Untouched(c)'
BY DEF OneThing, Quiet, Starting, Reading, Handling, Writing, Closing, InTurn, KeptAlive,
       Untouched

LEMMA HttpInit == Init => HttpInv
BY HttpAssumption
   DEF Init, HttpInv, OneBusy, TypeOK, Never, OneThing, Quiet, InTurn, KeptAlive, Untouched

-----------------------------------------------------------------------------

LEMMA ClientStep ==
    ASSUME HttpInv, NEW c \in Conns,
           Connect(c) \/ CloseSide(c) \/ \E request \in Requests : Ask(c, request)
    PROVE  HttpInv'
<1>1. TypeOK /\ \A d \in Conns : OneThing(d) /\ InTurn(d) /\ KeptAlive(d)
  BY DEF HttpInv
<1>2. CASE Connect(c)
  <2>1. TypeOK' /\ UNCHANGED <<asked, sessionVars>> /\ unused' \cup backlog' = unused \cup backlog
    BY <1>1, <1>2 DEF Connect, TypeOK, sessionVars, processVars
  <2> QED
    BY <1>1, <2>1, SameSession DEF HttpInv, OneBusy, sessionVars, TypeOK
<1>3. CASE CloseSide(c)
  <2>1. TypeOK' /\ UNCHANGED <<asked, sessionVars, unused, backlog>>
    BY <1>1, <1>3 DEF CloseSide, TypeOK, sessionVars, processVars
  <2> QED
    BY <1>1, <2>1, SameSession DEF HttpInv, OneBusy, sessionVars, TypeOK
<1>4. ASSUME NEW request \in Requests, Ask(c, request)
      PROVE  HttpInv'
  <2>1. /\ UNCHANGED <<accepting, eof, sessionVars, unused, backlog, processVars>>
        /\ asked' = [asked EXCEPT ![c] = Append(@, request)]
    BY <1>4 DEF Ask
  <2>2. asked[c] \in Seq(Requests) /\ nread[c] \in Nat /\ nread[c] <= Len(asked[c])
    BY <1>1 DEF TypeOK
  <2>3. /\ asked'[c] = Append(asked[c], request)
        /\ Len(asked'[c]) = Len(asked[c]) + 1
        /\ \A i \in 1..nread[c] : asked'[c][i] = asked[c][i]
    BY <1>1, <2>1, <2>2 DEF TypeOK
  <2>4. TypeOK'
    BY <1>1, <2>1, <2>2, <2>3 DEF TypeOK, sessionVars, processVars
  <2>5. OneThing(c)' /\ InTurn(c)' /\ KeptAlive(c)'
    BY <1>1, <2>1, <2>2, <2>3
       DEF sessionVars, OneThing, Quiet, Starting, Reading, Handling, Writing, Closing,
           InTurn, KeptAlive
  <2>6. \A d \in Conns \ {c} : asked'[d] = asked[d]
    BY <1>1, <2>1 DEF TypeOK
  <2>7. \A d \in Conns \ {c} : OneThing(d)' /\ InTurn(d)' /\ KeptAlive(d)'
    BY <1>1, <2>1, <2>6, SameSession DEF sessionVars
  <2>8. \A d \in unused' \cup backlog' : Untouched(d)'
    BY <2>1 DEF HttpInv, Untouched, Quiet, sessionVars
  <2> QED
    BY <2>1, <2>4, <2>5, <2>7, <2>8 DEF HttpInv, OneBusy, sessionVars
<1> QED
  BY <1>2, <1>3, <1>4

\* What remains to be shown of a step of one session that is doing something.
LEMMA OneSession ==
    ASSUME HttpInv, NEW c \in Conns, ~Quiet(c), TypeOK',
           UNCHANGED <<unused, backlog, asked>>, busy' \in {busy, {}, {c}},
           \A d \in Conns \ {c} :
               /\ ops'[d] = ops[d] /\ writes'[d] = writes[d] /\ (d \in busy' <=> d \in busy)
               /\ nread'[d] = nread[d] /\ answers'[d] = answers[d],
           OneThing(c)' /\ InTurn(c)' /\ KeptAlive(c)'
    PROVE  HttpInv'
<1>1. \A d \in Conns \ {c} :
        /\ OneThing(d)' /\ InTurn(d)' /\ KeptAlive(d)'
        /\ Untouched(d) => Untouched(d)'
  BY SameSession DEF HttpInv
<1>2. c \notin unused \cup backlog /\ unused \cup backlog \subseteq Conns
  BY DEF HttpInv, Untouched, TypeOK
<1> QED
  BY <1>1, <1>2 DEF HttpInv, OneBusy

\* The acceptor: a session begins.
LEMMA AcceptStep ==
    ASSUME HttpInv, NEW c \in Conns, OnAccept(c)
    PROVE  HttpInv'
<1>1. /\ TypeOK /\ c \in backlog /\ Untouched(c) /\ Limit \in Nat
      /\ \A d \in Conns : OneThing(d) /\ InTurn(d) /\ KeptAlive(d)
  BY HttpAssumption DEF HttpInv, OnAccept
<1>2. TypeOK'
  BY <1>1 DEF OnAccept, TypeOK, AcceptsAgain, ExpiresAfter, Never, clientVars, processVars
<1>3. OneThing(c)' /\ InTurn(c)' /\ KeptAlive(c)'
  BY <1>1 DEF OnAccept, TypeOK, Untouched, OneThing, Starting, Quiet, InTurn, KeptAlive, clientVars
<1>4. \A d \in Conns \ {c} : ops'[d] = ops[d] /\ UNCHANGED <<writes, busy, nread, answers, asked>>
  BY <1>1 DEF OnAccept, TypeOK, clientVars
<1>5. /\ c \notin unused' \cup backlog'
      /\ unused' \cup backlog' \subseteq (unused \cup backlog)
      /\ unused \cup backlog \subseteq Conns
  BY <1>1 DEF OnAccept, TypeOK, clientVars
<1>6. \A d \in Conns \ {c} :
        /\ OneThing(d)' /\ InTurn(d)' /\ KeptAlive(d)'
        /\ Untouched(d) => Untouched(d)'
  BY <1>1, <1>4, SameSession
<1> QED
  BY <1>2, <1>3, <1>4, <1>5, <1>6 DEF HttpInv, OneBusy, OnAccept

LEMMA DetectStep ==
    ASSUME HttpInv, NEW c \in Conns,
           OnHandshake(c) \/ \E isTls \in BOOLEAN : OnDetect(c, isTls)
    PROVE  HttpInv'
<1>1. TypeOK /\ Limit \in Nat /\ OneThing(c) /\ InTurn(c) /\ KeptAlive(c)
  BY HttpAssumption DEF HttpInv
<1>2. /\ ops[c] \in {{"detect"}, {"handshake"}} /\ writes[c] = <<>> /\ c \notin busy
      /\ nread[c] = 0 /\ Len(answers[c]) = 0 /\ ~Quiet(c)
  BY <1>1 DEF OnHandshake, OnDetect, OneThing, Quiet, Starting, Reading, Handling,
              Writing, Closing
<1>3. /\ ops' \in {[ops EXCEPT ![c] = {"handshake"}], [ops EXCEPT ![c] = {"read"}]}
      /\ left' = [left EXCEPT ![c] = Limit]
      /\ UNCHANGED <<accepting, backlog, clientVars, writes, nread, answers, busy, processVars>>
      /\ tls' \in [Conns -> BOOLEAN]
  BY <1>1 DEF OnHandshake, OnDetect, ExpiresAfter, TypeOK
<1>4. TypeOK'
  <2>1. ops' \in [Conns -> SUBSET {"detect", "handshake", "read", "shutdown"}]
    BY <1>1, <1>3 DEF TypeOK
  <2>2. left' \in [Conns -> 0..Never]
    <3>1. left \in [Conns -> 0..Never] /\ Limit \in 0..Never
      BY <1>1 DEF TypeOK, Never
    <3> QED
      BY <1>3, <3>1
  <2> QED
    BY <1>1, <1>3, <2>1, <2>2 DEF TypeOK, clientVars, processVars
<1>5. OneThing(c)' /\ InTurn(c)' /\ KeptAlive(c)'
  BY <1>1, <1>2, <1>3 DEF TypeOK, OneThing, Starting, Reading, InTurn, KeptAlive, clientVars
<1> QED
  BY <1>1, <1>2, <1>3, <1>4, <1>5, OneSession DEF TypeOK, clientVars

LEMMA ReadStep ==
    ASSUME HttpInv, NEW c \in Conns, OnRead(c)
    PROVE  HttpInv'
<1>1. TypeOK /\ OneThing(c) /\ InTurn(c) /\ KeptAlive(c)
  BY DEF HttpInv
<1>2. Reading(c) /\ ~Quiet(c) /\ busy = {} /\ nread[c] < Len(asked[c])
  BY <1>1 DEF OnRead, Complete, OneThing, Quiet, Starting, Reading, Handling, Writing, Closing
<1>3. /\ ops' = [ops EXCEPT ![c] = {}] /\ nread' = [nread EXCEPT ![c] = @ + 1] /\ busy' = {c}
      /\ UNCHANGED <<accepting, backlog, clientVars, writes, tls, left, answers, processVars>>
  BY DEF OnRead
<1>4. asked[c] \in Seq(Requests) /\ nread[c] \in Nat /\ Len(asked[c]) \in Nat
  BY <1>1 DEF TypeOK
<1>5. TypeOK'
  <2>1. /\ nread' \in [Conns -> Nat] /\ \A d \in Conns : nread'[d] <= Len(asked[d])
        /\ ops' \in [Conns -> SUBSET {"detect", "handshake", "read", "shutdown"}]
    BY <1>1, <1>2, <1>3, <1>4 DEF TypeOK
  <2> QED
    BY <1>1, <1>3, <2>1 DEF TypeOK, clientVars, processVars
<1>6. OneThing(c)' /\ InTurn(c)' /\ KeptAlive(c)'
  <2>1. /\ ops'[c] = {} /\ c \in busy' /\ nread'[c] = nread[c] + 1
        /\ writes'[c] = writes[c] /\ answers'[c] = answers[c] /\ asked'[c] = asked[c]
    BY <1>1, <1>3 DEF TypeOK, clientVars
  <2>2. Handling(c)'
    BY <1>2, <2>1 DEF Reading, Handling
  <2>3. KeptAlive(c)'
    BY <1>2, <1>4, <2>1 DEF Reading, KeptAlive
  <2> QED
    BY <1>1, <2>1, <2>2, <2>3 DEF OneThing, InTurn
<1>7. \A d \in Conns \ {c} :
        /\ ops'[d] = ops[d] /\ writes'[d] = writes[d] /\ (d \in busy' <=> d \in busy)
        /\ nread'[d] = nread[d] /\ answers'[d] = answers[d]
  BY <1>1, <1>2, <1>3 DEF TypeOK
<1>8. UNCHANGED <<unused, backlog, asked>> /\ busy' = {c}
  BY <1>3 DEF clientVars
<1> QED
  BY <1>2, <1>5, <1>6, <1>7, <1>8, OneSession

\* do_close
LEMMA CloseStep ==
    ASSUME NEW c \in Conns, TypeOK, DoClose(c)
    PROVE  /\ ops' \in {[ops EXCEPT ![c] = {"shutdown"}], [ops EXCEPT ![c] = {}]}
           /\ left' \in [Conns -> 0..Never]
<1>1. ops' \in {[ops EXCEPT ![c] = {"shutdown"}], [ops EXCEPT ![c] = {}]}
  BY DEF DoClose
<1>2. left' \in {left, [left EXCEPT ![c] = Limit]}
  BY DEF DoClose, ExpiresAfter
<1>3. Limit \in 0..Never /\ left \in [Conns -> 0..Never]
  BY HttpAssumption DEF TypeOK, Never
<1> QED
  BY <1>1, <1>2, <1>3

LEMMA EndOfStreamStep ==
    ASSUME HttpInv, NEW c \in Conns, OnEndOfStream(c)
    PROVE  HttpInv'
<1>1. TypeOK /\ OneThing(c) /\ InTurn(c) /\ KeptAlive(c)
  BY DEF HttpInv
<1>2. Reading(c) /\ ~Quiet(c)
  BY <1>1 DEF OnEndOfStream, OneThing, Quiet, Starting, Reading, Handling, Writing, Closing
<1>3. /\ ops' \in {[ops EXCEPT ![c] = {"shutdown"}], [ops EXCEPT ![c] = {}]}
      /\ left' \in [Conns -> 0..Never]
      /\ UNCHANGED <<accepting, backlog, clientVars, writes, tls, nread, answers, busy,
                     processVars>>
  BY <1>1, CloseStep DEF OnEndOfStream
<1>4. TypeOK'
  <2>1. PICK o \in {{}, {"shutdown"}} : ops' = [ops EXCEPT ![c] = o]
    BY <1>3
  <2>2. o \in SUBSET {"detect", "handshake", "read", "shutdown"}
    OBVIOUS
  <2>3. ops' \in [Conns -> SUBSET {"detect", "handshake", "read", "shutdown"}]
    BY <1>1, <2>1, <2>2 DEF TypeOK
  <2> QED
    BY <1>1, <1>3, <2>3 DEF TypeOK, clientVars, processVars
<1>5. OneThing(c)' /\ InTurn(c)' /\ KeptAlive(c)'
  BY <1>1, <1>2, <1>3
     DEF TypeOK, OneThing, Reading, Quiet, Closing, InTurn, KeptAlive, clientVars
<1> QED
  BY <1>1, <1>2, <1>3, <1>4, <1>5, OneSession DEF TypeOK, clientVars

-----------------------------------------------------------------------------
(* Answers.                                                                 *)

\* At most one of the three handlers answers a target.
LEMMA AtMostOneAnswer ==
    ASSUME NEW target, NEW n \in Sends(target)
    PROVE  n \in {0, 1}
BY DEF Sends, Answers, Root, handle_request, GenericHandler, LoginHandler

LEMMA HandledStep ==
    ASSUME HttpInv, NEW c \in Conns, Handled(c)
    PROVE  HttpInv'
<1>1. TypeOK /\ OneThing(c) /\ InTurn(c) /\ KeptAlive(c)
  BY DEF HttpInv
<1>2. Handling(c) /\ ~Quiet(c) /\ busy = {c} /\ nread[c] \in Nat
  BY <1>1 DEF HttpInv, OneBusy, TypeOK, Handled, OneThing, Quiet, Starting, Reading, Handling,
              Writing, Closing
<1>3. /\ ops' = [ops EXCEPT ![c] = {}] /\ busy' = {}
      /\ UNCHANGED <<accepting, backlog, clientVars, tls, left, nread, answers, processVars>>
  BY DEF Handled, Rearmed
<1>4. PICK n \in Sends(asked[c][nread[c]].target) :
        writes' = [writes EXCEPT ![c] = [i \in 1..n |-> nread[c]]]
  BY DEF Handled
<1>5. [i \in 1..n |-> nread[c]] \in {<<>>, <<nread[c]>>}
  BY <1>4, AtMostOneAnswer
<1>6. writes' \in {[writes EXCEPT ![c] = <<>>], [writes EXCEPT ![c] = <<nread[c]>>]}
  BY <1>4, <1>5
<1>7. TypeOK'
  <2>1. <<>> \in Seq(Nat) /\ <<nread[c]>> \in Seq(Nat)
    BY <1>2
  <2>2. writes' \in [Conns -> Seq(Nat)]
    BY <1>1, <1>6, <2>1 DEF TypeOK
  <2> QED
    BY <1>1, <1>3, <2>2 DEF TypeOK, clientVars, processVars
<1>8. OneThing(c)' /\ InTurn(c)' /\ KeptAlive(c)'
  <2>1. ops'[c] = {} /\ c \notin busy' /\ writes'[c] \in {<<>>, <<nread[c]>>}
    BY <1>1, <1>3, <1>6 DEF TypeOK
  <2> QED
    BY <1>1, <1>2, <1>3, <2>1
       DEF OneThing, Handling, Quiet, Writing, InTurn, KeptAlive, clientVars
<1>9. \A d \in Conns \ {c} :
        /\ ops'[d] = ops[d] /\ writes'[d] = writes[d] /\ (d \in busy' <=> d \in busy)
        /\ nread'[d] = nread[d] /\ answers'[d] = answers[d]
  BY <1>1, <1>2, <1>3, <1>6 DEF TypeOK
<1> QED
  BY <1>2, <1>3, <1>7, <1>8, <1>9, OneSession DEF clientVars

LEMMA WriteStep ==
    ASSUME HttpInv, NEW c \in Conns, NEW i \in DOMAIN writes[c], OnWrite(c, i)
    PROVE  HttpInv'
<1>1. TypeOK /\ OneThing(c) /\ InTurn(c) /\ KeptAlive(c) /\ Limit \in Nat
  BY HttpAssumption DEF HttpInv
<1>2. Writing(c) /\ ~Quiet(c) /\ nread[c] \in Nat /\ answers[c] \in Seq(Nat) /\ c \notin busy
  BY <1>1 DEF TypeOK, OneThing, Quiet, Starting, Reading, Handling, Writing, Closing
<1>3. i = 1 /\ writes[c] = <<nread[c]>> /\ writes[c][i] = nread[c]
  BY <1>2 DEF Writing
<1>4. RemoveAt(writes[c], i) = <<>>
  BY <1>2, <1>3 DEF RemoveAt
<1>5. /\ writes' = [writes EXCEPT ![c] = <<>>]
      /\ answers' = [answers EXCEPT ![c] = Append(@, nread[c])]
      /\ UNCHANGED <<accepting, backlog, clientVars, tls, nread, busy, processVars>>
  BY <1>1, <1>3, <1>4 DEF OnWrite, TypeOK
<1>6. /\ ops' \in {[ops EXCEPT ![c] = {"read"}], [ops EXCEPT ![c] = {"shutdown"}],
                   [ops EXCEPT ![c] = {}]}
      /\ ops' = [ops EXCEPT ![c] = {"read"}] => asked[c][nread[c]].keepAlive
      /\ left' \in [Conns -> 0..Never]
  <2>1. CASE KeepsAlive(asked[c][writes[c][i]])
    <3>1. ops' = [ops EXCEPT ![c] = {"read"}] /\ left' = [left EXCEPT ![c] = Limit]
      BY <2>1 DEF OnWrite, ExpiresAfter
    <3> QED
      BY <1>1, <1>3, <2>1, <3>1 DEF KeepsAlive, TypeOK, Never
  <2>2. CASE ~KeepsAlive(asked[c][writes[c][i]])
    <3>1. DoClose(c)
      BY <2>2 DEF OnWrite
    <3>2. ops'[c] # {"read"}
      <4>1. "read" \notin ops'[c]
        <5>1. ops' \in {[ops EXCEPT ![c] = {"shutdown"}], [ops EXCEPT ![c] = {}]}
          BY <1>1, <3>1, CloseStep
        <5>2. ops'[c] \in {{"shutdown"}, {}}
          BY <1>1, <5>1 DEF TypeOK
        <5> QED
          BY <5>2
      <4> QED
        BY <4>1
    <3> QED
      BY <1>1, <3>1, <3>2, CloseStep DEF TypeOK
  <2> QED
    BY <2>1, <2>2
<1>7. TypeOK'
  <2>1. Append(answers[c], nread[c]) \in Seq(Nat) /\ <<>> \in Seq(Nat)
    BY <1>2
  <2>2. writes' \in [Conns -> Seq(Nat)] /\ answers' \in [Conns -> Seq(Nat)]
    BY <1>1, <1>5, <2>1 DEF TypeOK
  <2>3. ops' \in [Conns -> SUBSET {"detect", "handshake", "read", "shutdown"}]
    <3>1. \A set \in {{"read"}, {"shutdown"}, {}} :
            [ops EXCEPT ![c] = set] \in [Conns -> SUBSET {"detect", "handshake", "read", "shutdown"}]
      BY <1>1 DEF TypeOK
    <3> QED
      BY <1>6, <3>1
  <2> QED
    BY <1>1, <1>5, <1>6, <2>2, <2>3 DEF TypeOK, clientVars, processVars
<1>8. OneThing(c)' /\ InTurn(c)' /\ KeptAlive(c)'
  <2>1. /\ writes'[c] = <<>> /\ answers'[c] = Append(answers[c], nread[c])
        /\ ops'[c] \in {{"read"}, {"shutdown"}, {}}
        /\ ops'[c] = {"read"} => asked[c][nread[c]].keepAlive
        /\ UNCHANGED <<busy, nread, asked>>
    BY <1>1, <1>5, <1>6 DEF TypeOK, clientVars
  <2>2. Len(answers'[c]) = nread[c] /\ InTurn(c)'
    BY <1>1, <1>2, <2>1 DEF Writing, InTurn
  <2>3. CASE ops'[c] = {"read"}
    <3>1. \A j \in 1..nread[c] : asked[c][j].keepAlive
      BY <1>1, <1>2, <2>1, <2>3 DEF KeptAlive
    <3> QED
      BY <1>1, <1>2, <2>1, <2>2, <2>3, <3>1 DEF OneThing, Reading, KeptAlive
  <2>4. CASE ops'[c] \in {{"shutdown"}, {}}
    BY <1>1, <1>2, <2>1, <2>2, <2>4 DEF OneThing, Quiet, Closing, KeptAlive
  <2> QED
    BY <2>1, <2>3, <2>4
<1>9. \A d \in Conns \ {c} :
        /\ ops'[d] = ops[d] /\ writes'[d] = writes[d] /\ (d \in busy' <=> d \in busy)
        /\ nread'[d] = nread[d] /\ answers'[d] = answers[d]
  BY <1>1, <1>5, <1>6 DEF TypeOK
<1> QED
  BY <1>2, <1>5, <1>7, <1>8, <1>9, OneSession DEF clientVars

-----------------------------------------------------------------------------
(* Ends.                                                                    *)

LEMMA EndStep ==
    ASSUME HttpInv, NEW c \in Conns, Expire(c) \/ Fail(c)
    PROVE  HttpInv'
<1>1. TypeOK /\ OneThing(c) /\ InTurn(c) /\ KeptAlive(c) /\ Limit \in Nat
  BY HttpAssumption DEF HttpInv
<1>2. /\ ~Quiet(c) /\ busy = {}
      /\ ops' = [ops EXCEPT ![c] = {}] /\ writes' = [writes EXCEPT ![c] = <<>>]
      /\ left' = [left EXCEPT ![c] = Never]
      /\ UNCHANGED <<accepting, backlog, clientVars, tls, nread, answers, busy, processVars>>
  BY DEF Expire, Fail, Ends, Quiet
<1>3. TypeOK'
  <2>1. /\ ops' \in [Conns -> SUBSET {"detect", "handshake", "read", "shutdown"}]
        /\ writes' \in [Conns -> Seq(Nat)]
        /\ left' \in [Conns -> 0..Never]
    BY <1>1, <1>2 DEF TypeOK, Never
  <2> QED
    BY <1>1, <1>2, <2>1 DEF TypeOK, clientVars, processVars
<1>4. OneThing(c)' /\ InTurn(c)' /\ KeptAlive(c)'
  BY <1>1, <1>2 DEF TypeOK, OneThing, Quiet, InTurn, KeptAlive, clientVars
<1>5. \A d \in Conns \ {c} : ops'[d] = ops[d] /\ writes'[d] = writes[d]
  BY <1>1, <1>2 DEF TypeOK
<1> QED
  BY <1>2, <1>3, <1>4, <1>5, OneSession DEF clientVars

\* The process dies: every session is quiet from then on.
LEMMA DieStep == HttpInv /\ Die => HttpInv'
<1> SUFFICES ASSUME HttpInv, Die PROVE HttpInv'
  OBVIOUS
<1>1. TypeOK /\ Limit \in Nat /\ \A c \in Conns : InTurn(c) /\ KeptAlive(c)
  BY HttpAssumption DEF HttpInv
<1>2. /\ \A c \in Conns : ops'[c] = {} /\ writes'[c] = <<>> /\ left'[c] = Never
      /\ busy' = {} /\ backlog' = {}
      /\ UNCHANGED <<unused, asked, nread, answers>>
  BY DEF Die, clientVars
<1>3. TypeOK'
  <2>1. /\ ops' \in [Conns -> SUBSET {"detect", "handshake", "read", "shutdown"}]
        /\ writes' \in [Conns -> Seq(Nat)]
        /\ left' \in [Conns -> 0..Never]
    BY <1>1 DEF Die, Never
  <2> QED
    BY <1>1, <2>1 DEF Die, TypeOK, clientVars
<1>4. \A c \in Conns : OneThing(c)' /\ InTurn(c)' /\ KeptAlive(c)'
  BY <1>1, <1>2 DEF OneThing, Quiet, InTurn, KeptAlive
<1>5. \A c \in unused : Untouched(c)'
  BY <1>1, <1>2 DEF HttpInv, TypeOK, Untouched, Quiet
<1> QED
  BY <1>2, <1>3, <1>4, <1>5 DEF HttpInv, OneBusy

\* Steps that are none of a session's.
LEMMA OtherStep ==
    ASSUME HttpInv,
           OnAcceptError \/ Tick \/ ReceiveEnds \/ Signal \/ Exit \/ UNCHANGED vars
    PROVE  HttpInv'
<1>1. TypeOK /\ Limit \in Nat /\ \A c \in Conns : OneThing(c) /\ InTurn(c) /\ KeptAlive(c)
  BY HttpAssumption DEF HttpInv
<1>2. UNCHANGED <<unused, asked, ops, writes, busy, nread, answers>> /\ backlog' \subseteq backlog
  BY DEF OnAcceptError, Tick, ReceiveEnds, Signal, Exit, vars, sessionVars, clientVars
<1>3. TypeOK'
  <2>1. CASE Tick
    <3>1. left' \in [Conns -> 0..Never]
      <4>1. \A c \in Conns : left[c] \in 1..Limit => left[c] - 1 \in 0..Never
        BY <1>1 DEF TypeOK, Never
      <4>2. \A c \in Conns : left[c] \in 0..Never
        BY <1>1 DEF TypeOK
      <4> QED
        BY <2>1, <4>1, <4>2 DEF Tick
    <3> QED
      BY <1>1, <2>1, <3>1 DEF Tick, TypeOK, clientVars, processVars
  <2>2. CASE OnAcceptError
    BY <1>1, <2>2 DEF OnAcceptError, AcceptsAgain, TypeOK, clientVars, sessionVars, processVars
  <2>3. CASE ReceiveEnds \/ Signal \/ Exit
    BY <1>1, <2>3 DEF ReceiveEnds, Signal, WorkAfterStop, Exit, TypeOK, clientVars, sessionVars
  <2>4. CASE UNCHANGED vars
    BY <1>1, <2>4 DEF vars, TypeOK, clientVars, sessionVars, processVars
  <2> QED
    BY <2>1, <2>2, <2>3, <2>4
<1>4. \A c \in Conns : /\ OneThing(c)' /\ InTurn(c)' /\ KeptAlive(c)'
                       /\ Untouched(c) => Untouched(c)'
  BY <1>1, <1>2, SameSession
<1> QED
  BY <1>1, <1>2, <1>3, <1>4 DEF HttpInv, OneBusy, TypeOK

LEMMA HttpStep == HttpInv /\ [Next]_vars => HttpInv'
BY ClientStep, AcceptStep, DetectStep, ReadStep, EndOfStreamStep, HandledStep, WriteStep,
   EndStep, DieStep, OtherStep DEF Next

LEMMA HttpCorrect == Spec => []HttpInv
BY HttpInit, HttpStep, PTL DEF Spec

\* The variables of the HTTP side have their types; no more requests are read
\* than were sent.
THEOREM TypeCorrect == Spec => []TypeOK
BY HttpCorrect, PTL DEF HttpInv

\* HttpSession.h answers requests one at a time, in the order they came.
THEOREM AnswersInTurn == Spec => []AnsweredInTurn
<1>1. ASSUME HttpInv, NEW c \in Conns
      PROVE  /\ \A i \in DOMAIN answers[c] : answers[c][i] = i
             /\ Len(writes[c]) <= 1
             /\ ops[c] # {} => writes[c] = <<>>
             /\ "read" \in ops[c] => Len(answers[c]) = nread[c]
  <2>1. OneThing(c) /\ InTurn(c) /\ nread[c] \in Nat
    BY <1>1 DEF HttpInv, TypeOK
  <2>2. ops[c] = {} \/ writes[c] = <<>>
    BY <2>1 DEF OneThing, Quiet, Starting, Reading, Handling, Writing, Closing
  <2>3. writes[c] \in {<<>>, <<nread[c]>>}
    BY <2>1 DEF OneThing, Quiet, Starting, Reading, Handling, Writing, Closing
  <2>4. "read" \in ops[c] => Len(answers[c]) = nread[c]
    BY <2>1 DEF OneThing, Quiet, Starting, Reading, Handling, Writing, Closing
  <2>5. Len(writes[c]) <= 1
    <3>1. CASE writes[c] = <<>>
      BY <3>1
    <3>2. CASE writes[c] = <<nread[c]>>
      BY <3>2
    <3> QED
      BY <2>3, <3>1, <3>2
  <2> QED
    BY <2>1, <2>2, <2>4, <2>5 DEF InTurn
<1>2. HttpInv => AnsweredInTurn
  BY <1>1 DEF AnsweredInTurn
<1> QED
  BY <1>2, HttpCorrect, PTL

\* on_write reads on after an answer that keeps the connection, and only then.
THEOREM ClosingAnswerLast == Spec => []NothingAfterClose
<1>1. HttpInv => NothingAfterClose
  BY DEF HttpInv, NothingAfterClose, KeptAlive
<1> QED
  BY <1>1, HttpCorrect, PTL

===============================================================================
