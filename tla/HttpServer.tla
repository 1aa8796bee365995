----------------------------- MODULE HttpServer -----------------------------
(***************************************************************************)
(* The HTTP side of EyPS: the accept loop (HttpServer), a session per      *)
(* connection (detect_session, then ssl_session or plain_session over      *)
(* HttpSession), and the end of the process (main, IOServicePool::stop).   *)
(*                                                                         *)
(* All of it runs on one thread: a handler runs to its end, however long   *)
(* its database calls take.  A session lives as long as an operation of it *)
(* is outstanding, whose handler holds the shared_ptr; the connection is   *)
(* closed with it.  Boost.Beast is modelled by what the code relies on:    *)
(* expires_after sets one deadline for all operations that follow.         *)
(***************************************************************************)
EXTENDS Integers, Sequences, SequencesExt

CONSTANTS
    Conns,          \* connections, each made once
    Requests,       \* requests a client sends: [target, keepAlive]
    MaxRequests,    \* bound of the model: requests of each connection
    Limit           \* ticks an operation may take (30 seconds in the code)

\* What each handler answers; a target is named for the prefix it starts with.
handle_request == {"/region_list", "/cur_region", "/?"}
GenericHandler == {"/compareProtocolVersion", "/getAgreementInfos", "/account/check",
                   "/config/sdk/combo", "/getConfig", "/loadConfig", "/dataUpload"}
LoginHandler == {"login", "verify", "v2/login"}

Root == "/"         \* handle_request tests its second character, which it has not
Unknown == "other"  \* every other target

Targets == handle_request \cup GenericHandler \cup LoginHandler \cup {Root, Unknown}

ASSUME HttpAssumption ==
    /\ Requests \subseteq [target: Targets, keepAlive: BOOLEAN]
    /\ MaxRequests \in [Conns -> Nat]
    /\ Limit \in Nat

VARIABLES
    accepting,      \* async_accept is outstanding
    unused,         \* connections not made yet
    backlog,        \* connections made and not accepted
    asked,          \* history: the requests a client sent
    eof,            \* a client has closed its side
    ops,            \* a session's outstanding operations, writes aside
    writes,         \* the requests its outstanding writes answer, by number
    tls,            \* it is an ssl_session
    left,           \* ticks left until its deadline
    nread,          \* how many requests it has read
    answers,        \* history: the requests it has answered, by number
    busy,           \* the session whose handler is running, if any
    work,           \* works_ keeps the threads running
    receiving,      \* the game server's receive is outstanding, on a thread of its own
    process         \* "runs", "joins" (in IOServicePool::stop), "exited", "died"

clientVars == <<unused, asked, eof>>
sessionVars == <<ops, writes, tls, left, nread, answers, busy>>
processVars == <<work, receiving, process>>
vars == <<accepting, backlog, clientVars, sessionVars, processVars>>

Never == Limit + 1              \* no deadline

Outstanding(c) == ops[c] # {} \/ writes[c] # <<>>
Alive(c) == Outstanding(c) \/ c \in busy
Up == process \in {"runs", "joins"}

Init ==
    /\ accepting = TRUE /\ unused = Conns /\ backlog = {}
    /\ asked = [c \in Conns |-> <<>>] /\ eof = [c \in Conns |-> FALSE]
    /\ ops = [c \in Conns |-> {}] /\ writes = [c \in Conns |-> <<>>]
    /\ tls = [c \in Conns |-> FALSE] /\ left = [c \in Conns |-> Never]
    /\ nread = [c \in Conns |-> 0] /\ answers = [c \in Conns |-> <<>>]
    /\ busy = {}
    /\ work = TRUE /\ receiving = TRUE /\ process = "runs"

-----------------------------------------------------------------------------
(* The clients.                                                             *)

Connect(c) ==
    /\ accepting /\ c \in unused
    /\ unused' = unused \ {c}
    /\ backlog' = backlog \cup {c}
    /\ UNCHANGED <<accepting, asked, eof, sessionVars, processVars>>

\* Requests come one after the other, also before the last one is answered.
Ask(c, request) ==
    /\ Alive(c) /\ ~eof[c]
    /\ Len(asked[c]) < MaxRequests[c]
    /\ asked' = [asked EXCEPT ![c] = Append(@, request)]
    /\ UNCHANGED <<accepting, unused, backlog, eof, sessionVars, processVars>>

CloseSide(c) ==
    /\ Alive(c) /\ ~eof[c]
    /\ eof' = [eof EXCEPT ![c] = TRUE]
    /\ UNCHANGED <<accepting, unused, backlog, asked, sessionVars, processVars>>

-----------------------------------------------------------------------------
(* The steps of the io thread, one handler each.                            *)

Handler == Up /\ busy = {}

Starts(c, operations) == ops' = [ops EXCEPT ![c] = operations]

ExpiresAfter_Never(c) == UNCHANGED left           \* mutant: no time-out
ExpiresAfter(c) == left' = [left EXCEPT ![c] = Limit]

\* HttpServer::on_accept accepts again unless it failed.
AcceptsAgain(ok) == ok

\* on_accept, and detect_session::run.
OnAccept(c) ==
    /\ Handler /\ accepting /\ c \in backlog
    /\ backlog' = backlog \ {c}
    /\ Starts(c, {"detect"}) /\ ExpiresAfter(c)
    /\ accepting' = AcceptsAgain(TRUE)
    /\ UNCHANGED <<clientVars, writes, tls, nread, answers, busy, processVars>>

\* on_accept with an error: without an operation the acceptor is closed.
OnAcceptError ==
    /\ Handler /\ accepting
    /\ accepting' = AcceptsAgain(FALSE)
    /\ backlog' = {}
    /\ UNCHANGED <<clientVars, sessionVars, processVars>>

\* HttpSession::do_read
DoRead(c) == Starts(c, {"read"}) /\ ExpiresAfter(c)

\* detect_session::on_detect, and the session's run.
OnDetect(c, isTls) ==
    /\ Handler /\ "detect" \in ops[c]
    /\ tls' = [tls EXCEPT ![c] = isTls]
    /\ IF isTls THEN Starts(c, {"handshake"}) /\ ExpiresAfter(c) ELSE DoRead(c)
    /\ UNCHANGED <<accepting, backlog, clientVars, writes, nread, answers, busy, processVars>>

OnHandshake(c) ==
    /\ Handler /\ "handshake" \in ops[c]
    /\ DoRead(c)
    /\ UNCHANGED <<accepting, backlog, clientVars, writes, tls, nread, answers, busy,
                   processVars>>

\* plain_session::do_close starts no operation, which ends the session.
DoClose(c) ==
    IF tls[c] THEN Starts(c, {"shutdown"}) /\ ExpiresAfter(c)
              ELSE Starts(c, {}) /\ UNCHANGED left

\* async_read ends with a whole request, the next one of those that were sent.
Complete_Any(c) == TRUE                           \* mutant: with the first bytes of it
Complete(c) == nread[c] < Len(asked[c])

\* HttpSession::on_read: a request, which the handlers go on with ...
OnRead(c) ==
    /\ Handler /\ "read" \in ops[c] /\ Complete(c)
    /\ nread' = [nread EXCEPT ![c] = @ + 1]
    /\ Starts(c, {})
    /\ busy' = {c}
    /\ UNCHANGED <<accepting, backlog, clientVars, writes, tls, left, answers, processVars>>

\* ... or the end of the stream.
OnEndOfStream(c) ==
    /\ Handler /\ "read" \in ops[c] /\ eof[c] /\ ~Complete(c)
    /\ DoClose(c)
    /\ UNCHANGED <<accepting, backlog, clientVars, writes, tls, nread, answers, busy,
                   processVars>>

\* How many of the three handlers send a response.
Answers(handler, target) == IF target \in handler THEN 1 ELSE 0

Sends(target) ==
    IF target = Root THEN {0, 1}
    ELSE {Answers(handle_request, target) + Answers(GenericHandler, target)
          + Answers(LoginHandler, target)}

\* The handlers return: the response is being written, or the session ends.
Rearmed_Read == {"read"}                          \* mutant: reads on before it has written
Rearmed == {}

Handled(c) ==
    /\ Up /\ c \in busy
    /\ busy' = {}
    /\ \E n \in Sends(asked[c][nread[c]].target) :
         writes' = [writes EXCEPT ![c] = [i \in 1..n |-> nread[c]]]
    /\ Starts(c, Rearmed)
    /\ UNCHANGED <<accepting, backlog, clientVars, tls, left, nread, answers, processVars>>

\* HttpSession::on_write, whose parameter `close` is the response's keep_alive.
KeepsAlive_AsNamed(request) == ~request.keepAlive \* mutant: as the name has it
KeepsAlive(request) == request.keepAlive

OnWrite(c, i) ==
    /\ Handler /\ i \in DOMAIN writes[c]
    /\ writes' = [writes EXCEPT ![c] = RemoveAt(@, i)]
    /\ answers' = [answers EXCEPT ![c] = Append(@, writes[c][i])]
    /\ IF KeepsAlive(asked[c][writes[c][i]]) THEN DoRead(c) ELSE DoClose(c)
    /\ UNCHANGED <<accepting, backlog, clientVars, tls, nread, busy, processVars>>

\* The session's operations end with an error, or its last one is done: no new
\* one is started.
Ends(c) ==
    /\ Starts(c, {})
    /\ writes' = [writes EXCEPT ![c] = <<>>]
    /\ left' = [left EXCEPT ![c] = Never]
    /\ UNCHANGED <<accepting, backlog, clientVars, tls, nread, answers, busy, processVars>>

\* The deadline has come.
Expire(c) == Handler /\ Outstanding(c) /\ left[c] = 0 /\ Ends(c)

\* on_shutdown; a malformed request or handshake, a client that is gone.
Fail(c) == Handler /\ Outstanding(c) /\ Ends(c)

\* A handler runs into a missing JSON member or a database error, or a write
\* goes on with a response that was destroyed when send returned.
Die ==
    /\ Up
    /\ \E c \in Conns : c \in busy \/ writes[c] # <<>>
    /\ process' = "died"
    /\ accepting' = FALSE /\ backlog' = {} /\ busy' = {}
    /\ ops' = [c \in Conns |-> {}] /\ writes' = [c \in Conns |-> <<>>]
    /\ left' = [c \in Conns |-> Never] /\ receiving' = FALSE
    /\ UNCHANGED <<clientVars, tls, nread, answers, work>>

Tick ==
    /\ Up /\ \E c \in Conns : Alive(c) /\ left[c] \in 1..Limit
    /\ left' = [c \in Conns |-> IF Alive(c) /\ left[c] \in 1..Limit THEN left[c] - 1 ELSE left[c]]
    /\ UNCHANGED <<accepting, backlog, clientVars, ops, writes, tls, nread, answers, busy,
                   processVars>>

-----------------------------------------------------------------------------
(* The end of the process.                                                  *)

\* GameServer::AsyncRec ends with an error.
ReceiveEnds ==
    /\ Up /\ receiving
    /\ receiving' = FALSE
    /\ UNCHANGED <<accepting, backlog, clientVars, sessionVars, work, process>>

\* SIGINT or SIGTERM: IOServicePool::stop resets works_ and joins the threads.
WorkAfterStop_Kept == work                        \* mutant: works_ is not reset
WorkAfterStop == FALSE

Signal ==
    /\ process = "runs"
    /\ process' = "joins"
    /\ work' = WorkAfterStop
    /\ UNCHANGED <<accepting, backlog, clientVars, sessionVars, receiving>>

\* io_context::run returns when nothing is outstanding on it.
RunReturns ==
    /\ ~work /\ ~accepting /\ ~receiving
    /\ \A c \in Conns : ~Alive(c)

Exit ==
    /\ process = "joins" /\ RunReturns
    /\ process' = "exited"
    /\ UNCHANGED <<accepting, backlog, clientVars, sessionVars, work, receiving>>

Next ==
    \/ \E c \in Conns :
        \/ Connect(c) \/ CloseSide(c) \/ \E request \in Requests : Ask(c, request)
        \/ OnAccept(c) \/ \E isTls \in BOOLEAN : OnDetect(c, isTls)
        \/ OnHandshake(c) \/ OnRead(c) \/ OnEndOfStream(c) \/ Handled(c)
        \/ \E i \in DOMAIN writes[c] : OnWrite(c, i)
        \/ Expire(c) \/ Fail(c)
    \/ OnAcceptError \/ Die \/ Tick
    \/ ReceiveEnds \/ Signal \/ Exit

Spec == Init /\ [][Next]_vars

\* The io thread comes round to every handler that is ready; time passes.
\* Nothing is asked of the clients, nor that a read or a write ever ends.
Fairness ==
    /\ \A c \in Conns : /\ SF_vars(OnAccept(c))
                        /\ SF_vars(Expire(c))
                        /\ WF_vars(Handled(c))
    /\ WF_vars(Tick) /\ WF_vars(Exit)

FairSpec == Spec /\ Fairness

-----------------------------------------------------------------------------
(* Properties                                                               *)

\* Type invariant.
TypeOK ==
    /\ accepting \in BOOLEAN /\ unused \subseteq Conns /\ backlog \subseteq Conns \ unused
    /\ asked \in [Conns -> Seq(Requests)] /\ eof \in [Conns -> BOOLEAN]
    /\ ops \in [Conns -> SUBSET {"detect", "handshake", "read", "shutdown"}]
    /\ writes \in [Conns -> Seq(Nat)] /\ answers \in [Conns -> Seq(Nat)]
    /\ tls \in [Conns -> BOOLEAN] /\ left \in [Conns -> 0..Never]
    /\ nread \in [Conns -> Nat] /\ \A c \in Conns : nread[c] <= Len(asked[c])
    /\ busy \in SUBSET Conns
    /\ work \in BOOLEAN /\ receiving \in BOOLEAN
    /\ process \in {"runs", "joins", "exited", "died"}

\* Requests are answered one at a time, in the order they came, none twice and
\* none passed over, however many of them a client sends ahead: the three
\* handlers never both answer, and on_write alone reads on (HttpSession.h).
AnsweredInTurn ==
    \A c \in Conns :
        /\ \A i \in DOMAIN answers[c] : answers[c][i] = i
        /\ Len(writes[c]) <= 1
        /\ ops[c] # {} => writes[c] = <<>>
        /\ "read" \in ops[c] => Len(answers[c]) = nread[c]

\* After an answer that closes the connection there is no other.
NothingAfterClose ==
    \A c \in Conns : \A i \in 1..nread[c] - 1 : asked[c][i].keepAlive

\* A connection is accepted, or dropped with the accept loop, and its session
\* ends, whatever its client does, once that sends no more (MaxRequests bounds
\* what it sends): 30 second deadlines cover every operation, a write that the
\* client does not take included, and a handler that holds the only thread does
\* not hold up the others for ever.
SessionsEnd == \A c \in Conns : c \in backlog \/ Alive(c) ~> c \notin backlog /\ ~Alive(c)

\* IOServicePool::stop returns once the accept loop and the receive loop have
\* ended.  It does not end them: as long as both work, it does not return.
StopReturns ==
    process = "joins" /\ ~accepting /\ ~receiving ~> process \in {"exited", "died"}
=============================================================================
