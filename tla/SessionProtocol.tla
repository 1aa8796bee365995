--------------------------- MODULE SessionProtocol ---------------------------
(***************************************************************************)
(* What one game session promises its client: the packets it sends, in     *)
(* order.  First one token response, in the clear of the dispatch key;     *)
(* then ping responses under the mt key, and once, uninterrupted, the      *)
(* login burst (the notifies and the response that closes it).  Requests   *)
(* are answered in the order they were sent.                               *)
(***************************************************************************)
EXTENDS Naturals, Sequences

CONSTANTS
    MaxReq,         \* requests are numbered 1..MaxReq
    LoginNotifies   \* the notifies of a login, in order

VARIABLES
    replies,    \* the packets sent: [id, key, req]
    burst       \* how many packets of the login burst are out

vars == <<replies, burst>>

BurstLength == Len(LoginNotifies) + 1

LastAnswered == IF replies = <<>> THEN 0 ELSE replies[Len(replies)].req

Init == replies = <<>> /\ burst = 0

Emit(id, key, req) ==
    replies' = Append(replies, [id |-> id, key |-> key, req |-> req])

AnswerToken(req) ==
    /\ replies = <<>>
    /\ Emit("GetPlayerTokenRsp", "dispatch", req)
    /\ UNCHANGED burst

AnswerPing(req) ==
    /\ replies # <<>> /\ burst \in {0, BurstLength}
    /\ req > LastAnswered
    /\ Emit("PingRsp", "mt", req)
    /\ UNCHANGED burst

BeginLogin(req) ==
    /\ replies # <<>> /\ burst = 0
    /\ req > LastAnswered
    /\ Emit(LoginNotifies[1], "mt", req)
    /\ burst' = 1

ContinueLogin ==
    /\ burst \in 1..(Len(LoginNotifies) - 1)
    /\ Emit(LoginNotifies[burst + 1], "mt", LastAnswered)
    /\ burst' = burst + 1

EndLogin ==
    /\ burst = Len(LoginNotifies)
    /\ Emit("GetPlayerTokenRsp", "dispatch", LastAnswered)
    /\ burst' = burst + 1

Next ==
    \/ \E req \in 1..MaxReq : AnswerToken(req) \/ AnswerPing(req) \/ BeginLogin(req)
    \/ ContinueLogin
    \/ EndLogin

Spec == Init /\ [][Next]_vars

==============================================================================
