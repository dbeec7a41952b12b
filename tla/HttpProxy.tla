------------------------------- MODULE HttpProxy -------------------------------
(***************************************************************************)
(* The HTTP proxy (armour-proxy/src/http_proxy.rs) with the PolicyActor it *)
(* consults.  Each HTTP request is an asynchronous task on a server        *)
(* thread.  It asks the actor for the current policy status                *)
(* (GetHttpPolicy), reads the client's payload, asks the actor to evaluate *)
(* the request (EvalHttpFn), forwards it, and treats the response in the   *)
(* same way, using the status it captured at the start.  The host may      *)
(* replace the policy, change labels, or stop and restart the proxy at     *)
(* every await.                                                            *)
(*                                                                         *)
(* The policy language is abstracted: evaluating a function that the       *)
(* installed policy defines with the given number of arguments yields any  *)
(* outcome.  The X-Armour metadata that an evaluation reads and leaves is  *)
(* left out.                                                               *)
(***************************************************************************)
EXTENDS PolicyActor

CONSTANTS
  Requests,     \* HTTP requests
  Clients,      \* ids of the clients' sockets (peer_addr)
  Targets,      \* ids of the URIs that requests name
  LocalHosts,   \* hosts is_local_host accepts
  Port80        \* the port of a URI that names none

ASSUME EndpointsAssumption == Clients \subseteq ID /\ Targets \subseteq ID
ASSUME IngressAssumption == Ingress \subseteq Targets
ASSUME Port80Assumption == Port80 \in Ports

VARIABLES
  reqs,     \* [Requests -> the task of each request]
  window    \* history: [Requests -> policies installed while it was handled]

httpVars == <<actorVars, reqs, window>>

PC == {"idle", "policy", "payload", "eval_req", "judge_req", "sent", "body", "eval_res",
       "judge_res", "done"}

(***************************************************************************)
(* How a request ends: "reply" is the server's response, passed on;        *)
(* "panic" an unreachable!() reached; "dropped" the task was dropped, as   *)
(* the client left or the server's graceful shutdown timed out.            *)
(***************************************************************************)
Answers == {"reply", "unauthorized", "internal", "upstream_error",
            "payload_error", "panic", "dropped"}

ASSUME NoneNotAnswer == None \notin Answers

\* History: the policy that evaluated the request or response to true.
Verdict == Installed(HttpFns, HttpPolicies) \cup {None}

NoConnection == [from |-> DefaultDPID, to |-> DefaultDPID, number |-> 0]

Request == [pc        : PC,
            from      : Clients \cup {None},
            to        : Targets \cup {None},
            request   : FnPolicy,                \* captured PolicyStatus
            response  : FnPolicy,
            env       : Verdict,                 \* the policy that is evaluating it
            numbered  : BOOLEAN,                 \* connection() was called
            connection : DPConnection,
            forwarded : BOOLEAN,                 \* the request went to the server
            by_req    : Verdict,                 \* history: evaluated to true by
            by_res    : Verdict,
            mismatch  : BOOLEAN,                 \* history: wrong number of arguments
            answer    : Answers \cup {None}]

IdleRequest ==
  [pc |-> "idle", from |-> None, to |-> None, request |-> Deny, response |-> Deny,
   env |-> None, numbered |-> FALSE, connection |-> NoConnection, forwarded |-> FALSE,
   by_req |-> None, by_res |-> None, mismatch |-> FALSE, answer |-> None]

HttpInit ==
  /\ ActorInit
  /\ reqs = [r \in Requests |-> IdleRequest]
  /\ window = [r \in Requests |-> {}]

Active(r) == reqs[r].pc \notin {"idle", "policy", "done"}

\* The answer is given and the task with what it captured is gone.
Done(q, a) ==
  [q EXCEPT !.pc = "done", !.answer = a, !.from = None, !.to = None,
            !.request = Deny, !.response = Deny, !.env = None]

Goto(r, q) == reqs' = [reqs EXCEPT ![r] = q]

-----------------------------------------------------------------------------
(***************************************************************************)
(* Connection::new: the forwarding URI is the ingress address of the       *)
(* server's configuration, or the host the request names.  A URI that is   *)
(* the proxy itself is refused.                                            *)
(***************************************************************************)
forward_uri(t, ingress) == IF ingress = None THEN t ELSE ingress

ProxyingSelf(u, p) ==
  /\ (IF u.port = None THEN Port80 ELSE u.port) = p
  /\ u.host \in LocalHosts \cup {None}

(***************************************************************************)
(* The servers that take requests: the one that runs, and one that was     *)
(* told to stop until its graceful shutdown is over.  The ingress address  *)
(* that the latter was started with is not kept and may be any.            *)
(***************************************************************************)
Serves(p, ingress) ==
  \/ p = http.port /\ ingress = http.ingress
  \/ sockets[p] = "closing"

\* A server thread takes a request; None as target is a URI that does not build.
Accept(r, c, t, p, ingress) ==
  /\ running
  /\ Serves(p, ingress)
  /\ reqs[r].pc = "idle"
  /\ LET u == IF t = None THEN None ELSE forward_uri(t, ingress)
         q == [reqs[r] EXCEPT !.from = c, !.to = u]
     IN  IF u = None \/ (u # None /\ ProxyingSelf(u, p))
         THEN Goto(r, Done(q, "internal"))
         ELSE Goto(r, [q EXCEPT !.pc = "policy"])
  /\ UNCHANGED <<actorVars, window>>

(***************************************************************************)
(* GetHttpPolicy: the actor answers with its status and, unless everything *)
(* is allowed, with a numbered connection.  The task goes on according to  *)
(* the status it got.                                                      *)
(***************************************************************************)
AfterPolicy(q) == IF q.request = Deny THEN Done(q, "unauthorized")
                  ELSE [q EXCEPT !.pc = "payload"]

GetHttpPolicy(r) ==
  /\ Ready
  /\ reqs[r].pc = "policy"
  /\ LET q == [reqs[r] EXCEPT !.request = http.request, !.response = http.response]
     IN  IF http.allow_all
         THEN /\ Goto(r, AfterPolicy(q))
              /\ UNCHANGED idVars
         ELSE \E d1, d2 \in DnsAnswer :
                /\ connection(q.from, q.to, d1, d2)
                /\ Goto(r, AfterPolicy([q EXCEPT !.numbered = TRUE,
                                           !.connection = Connection(q.from, q.to, d1, d2)]))
  /\ window' = [window EXCEPT ![r] = {http.policy}]
  /\ UNCHANGED ctlVars

Forward(q) == [q EXCEPT !.pc = "sent", !.forwarded = TRUE]

ReadPayload(r) ==
  /\ running
  /\ reqs[r].pc = "payload"
  /\ LET q == reqs[r]
     IN  \/ Goto(r, Done(q, "payload_error"))
         \/ q.request = Allow /\ Goto(r, Forward(q))
         \/ /\ q.request.kind = "Args" /\ q.request.n \in 0..2
            /\ Goto(r, [q EXCEPT !.pc = "eval_req"])
         \/ /\ q.request.kind = "Args" /\ q.request.n \notin 0..2
            /\ Goto(r, Done(q, "panic"))
  /\ UNCHANGED <<actorVars, window>>

(***************************************************************************)
(* EvalHttpFn: the actor starts an evaluation in the environment of the    *)
(* policy installed now and is free again.  The evaluation, which may ask  *)
(* external services, ends some time later, and its verdict is taken       *)
(* whatever is installed by then.                                          *)
(***************************************************************************)
Evaluate(r, f, n, pc) ==
  /\ Ready
  /\ Goto(r, [reqs[r] EXCEPT !.pc = pc, !.env = http.policy,
                !.mismatch = @ \/ ~applies(http.policy, f, n)])
  /\ UNCHANGED <<actorVars, window>>

EvalRequest(r) ==
  /\ reqs[r].pc = "eval_req"
  /\ Evaluate(r, "allow_rest_request", reqs[r].request.n, "judge_req")

\* Variant: a request whose evaluation fails goes to the server.
RequestVerdict_ErrorForwards(r) ==
  /\ running
  /\ reqs[r].pc = "judge_req"
  /\ LET q == [reqs[r] EXCEPT !.env = None]
     IN  \E b \in EvalOutcomes(reqs[r].env, "allow_rest_request", q.request.n) :
           CASE b = "true"  -> Goto(r, Forward([q EXCEPT !.by_req = reqs[r].env]))
             [] b = "false" -> Goto(r, Done(q, "unauthorized"))
             [] b = "error" -> Goto(r, Forward(q))
  /\ UNCHANGED <<actorVars, window>>

\* Variant: a request whose evaluation fails is never answered.
RequestVerdict_ErrorIgnored(r) ==
  /\ running
  /\ reqs[r].pc = "judge_req"
  /\ LET q == [reqs[r] EXCEPT !.env = None]
     IN  \E b \in EvalOutcomes(reqs[r].env, "allow_rest_request", q.request.n) \ {"error"} :
           IF b = "true"
           THEN Goto(r, Forward([q EXCEPT !.by_req = reqs[r].env]))
           ELSE Goto(r, Done(q, "unauthorized"))
  /\ UNCHANGED <<actorVars, window>>

RequestVerdict(r) ==
  /\ running
  /\ reqs[r].pc = "judge_req"
  /\ LET q == [reqs[r] EXCEPT !.env = None]
     IN  \E b \in EvalOutcomes(reqs[r].env, "allow_rest_request", q.request.n) :
           CASE b = "true"  -> Goto(r, Forward([q EXCEPT !.by_req = reqs[r].env]))
             [] b = "false" -> Goto(r, Done(q, "unauthorized"))
             [] b = "error" -> Goto(r, Done(q, "internal"))
  /\ UNCHANGED <<actorVars, window>>

-----------------------------------------------------------------------------
(***************************************************************************)
(* response(): the server answered, or sending failed (the connection, the *)
(* timeout).                                                               *)
(***************************************************************************)
Upstream(r) ==
  /\ running
  /\ reqs[r].pc = "sent"
  /\ LET q == reqs[r]
     IN  \/ Goto(r, Done(q, "upstream_error"))
         \/ q.response = Deny /\ Goto(r, Done(q, "unauthorized"))
         \/ q.response # Deny /\ Goto(r, [q EXCEPT !.pc = "body"])
  /\ UNCHANGED <<actorVars, window>>

ReadBody(r) ==
  /\ running
  /\ reqs[r].pc = "body"
  /\ LET q == reqs[r]
     IN  \/ Goto(r, Done(q, "payload_error"))
         \/ q.response = Allow /\ Goto(r, Done(q, "reply"))
         \/ /\ q.response.kind = "Args" /\ q.response.n \in 0..2
            /\ Goto(r, [q EXCEPT !.pc = "eval_res"])
         \/ /\ q.response.kind = "Args" /\ q.response.n \notin 0..2
            /\ Goto(r, Done(q, "panic"))
  /\ UNCHANGED <<actorVars, window>>

\* Variant: as many arguments as the request function takes.
EvalResponse_RequestArity(r) ==
  /\ reqs[r].pc = "eval_res"
  /\ Evaluate(r, "allow_rest_response", reqs[r].request.n, "judge_res")

EvalResponse(r) ==
  /\ reqs[r].pc = "eval_res"
  /\ Evaluate(r, "allow_rest_response", reqs[r].response.n, "judge_res")

ResponseVerdict(r) ==
  /\ running
  /\ reqs[r].pc = "judge_res"
  /\ LET q == reqs[r]
     IN  \E b \in EvalOutcomes(q.env, "allow_rest_response", q.response.n) :
           CASE b = "true"  -> Goto(r, Done([q EXCEPT !.by_res = q.env], "reply"))
             [] b = "false" -> Goto(r, Done(q, "unauthorized"))
             [] b = "error" -> Goto(r, Done(q, "internal"))
  /\ UNCHANGED <<actorVars, window>>

\* The task is dropped at an await: client gone, or graceful shutdown timed out.
Drop(r) ==
  /\ running
  /\ reqs[r].pc \notin {"idle", "done"}
  /\ Goto(r, Done(reqs[r], "dropped"))
  /\ UNCHANGED <<actorVars, window>>

-----------------------------------------------------------------------------
InstallPolicy ==
  \E t \in TcpPolicies \cup {None}, h \in HttpPolicies \cup {None} :
    /\ SetPolicy(t, h)
    /\ window' = [r \in Requests |->
                    IF Active(r) THEN window[r] \cup {http'.policy} ELSE window[r]]
    /\ UNCHANGED reqs

Control ==
  /\ HostStep \/ ServerStep \/ Shutdown
  /\ UNCHANGED <<reqs, window>>

\* What a task does by itself, and where it depends on bytes from a peer.
Step(r) ==
  \/ GetHttpPolicy(r)
  \/ EvalRequest(r)
  \/ RequestVerdict(r)
  \/ Upstream(r)
  \/ EvalResponse(r)
  \/ ResponseVerdict(r)

Read(r) == ReadPayload(r) \/ ReadBody(r)

HttpNext ==
  \/ Control
  \/ InstallPolicy
  \/ \E r \in Requests :
       \/ \E c \in Clients, t \in Targets \cup {None}, p \in Ports, i \in Ingress \cup {None} :
            Accept(r, c, t, p, i)
       \/ Step(r)
       \/ Read(r)
       \/ Drop(r)

(***************************************************************************)
(* Fairness: the runtime polls every task that can move and the actor      *)
(* empties its mailbox; sending the request upstream ends by its timeout,  *)
(* and an evaluation ends: programs are not recursive and external calls   *)
(* time out.  Nothing bounds how long the payload of a client or the body  *)
(* of a response takes, so Read has no fairness.                           *)
(***************************************************************************)
HttpFairness ==
  /\ WF_httpVars((StartOk \/ StartFailed) /\ UNCHANGED <<reqs, window>>)
  /\ \A r \in Requests : WF_httpVars(Step(r))

HttpSpec == HttpInit /\ [][HttpNext]_httpVars /\ HttpFairness

-----------------------------------------------------------------------------
HttpTypeOK ==
  /\ ActorTypeOK
  /\ reqs \in [Requests -> Request]
  /\ window \in [Requests -> SUBSET Installed(HttpFns, HttpPolicies)]

\* A policy of S allows everything of function f, or evaluated it to true.
AllowedBy(S, f, by) == \E fp \in S : fn_get(fp, f) = Allow \/ by = fp

(***************************************************************************)
(* Whatever the host does to the policy in the meantime, a request goes to *)
(* the server only if a policy installed while it was handled allows       *)
(* requests, or evaluated this one to true, and a response comes back only *)
(* if such a policy allows it too.                                         *)
(***************************************************************************)
NothingUnchecked ==
  \A r \in Requests :
    LET q == reqs[r]
    IN  /\ q.forwarded => AllowedBy(window[r], "allow_rest_request", q.by_req)
        /\ q.answer = "reply" =>
             /\ q.forwarded
             /\ AllowedBy(window[r], "allow_rest_response", q.by_res)

(***************************************************************************)
(* The number of arguments comes from the captured status and the function *)
(* from the installed policy: they can only disagree, and fail the request *)
(* with an internal error, when the policy was replaced in between.        *)
(***************************************************************************)
MismatchOnlyAfterUpdate ==
  \A r \in Requests : reqs[r].mismatch => \E fp, gp \in window[r] : fp # gp

(***************************************************************************)
(* Two requests that the policy can see never get the same connection      *)
(* number, and every number given out is below the actor's counter.        *)
(***************************************************************************)
NumbersUnique ==
  \A r \in Requests : reqs[r].numbered =>
    /\ reqs[r].connection.number < connection_number
    /\ \A s \in Requests \ {r} :
         reqs[s].numbered => reqs[s].connection.number # reqs[r].connection.number

-----------------------------------------------------------------------------
(***************************************************************************)
(* The refinement: an HTTP request is a message with two checks, of the    *)
(* request and of the response.                                            *)
(***************************************************************************)
HttpAnswer(fp, k) ==
  LET f == fn_get(fp, IF k = 1 THEN "allow_rest_request" ELSE "allow_rest_response")
  IN  CASE f = Allow -> "allow" [] f = Deny -> "deny" [] OTHER -> "judge"

Place(q) == CASE q.pc = "idle"   -> "new"
              [] q.pc = "policy" -> "waiting"
              [] q.pc = "done"   -> "left"
              [] OTHER           -> "inside"

Passed(q) == IF q.answer = "reply" THEN 2 ELSE IF q.forwarded THEN 1 ELSE 0

Judged(q) == {k \in 1..2 : (IF k = 1 THEN q.by_req ELSE q.by_res) # None}

GatePlace  == [r \in Requests |-> Place(reqs[r])]
GatePassed == [r \in Requests |-> Passed(reqs[r])]
GateJudged == [r \in Requests |-> Judged(reqs[r])]
GateSince  == [r \in Requests |-> IF Active(r) THEN window[r] ELSE {}]

HttpGate ==
  INSTANCE Gate WITH
    Messages <- Requests,
    Checks   <- 2,
    Policies <- Installed(HttpFns, HttpPolicies),
    Answer   <- HttpAnswer,
    up       <- running,
    policy   <- http.policy,
    place    <- GatePlace,
    passed   <- GatePassed,
    judged   <- GateJudged,
    since    <- GateSince

(***************************************************************************)
(* The HTTP proxy implements Gate.  Although it captures the status at the *)
(* start, awaits four times and asks the actor again, every request        *)
(* behaves as if request and response had each been checked in one step    *)
(* against a policy in force at some moment of its handling.               *)
(***************************************************************************)
Mediates == HttpGate!Safe

\* The task waits for bytes: of the client's payload or of the server's body.
Reading(r) == reqs[r].pc \in {"payload", "body"}

\* A policy with a function of more arguments than request() and response() prepare.
Unexpected(fp) ==
  \E f \in DOMAIN fp : fp[f].kind = "Args" /\ fp[f].n \notin 0..2

(***************************************************************************)
(* Every accepted request is answered, whatever fails and however often    *)
(* the policy is replaced while it is handled, unless the whole proxy      *)
(* stops or the task waits for ever for bytes of a peer.  The one way to   *)
(* end without an answer is the unreachable!() of request() or response(), *)
(* and only under a policy whose function takes four arguments, which the  *)
(* checks of policies.rs accept.                                           *)
(***************************************************************************)
Answered ==
  \A r \in Requests :
    reqs[r].pc # "idle"
      ~> \/ reqs[r].pc = "done" /\ reqs[r].answer # "panic"
         \/ Reading(r)
         \/ ~running
         \/ reqs[r].answer = "panic" /\ \E fp \in window[r] : Unexpected(fp)
=============================================================================
