---------------------------- MODULE HttpProxyProofs ----------------------------
(***************************************************************************)
(* Proofs about HttpProxy, for any number of requests and every set of     *)
(* clients, targets and policies: whatever the host does at each await,    *)
(* nothing passes unchecked.                                               *)
(***************************************************************************)
EXTENDS HttpProxy, PolicyActorProofs

Policies == Installed(HttpFns, HttpPolicies)

BeforeForward == {"payload", "eval_req", "judge_req"}
AfterForward == {"sent", "body", "eval_res", "judge_res"}

\* What a task has done so far, by the await it is at.
Progress(q) ==
  /\ q.pc \in {"idle", "policy"} => /\ q.numbered = FALSE /\ q.forwarded = FALSE
                                    /\ q.by_req = None /\ q.by_res = None
                                    /\ q.mismatch = FALSE
  /\ q.pc = "policy" => q.from \in Clients /\ q.to \in Targets
  /\ q.pc \in BeforeForward => q.forwarded = FALSE /\ q.by_req = None /\ q.by_res = None
  /\ q.pc \in AfterForward => q.forwarded = TRUE /\ q.by_res = None
  /\ q.pc # "done" => q.answer = None
  /\ q.pc \in {"eval_req", "judge_req"} => q.request.kind = "Args"
  /\ q.pc \in {"eval_res", "judge_res"} => q.response.kind = "Args"

Inside(q) == q.pc \in BeforeForward \cup AfterForward

\* The status that a task captured is that of one policy of its window w, the
\* policy p in force is in the window, and so is the one that evaluates it.
Captured(q, w, p) ==
  /\ Inside(q) => /\ p \in w
                  /\ \E fp \in w : /\ q.request = fn_get(fp, "allow_rest_request")
                                   /\ q.response = fn_get(fp, "allow_rest_response")
  /\ q.pc \in {"judge_req", "judge_res"} => q.env \in w

\* What NothingUnchecked says of one task.
Consented(q, w) ==
  /\ q.forwarded => AllowedBy(w, "allow_rest_request", q.by_req)
  /\ q.answer = "reply" => q.forwarded /\ AllowedBy(w, "allow_rest_response", q.by_res)

RequestInv(q, w, p, n) ==
  /\ Progress(q)
  /\ Captured(q, w, p)
  /\ Consented(q, w)
  /\ q.mismatch => \E fp, gp \in w : fp # gp
  /\ q.numbered => q.connection.number < n

DistinctNumbers ==
  \A r, s \in Requests : reqs[r].numbered /\ reqs[s].numbered /\ r # s =>
    reqs[r].connection.number # reqs[s].connection.number

(***************************************************************************)
(* The inductive invariant.  NothingUnchecked alone is not inductive: that *)
(* the verdict of an evaluation may be used needs that the policy which    *)
(* evaluates was in force meanwhile, and that a request may be forwarded   *)
(* without one needs where the captured status comes from.                 *)
(***************************************************************************)
HttpInv ==
  /\ ActorInv
  /\ CacheCoherent
  /\ reqs \in [Requests -> Request]
  /\ window \in [Requests -> SUBSET Policies]
  /\ \A r \in Requests : RequestInv(reqs[r], window[r], http.policy, connection_number)
  /\ DistinctNumbers

-----------------------------------------------------------------------------
\* The lookup of a captured status, with the number of arguments it gives.
LEMMA ArgsStatus ==
  ASSUME NEW f \in FnPolicy, f.kind = "Args" PROVE f = Args(f.n)
BY DEF FnPolicy, Args, Allow, Deny

\* A policy whose evaluation can be true has a function to evaluate.
LEMMA TrueApplies ==
  ASSUME NEW fp, NEW f, NEW n, "true" \in EvalOutcomes(fp, f, n)
  PROVE  fn_get(fp, f) = Args(n)
BY DEF EvalOutcomes, applies

\* More policies in the window, the one in force among them, only help.
LEMMA WiderWindow ==
  ASSUME NEW q, NEW w, NEW v, NEW p, NEW o, NEW n,
         RequestInv(q, w, p, n), w \subseteq v, Inside(q) => o \in v
  PROVE  RequestInv(q, v, o, n)
BY DEF RequestInv, Captured, Consented, AllowedBy

\* So does a later connection number.
LEMMA LaterNumber ==
  ASSUME NEW q \in Request, NEW w, NEW p, NEW n \in Nat, NEW m \in Nat,
         RequestInv(q, w, p, n), n <= m
  PROVE  RequestInv(q, w, p, m)
BY DEF RequestInv, Request, DPConnection

\* Outside a task neither the policy in force nor the window matters much.
LEMMA HttpInitInv == HttpInit => HttpInv
<1> SUFFICES ASSUME HttpInit PROVE HttpInv
  OBVIOUS
<1>1. ActorInv
  BY ActorInitInv DEF HttpInit
<1>2. CacheCoherent
  BY IdInitInv DEF HttpInit, ActorInit, IdInv
<1>3. IdleRequest \in Request
  <2>1. NoConnection \in DPConnection
    BY DEF NoConnection, DPConnection, DefaultDPID, DPID
  <2>2. Deny \in FnPolicy
    BY DEF FnPolicy
  <2>3. QED BY <2>1, <2>2 DEF IdleRequest, Request, PC, Verdict
<1>4. ASSUME NEW p, NEW n PROVE RequestInv(IdleRequest, {}, p, n)
  BY NoneNotAnswer DEF RequestInv, Progress, Captured, Consented, Inside, BeforeForward,
                       AfterForward, IdleRequest, Answers
<1>5. QED
  BY <1>1, <1>2, <1>3, <1>4 DEF HttpInit, HttpInv, DistinctNumbers, IdleRequest

-----------------------------------------------------------------------------
\* A task goes on as q and the actor and the window are left alone.
LEMMA TaskStep ==
  ASSUME HttpInv, NEW r \in Requests, NEW q \in Request, Goto(r, q),
         UNCHANGED <<actorVars, window>>,
         q.numbered = reqs[r].numbered, q.connection = reqs[r].connection,
         RequestInv(q, window[r], http.policy, connection_number)
  PROVE  HttpInv'
<1>1. ActorInv'
  BY ActorUnchangedInv DEF HttpInv
<1>2. CacheCoherent'
  BY DEF HttpInv, CacheCoherent, actorVars, idVars, LabelsOf
<1>3. reqs' \in [Requests -> Request] /\ window' = window
  BY DEF HttpInv, Goto
<1>4. \A s \in Requests : reqs'[s] = IF s = r THEN q ELSE reqs[s]
  BY DEF HttpInv, Goto
<1>5. http' = http /\ connection_number' = connection_number
  BY DEF actorVars, idVars, ctlVars
<1>6. DistinctNumbers'
  BY <1>4 DEF HttpInv, DistinctNumbers
<1>7. QED BY <1>1, <1>2, <1>3, <1>4, <1>5, <1>6 DEF HttpInv

\* A task ends with an answer other than the server's reply.
LEMMA TaskEnds ==
  ASSUME HttpInv, NEW r \in Requests, NEW a \in Answers \ {"reply"},
         NEW q \in Request, Goto(r, Done(q, a)), UNCHANGED <<actorVars, window>>,
         q.numbered = reqs[r].numbered, q.connection = reqs[r].connection,
         q.forwarded = reqs[r].forwarded, q.by_req = reqs[r].by_req,
         q.mismatch = reqs[r].mismatch
  PROVE  HttpInv'
<1>0. Deny \in FnPolicy
  BY DEF FnPolicy
<1>1. /\ Done(q, a) \in Request
      /\ Done(q, a).numbered = reqs[r].numbered /\ Done(q, a).connection = reqs[r].connection
  BY <1>0 DEF Done, Request, PC, Verdict
<1>2. RequestInv(reqs[r], window[r], http.policy, connection_number)
  BY DEF HttpInv
<1>3. /\ Done(q, a).pc = "done" /\ Done(q, a).answer = a
      /\ Done(q, a).forwarded = reqs[r].forwarded /\ Done(q, a).by_req = reqs[r].by_req
      /\ Done(q, a).mismatch = reqs[r].mismatch
  BY DEF Done, Request
<1>4. RequestInv(Done(q, a), window[r], http.policy, connection_number)
  BY <1>1, <1>2, <1>3 DEF RequestInv, Progress, Captured, Consented, Inside, BeforeForward,
                          AfterForward
<1>5. QED BY <1>1, <1>4, TaskStep

\* What is known of a task that has captured a status.
LEMMA TaskFacts ==
  ASSUME HttpInv, NEW r \in Requests
  PROVE  /\ reqs[r] \in Request
         /\ RequestInv(reqs[r], window[r], http.policy, connection_number)
         /\ window[r] \subseteq Policies
BY DEF HttpInv

\* The server thread takes a request.
LEMMA AcceptInv ==
  ASSUME HttpInv, NEW r \in Requests, NEW c \in Clients, NEW t \in Targets \cup {None},
         NEW p \in Ports, NEW i \in Ingress \cup {None}, Accept(r, c, t, p, i)
  PROVE  HttpInv'
<1> DEFINE u == IF t = None THEN None ELSE forward_uri(t, i)
           q == [reqs[r] EXCEPT !.from = c, !.to = u]
<1>1. u \in Targets \cup {None}
  BY IngressAssumption DEF forward_uri, HttpInv, ActorInv, ActorTypeOK
<1>2. /\ q \in Request /\ q.from = c /\ q.to = u
      /\ q.numbered = reqs[r].numbered /\ q.connection = reqs[r].connection
      /\ q.forwarded = reqs[r].forwarded /\ q.by_req = reqs[r].by_req
      /\ q.by_res = reqs[r].by_res
      /\ q.mismatch = reqs[r].mismatch
  BY <1>1, TaskFacts DEF Request
<1>3. reqs[r].pc = "idle" /\ UNCHANGED <<actorVars, window>>
  BY DEF Accept
<1>4. CASE u = None \/ (u # None /\ ProxyingSelf(u, p))
  <2>1. Goto(r, Done(q, "internal"))
    BY <1>4 DEF Accept
  <2>2. QED BY <1>2, <1>3, <2>1, TaskEnds DEF Answers
<1>5. CASE ~(u = None \/ (u # None /\ ProxyingSelf(u, p)))
  <2> DEFINE z == [q EXCEPT !.pc = "policy"]
  <2>1. Goto(r, z)
    BY <1>5 DEF Accept
  <2>2. /\ z \in Request /\ z.pc = "policy" /\ z.from \in Clients /\ z.to \in Targets
        /\ z.numbered = reqs[r].numbered /\ z.connection = reqs[r].connection
        /\ z.forwarded = reqs[r].forwarded /\ z.by_req = reqs[r].by_req
        /\ z.by_res = reqs[r].by_res /\ z.mismatch = reqs[r].mismatch
        /\ z.answer = reqs[r].answer
    BY <1>1, <1>2, <1>5, TaskFacts, ZenonT(60) DEF Request, PC
  <2>3. RequestInv(z, window[r], http.policy, connection_number)
    BY <1>3, <2>2, TaskFacts DEF RequestInv, Progress, Captured, Consented, Inside,
                                 BeforeForward, AfterForward
  <2>4. QED BY <1>3, <2>1, <2>2, <2>3, TaskStep
<1>6. QED BY <1>4, <1>5

\* The actor takes a number and gives out its status, and its policy opens the window.
LEMMA GetHttpPolicyInv ==
  ASSUME HttpInv, NEW r \in Requests, GetHttpPolicy(r)
  PROVE  HttpInv'
<1> DEFINE q == [reqs[r] EXCEPT !.request = http.request, !.response = http.response]
<1>1. /\ reqs[r] \in Request /\ reqs[r].pc = "policy"
      /\ RequestInv(reqs[r], window[r], http.policy, connection_number)
      /\ reqs[r].from \in Clients /\ reqs[r].to \in Targets
  BY TaskFacts DEF GetHttpPolicy, RequestInv, Progress
<1>2. /\ http.policy \in Policies
      /\ http.request \in FnPolicy /\ http.response \in FnPolicy
      /\ http.request = fn_get(http.policy, "allow_rest_request")
      /\ http.response = fn_get(http.policy, "allow_rest_response")
  BY DEF HttpInv, ActorInv, ActorTypeOK, PolicyViewsAgree, Policies
<1>3. /\ q \in Request /\ q.pc = "policy" /\ q.from = reqs[r].from /\ q.to = reqs[r].to
      /\ q.request = http.request /\ q.response = http.response
      /\ q.numbered = FALSE /\ q.forwarded = FALSE /\ q.by_req = None /\ q.by_res = None
      /\ q.mismatch = FALSE /\ q.answer = None
  BY <1>1, <1>2 DEF Request, RequestInv, Progress
<1>4. ASSUME NEW z \in Request, NEW n \in Nat,
             z.request = http.request, z.response = http.response,
             z.forwarded = FALSE, z.by_req = None, z.by_res = None,
             z.mismatch = FALSE, z.answer = None, z.numbered => z.connection.number < n
      PROVE  /\ AfterPolicy(z) \in Request
             /\ AfterPolicy(z).numbered = z.numbered
             /\ AfterPolicy(z).connection = z.connection
             /\ RequestInv(AfterPolicy(z), {http.policy}, http.policy, n)
  <2>1. CASE z.request = Deny
    <3>1. AfterPolicy(z) = Done(z, "unauthorized")
      BY <2>1 DEF AfterPolicy
    <3>2. Deny \in FnPolicy
      BY DEF FnPolicy
    <3>3. Done(z, "unauthorized") \in Request
      BY <1>4, <3>2 DEF Done, Request, PC, Verdict, Answers
    <3>4. /\ Done(z, "unauthorized").pc = "done" /\ Done(z, "unauthorized").numbered = z.numbered
          /\ Done(z, "unauthorized").connection = z.connection
          /\ Done(z, "unauthorized").forwarded = FALSE
          /\ Done(z, "unauthorized").mismatch = FALSE
          /\ Done(z, "unauthorized").answer = "unauthorized"
      BY <1>4 DEF Done, Request
    <3>5. RequestInv(Done(z, "unauthorized"), {http.policy}, http.policy, n)
      BY <1>4, <3>4 DEF RequestInv, Progress, Captured, Consented, Inside, BeforeForward,
                        AfterForward
    <3>6. QED BY <3>1, <3>3, <3>4, <3>5
  <2>2. CASE z.request # Deny
    <3> DEFINE y == [z EXCEPT !.pc = "payload"]
    <3>1. AfterPolicy(z) = y
      BY <2>2 DEF AfterPolicy
    <3>2. /\ y \in Request /\ y.pc = "payload" /\ y.numbered = z.numbered
          /\ y.connection = z.connection /\ y.forwarded = FALSE /\ y.by_req = None
          /\ y.by_res = None /\ y.mismatch = FALSE /\ y.answer = None
          /\ y.request = http.request /\ y.response = http.response
      BY <1>4 DEF Request, PC
    <3>3. RequestInv(y, {http.policy}, http.policy, n)
      BY <1>2, <1>4, <3>2, NoneNotAnswer
         DEF RequestInv, Progress, Captured, Consented, Inside, BeforeForward, AfterForward,
             Answers
    <3>4. QED BY <3>1, <3>2, <3>3
  <2>3. QED BY <2>1, <2>2
<1>5. /\ window' = [window EXCEPT ![r] = {http.policy}]
      /\ window' \in [Requests -> SUBSET Policies]
      /\ \A s \in Requests : window'[s] = IF s = r THEN {http.policy} ELSE window[s]
  BY <1>2 DEF GetHttpPolicy, HttpInv
<1>6. UNCHANGED ctlVars /\ http' = http
  BY DEF GetHttpPolicy, ctlVars
<1>7. connection_number \in Nat
  BY MaxConnectionsAssumption DEF HttpInv, ActorInv, ActorTypeOK, IdTypeOK
<1>8. CASE http.allow_all
  <2>1. Goto(r, AfterPolicy(q)) /\ UNCHANGED idVars
    BY <1>8 DEF GetHttpPolicy
  <2>2. UNCHANGED actorVars
    BY <1>6, <2>1 DEF actorVars
  <2>3. /\ AfterPolicy(q) \in Request /\ AfterPolicy(q).numbered = FALSE
        /\ RequestInv(AfterPolicy(q), {http.policy}, http.policy, connection_number)
    BY <1>3, <1>4, <1>7
  <2>4. ActorInv' /\ CacheCoherent'
    BY <2>1, <2>2, ActorUnchangedInv DEF HttpInv, CacheCoherent, idVars, LabelsOf
  <2>5. /\ reqs' \in [Requests -> Request]
        /\ \A s \in Requests : reqs'[s] = IF s = r THEN AfterPolicy(q) ELSE reqs[s]
    BY <2>1, <2>3 DEF Goto, HttpInv
  <2>6. DistinctNumbers'
    BY <2>3, <2>5 DEF DistinctNumbers, HttpInv
  <2>7. connection_number' = connection_number
    BY <2>1 DEF idVars
  <2>8. \A s \in Requests : RequestInv(reqs'[s], window'[s], http'.policy, connection_number')
    BY <1>5, <1>6, <2>3, <2>5, <2>7 DEF HttpInv
  <2>9. QED BY <1>5, <2>4, <2>5, <2>6, <2>8 DEF HttpInv
<1>9. CASE ~http.allow_all
  <2>1. PICK d1 \in DnsAnswer, d2 \in DnsAnswer :
          /\ connection(q.from, q.to, d1, d2)
          /\ Goto(r, AfterPolicy([q EXCEPT !.numbered = TRUE,
                                    !.connection = Connection(q.from, q.to, d1, d2)]))
    BY <1>9 DEF GetHttpPolicy
  <2> DEFINE k == Connection(q.from, q.to, d1, d2)
             z == [q EXCEPT !.numbered = TRUE, !.connection = k]
  <2>2. q.from \in ID /\ q.to \in ID
    BY <1>1, <1>3, EndpointsAssumption
  <2>3. IdInv /\ IdTypeOK
    BY DEF HttpInv, ActorInv, ActorTypeOK, IdInv
  <2>4. IdInv'
    BY <2>1, <2>2, <2>3, ConnectionInv
  <2>5. k \in DPConnection /\ k.number = connection_number
    BY <2>2, <2>3, ConnectionValue
  <2>6. connection_number' = connection_number + 1 /\ connection_number' \in Nat
    BY <1>7, <2>1 DEF connection
  <2>7. /\ z \in Request /\ z.numbered = TRUE /\ z.connection = k
        /\ z.request = http.request /\ z.response = http.response
        /\ z.forwarded = FALSE /\ z.by_req = None /\ z.by_res = None
        /\ z.mismatch = FALSE /\ z.answer = None
    BY <1>3, <2>5 DEF Request
  <2>8. /\ AfterPolicy(z) \in Request /\ AfterPolicy(z).numbered = TRUE
        /\ AfterPolicy(z).connection.number = connection_number
        /\ RequestInv(AfterPolicy(z), {http.policy}, http.policy, connection_number')
    <3>1. z.connection.number < connection_number'
      BY <1>7, <2>5, <2>6, <2>7
    <3>2. QED BY <1>4, <2>5, <2>6, <2>7, <3>1
  <2>9. ActorInv'
    BY <1>6, <2>4 DEF HttpInv, ActorInv, ActorTypeOK, OneServerPerProtocol, PolicyViewsAgree,
                      StartsStopped, ctlVars, IdInv
  <2>10. /\ reqs' \in [Requests -> Request]
         /\ \A s \in Requests : reqs'[s] = IF s = r THEN AfterPolicy(z) ELSE reqs[s]
    BY <2>1, <2>8 DEF Goto, HttpInv
  <2>11. \A s \in Requests : /\ reqs[s] \in Request
                             /\ RequestInv(reqs[s], window[s], http.policy, connection_number)
    BY DEF HttpInv
  <2>12. \A s \in Requests : RequestInv(reqs[s], window[s], http.policy, connection_number')
    BY <1>7, <2>6, <2>11, LaterNumber
  <2>13. \A s \in Requests : RequestInv(reqs'[s], window'[s], http'.policy, connection_number')
    BY <1>5, <1>6, <2>8, <2>10, <2>12
  <2>14. \A s \in Requests : /\ reqs[s].numbered => reqs[s].connection.number < connection_number
                             /\ reqs[s].connection.number \in Nat
    BY <2>11 DEF RequestInv, Request, DPConnection
  <2>15. DistinctNumbers'
    BY <1>7, <2>8, <2>10, <2>14 DEF DistinctNumbers, HttpInv
  <2>16. QED BY <1>5, <2>4, <2>9, <2>10, <2>13, <2>15 DEF HttpInv, IdInv
<1>10. QED BY <1>8, <1>9

\* A task inside moves to another await before the request is forwarded.
LEMMA MoveBefore ==
  ASSUME HttpInv, NEW r \in Requests, reqs[r].pc \in BeforeForward,
         NEW pc \in BeforeForward, NEW env \in Verdict, NEW mismatch \in BOOLEAN,
         Goto(r, [reqs[r] EXCEPT !.pc = pc, !.env = env, !.mismatch = mismatch]),
         UNCHANGED <<actorVars, window>>,
         pc # "payload" => reqs[r].request.kind = "Args",
         pc = "judge_req" => env \in window[r],
         mismatch => \E fp, gp \in window[r] : fp # gp
  PROVE  HttpInv'
<1> DEFINE z == [reqs[r] EXCEPT !.pc = pc, !.env = env, !.mismatch = mismatch]
<1>1. /\ reqs[r] \in Request
      /\ RequestInv(reqs[r], window[r], http.policy, connection_number)
  BY TaskFacts
<1>2. /\ z \in Request /\ z.pc = pc /\ z.env = env /\ z.mismatch = mismatch
      /\ z.request = reqs[r].request /\ z.response = reqs[r].response
      /\ z.numbered = reqs[r].numbered /\ z.connection = reqs[r].connection
      /\ z.forwarded = reqs[r].forwarded /\ z.by_req = reqs[r].by_req
      /\ z.by_res = reqs[r].by_res /\ z.answer = reqs[r].answer
  BY <1>1 DEF Request, PC, BeforeForward
<1>3. RequestInv(z, window[r], http.policy, connection_number)
  BY <1>1, <1>2 DEF RequestInv, Progress, Captured, Consented, Inside, BeforeForward,
                    AfterForward
<1>4. QED BY <1>2, <1>3, TaskStep

\* The same after it.
LEMMA MoveAfter ==
  ASSUME HttpInv, NEW r \in Requests, reqs[r].pc \in AfterForward,
         NEW pc \in AfterForward, NEW env \in Verdict, NEW mismatch \in BOOLEAN,
         Goto(r, [reqs[r] EXCEPT !.pc = pc, !.env = env, !.mismatch = mismatch]),
         UNCHANGED <<actorVars, window>>,
         pc \in {"eval_res", "judge_res"} => reqs[r].response.kind = "Args",
         pc = "judge_res" => env \in window[r],
         mismatch => \E fp, gp \in window[r] : fp # gp
  PROVE  HttpInv'
<1> DEFINE z == [reqs[r] EXCEPT !.pc = pc, !.env = env, !.mismatch = mismatch]
<1>1. /\ reqs[r] \in Request
      /\ RequestInv(reqs[r], window[r], http.policy, connection_number)
  BY TaskFacts
<1>2. /\ z \in Request /\ z.pc = pc /\ z.env = env /\ z.mismatch = mismatch
      /\ z.request = reqs[r].request /\ z.response = reqs[r].response
      /\ z.numbered = reqs[r].numbered /\ z.connection = reqs[r].connection
      /\ z.forwarded = reqs[r].forwarded /\ z.by_req = reqs[r].by_req
      /\ z.by_res = reqs[r].by_res /\ z.answer = reqs[r].answer
  BY <1>1 DEF Request, PC, AfterForward
<1>3. RequestInv(z, window[r], http.policy, connection_number)
  BY <1>1, <1>2 DEF RequestInv, Progress, Captured, Consented, Inside, BeforeForward,
                    AfterForward
<1>4. QED BY <1>2, <1>3, TaskStep

\* The request goes to the server, by the captured status or by the verdict by.
LEMMA ForwardInv ==
  ASSUME HttpInv, NEW r \in Requests, reqs[r].pc \in BeforeForward,
         NEW env \in Verdict, NEW by \in Verdict,
         Goto(r, Forward([reqs[r] EXCEPT !.env = env, !.by_req = by])),
         UNCHANGED <<actorVars, window>>,
         AllowedBy(window[r], "allow_rest_request", by)
  PROVE  HttpInv'
<1> DEFINE z == Forward([reqs[r] EXCEPT !.env = env, !.by_req = by])
<1>1. /\ reqs[r] \in Request
      /\ RequestInv(reqs[r], window[r], http.policy, connection_number)
  BY TaskFacts
<1>2. /\ z \in Request /\ z.pc = "sent" /\ z.forwarded = TRUE /\ z.by_req = by
      /\ z.request = reqs[r].request /\ z.response = reqs[r].response
      /\ z.mismatch = reqs[r].mismatch
      /\ z.numbered = reqs[r].numbered /\ z.connection = reqs[r].connection
      /\ z.by_res = reqs[r].by_res /\ z.answer = reqs[r].answer
  BY <1>1 DEF Request, PC, Forward
<1>3. RequestInv(z, window[r], http.policy, connection_number)
  BY <1>1, <1>2, NoneNotAnswer
     DEF RequestInv, Progress, Captured, Consented, Inside, BeforeForward, AfterForward, Answers
<1>4. QED BY <1>2, <1>3, TaskStep

\* The server's reply goes to the client, likewise.
LEMMA ReplyInv ==
  ASSUME HttpInv, NEW r \in Requests, reqs[r].pc \in AfterForward,
         NEW by \in Verdict,
         Goto(r, Done([reqs[r] EXCEPT !.by_res = by], "reply")),
         UNCHANGED <<actorVars, window>>,
         AllowedBy(window[r], "allow_rest_response", by)
  PROVE  HttpInv'
<1> DEFINE z == Done([reqs[r] EXCEPT !.by_res = by], "reply")
<1>1. /\ reqs[r] \in Request
      /\ RequestInv(reqs[r], window[r], http.policy, connection_number)
  BY TaskFacts
<1>2. Deny \in FnPolicy
  BY DEF FnPolicy
<1>3. /\ z \in Request /\ z.pc = "done" /\ z.by_res = by /\ z.answer = "reply"
      /\ z.mismatch = reqs[r].mismatch /\ z.forwarded = reqs[r].forwarded
      /\ z.numbered = reqs[r].numbered /\ z.connection = reqs[r].connection
      /\ z.by_req = reqs[r].by_req
  BY <1>1, <1>2 DEF Request, PC, Done, Verdict, Answers
<1>4. RequestInv(z, window[r], http.policy, connection_number)
  BY <1>1, <1>3
     DEF RequestInv, Progress, Captured, Consented, Inside, BeforeForward, AfterForward
<1>5. QED BY <1>3, <1>4, TaskStep

-----------------------------------------------------------------------------
LEMMA ReadPayloadInv ==
  ASSUME HttpInv, NEW r \in Requests, ReadPayload(r) PROVE HttpInv'
<1> DEFINE q == reqs[r]
<1>1. /\ q \in Request /\ q.pc = "payload"
      /\ RequestInv(q, window[r], http.policy, connection_number)
      /\ UNCHANGED <<actorVars, window>>
      /\ q.env \in Verdict /\ q.mismatch \in BOOLEAN /\ q.by_req \in Verdict
  BY TaskFacts DEF ReadPayload, Request
<1>2. ASSUME NEW a \in Answers \ {"reply"}, Goto(r, Done(q, a)) PROVE HttpInv'
  BY <1>1, <1>2, TaskEnds
<1>3. CASE q.request = Allow /\ Goto(r, Forward(q))
  <2>1. AllowedBy(window[r], "allow_rest_request", q.by_req)
    BY <1>1, <1>3 DEF RequestInv, Captured, Inside, BeforeForward, AllowedBy
  <2>2. q = [q EXCEPT !.env = q.env, !.by_req = q.by_req]
    BY <1>1 DEF Request
  <2>3. QED BY <1>1, <1>3, <2>1, <2>2, ForwardInv DEF BeforeForward
<1>4. CASE q.request.kind = "Args" /\ Goto(r, [q EXCEPT !.pc = "eval_req"])
  <2>1. [q EXCEPT !.pc = "eval_req"]
          = [q EXCEPT !.pc = "eval_req", !.env = q.env, !.mismatch = q.mismatch]
    BY <1>1 DEF Request
  <2>2. q.mismatch => \E fp, gp \in window[r] : fp # gp
    BY <1>1 DEF RequestInv
  <2>3. QED BY <1>1, <1>4, <2>1, <2>2, MoveBefore DEF BeforeForward
<1>5. QED BY <1>2, <1>3, <1>4 DEF ReadPayload, Answers

\* An evaluation starts.  The number of arguments is that of the captured status
\* and can only be wrong if another policy was captured than is in force now.
LEMMA EvaluateMismatch ==
  ASSUME HttpInv, NEW r \in Requests, Inside(reqs[r]),
         NEW f \in HttpFns,
         NEW c, c = IF f = "allow_rest_request" THEN reqs[r].request ELSE reqs[r].response,
         c.kind = "Args"
  PROVE  ~applies(http.policy, f, c.n) => \E fp, gp \in window[r] : fp # gp
<1>1. /\ reqs[r] \in Request
      /\ RequestInv(reqs[r], window[r], http.policy, connection_number)
  BY TaskFacts
<1>2. PICK fp \in window[r] : /\ reqs[r].request = fn_get(fp, "allow_rest_request")
                              /\ reqs[r].response = fn_get(fp, "allow_rest_response")
  BY <1>1 DEF RequestInv, Captured
<1>3. c \in FnPolicy /\ c = fn_get(fp, f)
  BY <1>1, <1>2 DEF Request, HttpFns
<1>4. c = Args(c.n)
  BY <1>3, ArgsStatus
<1>5. applies(fp, f, c.n)
  BY <1>3, <1>4 DEF applies
<1>6. http.policy \in window[r]
  BY <1>1 DEF RequestInv, Captured
<1>7. QED BY <1>5, <1>6

LEMMA EvalInv ==
  ASSUME HttpInv, NEW r \in Requests, EvalRequest(r) \/ EvalResponse(r) PROVE HttpInv'
<1> DEFINE q == reqs[r]
<1>1. /\ q \in Request /\ q.mismatch \in BOOLEAN
      /\ RequestInv(q, window[r], http.policy, connection_number)
      /\ http.policy \in Verdict
  BY TaskFacts DEF Request, HttpInv, ActorInv, ActorTypeOK, Verdict
<1>2. CASE EvalRequest(r)
  <2> DEFINE m == q.mismatch \/ ~applies(http.policy, "allow_rest_request", q.request.n)
  <2>1. /\ q.pc = "eval_req" /\ UNCHANGED <<actorVars, window>>
        /\ Goto(r, [q EXCEPT !.pc = "judge_req", !.env = http.policy, !.mismatch = m])
    BY <1>1, <1>2 DEF EvalRequest, Evaluate, Request
  <2>2. q.request.kind = "Args" /\ http.policy \in window[r] /\ Inside(q)
    BY <1>1, <2>1 DEF RequestInv, Progress, Captured, Inside, BeforeForward
  <2>3. m => \E fp, gp \in window[r] : fp # gp
    BY <1>1, <2>2, EvaluateMismatch DEF RequestInv, HttpFns
  <2>4. QED BY <1>1, <2>1, <2>2, <2>3, MoveBefore DEF BeforeForward
<1>3. CASE EvalResponse(r)
  <2> DEFINE m == q.mismatch \/ ~applies(http.policy, "allow_rest_response", q.response.n)
  <2>1. /\ q.pc = "eval_res" /\ UNCHANGED <<actorVars, window>>
        /\ Goto(r, [q EXCEPT !.pc = "judge_res", !.env = http.policy, !.mismatch = m])
    BY <1>1, <1>3 DEF EvalResponse, Evaluate, Request
  <2>2. q.response.kind = "Args" /\ http.policy \in window[r] /\ Inside(q)
    BY <1>1, <2>1 DEF RequestInv, Progress, Captured, Inside, AfterForward
  <2>3. m => \E fp, gp \in window[r] : fp # gp
    BY <1>1, <2>2, EvaluateMismatch DEF RequestInv, HttpFns
  <2>4. QED BY <1>1, <2>1, <2>2, <2>3, MoveAfter DEF AfterForward
<1>4. QED BY <1>2, <1>3

LEMMA RequestVerdictInv ==
  ASSUME HttpInv, NEW r \in Requests, RequestVerdict(r) PROVE HttpInv'
<1> DEFINE q == [reqs[r] EXCEPT !.env = None]
<1>1. /\ reqs[r] \in Request /\ reqs[r].pc = "judge_req"
      /\ RequestInv(reqs[r], window[r], http.policy, connection_number)
      /\ UNCHANGED <<actorVars, window>>
      /\ reqs[r].env \in window[r] /\ reqs[r].env \in Verdict /\ None \in Verdict
  BY TaskFacts DEF RequestVerdict, RequestInv, Captured, Request, Verdict
<1>2. /\ q \in Request
      /\ q.numbered = reqs[r].numbered /\ q.connection = reqs[r].connection
      /\ q.forwarded = reqs[r].forwarded /\ q.by_req = reqs[r].by_req
      /\ q.mismatch = reqs[r].mismatch
  BY <1>1 DEF Request
<1>3. PICK b \in EvalOutcomes(reqs[r].env, "allow_rest_request", q.request.n) :
        CASE b = "true"  -> Goto(r, Forward([q EXCEPT !.by_req = reqs[r].env]))
          [] b = "false" -> Goto(r, Done(q, "unauthorized"))
          [] b = "error" -> Goto(r, Done(q, "internal"))
  BY DEF RequestVerdict
<1>4. CASE b = "true"
  <2>1. AllowedBy(window[r], "allow_rest_request", reqs[r].env)
    BY <1>1 DEF AllowedBy
  <2>2. [q EXCEPT !.by_req = reqs[r].env]
          = [reqs[r] EXCEPT !.env = None, !.by_req = reqs[r].env]
    BY <1>1 DEF Request
  <2>3. Goto(r, Forward([q EXCEPT !.by_req = reqs[r].env]))
    BY <1>3, <1>4
  <2>4. QED BY <1>1, <2>1, <2>2, <2>3, ForwardInv DEF BeforeForward
<1>5. CASE b = "false"
  <2>1. Goto(r, Done(q, "unauthorized"))
    BY <1>3, <1>5
  <2>2. QED BY <1>1, <1>2, <2>1, TaskEnds DEF Answers
<1>6. CASE b = "error"
  <2>1. Goto(r, Done(q, "internal"))
    BY <1>3, <1>6
  <2>2. QED BY <1>1, <1>2, <2>1, TaskEnds DEF Answers
<1>7. QED BY <1>3, <1>4, <1>5, <1>6 DEF EvalOutcomes

LEMMA ResponseVerdictInv ==
  ASSUME HttpInv, NEW r \in Requests, ResponseVerdict(r) PROVE HttpInv'
<1> DEFINE q == reqs[r]
<1>1. /\ q \in Request /\ q.pc = "judge_res"
      /\ RequestInv(q, window[r], http.policy, connection_number)
      /\ UNCHANGED <<actorVars, window>>
      /\ q.env \in window[r] /\ q.env \in Verdict
  BY TaskFacts DEF ResponseVerdict, RequestInv, Captured, Request
<1>2. PICK b \in EvalOutcomes(q.env, "allow_rest_response", q.response.n) :
        CASE b = "true"  -> Goto(r, Done([q EXCEPT !.by_res = q.env], "reply"))
          [] b = "false" -> Goto(r, Done(q, "unauthorized"))
          [] b = "error" -> Goto(r, Done(q, "internal"))
  BY DEF ResponseVerdict
<1>3. CASE b = "true"
  <2>1. AllowedBy(window[r], "allow_rest_response", q.env)
    BY <1>1 DEF AllowedBy
  <2>2. Goto(r, Done([q EXCEPT !.by_res = q.env], "reply"))
    BY <1>2, <1>3
  <2>3. QED BY <1>1, <2>1, <2>2, ReplyInv DEF AfterForward
<1>4. CASE b = "false"
  <2>1. Goto(r, Done(q, "unauthorized"))
    BY <1>2, <1>4
  <2>2. QED BY <1>1, <2>1, TaskEnds DEF Answers
<1>5. CASE b = "error"
  <2>1. Goto(r, Done(q, "internal"))
    BY <1>2, <1>5
  <2>2. QED BY <1>1, <2>1, TaskEnds DEF Answers
<1>6. QED BY <1>2, <1>3, <1>4, <1>5 DEF EvalOutcomes

\* The server answers or fails, and its body is read or not.
LEMMA UpstreamInv ==
  ASSUME HttpInv, NEW r \in Requests, Upstream(r) \/ ReadBody(r) PROVE HttpInv'
<1> DEFINE q == reqs[r]
<1>1. /\ q \in Request /\ q.pc \in {"sent", "body"}
      /\ RequestInv(q, window[r], http.policy, connection_number)
      /\ UNCHANGED <<actorVars, window>>
      /\ q.env \in Verdict /\ q.mismatch \in BOOLEAN /\ q.by_res \in Verdict
      /\ q.mismatch => \E fp, gp \in window[r] : fp # gp
  BY TaskFacts DEF Upstream, ReadBody, Request, RequestInv
<1>2. ASSUME NEW a \in Answers \ {"reply"}, Goto(r, Done(q, a)) PROVE HttpInv'
  BY <1>1, <1>2, TaskEnds
<1>3. ASSUME NEW pc \in {"body", "eval_res"}, Goto(r, [q EXCEPT !.pc = pc]),
             pc = "eval_res" => q.response.kind = "Args"
      PROVE  HttpInv'
  <2>1. [q EXCEPT !.pc = pc] = [q EXCEPT !.pc = pc, !.env = q.env, !.mismatch = q.mismatch]
    BY <1>1 DEF Request
  <2>2. QED BY <1>1, <1>3, <2>1, MoveAfter DEF AfterForward
<1>4. CASE q.response = Allow /\ Goto(r, Done(q, "reply"))
  <2>1. AllowedBy(window[r], "allow_rest_response", q.by_res)
    BY <1>1, <1>4 DEF RequestInv, Captured, Inside, AfterForward, AllowedBy
  <2>2. q = [q EXCEPT !.by_res = q.by_res]
    BY <1>1 DEF Request
  <2>3. QED BY <1>1, <1>4, <2>1, <2>2, ReplyInv DEF AfterForward
<1>5. QED BY <1>2, <1>3, <1>4 DEF Upstream, ReadBody, Answers

LEMMA DropInv ==
  ASSUME HttpInv, NEW r \in Requests, Drop(r) PROVE HttpInv'
BY TaskFacts, TaskEnds DEF Drop, Answers

-----------------------------------------------------------------------------
\* The host replaces the policy: the window of every task inside gets wider.
LEMMA InstallPolicyInv == ASSUME HttpInv, InstallPolicy PROVE HttpInv'
<1>1. PICK t \in TcpPolicies \cup {None}, h \in HttpPolicies \cup {None} :
        /\ SetPolicy(t, h)
        /\ window' = [r \in Requests |->
                        IF Active(r) THEN window[r] \cup {http'.policy} ELSE window[r]]
        /\ UNCHANGED reqs
  BY DEF InstallPolicy
<1>2. ActorInv'
  BY <1>1, SetPolicyInv DEF HttpInv
<1>3. http'.policy \in Policies
  BY <1>2 DEF ActorInv, ActorTypeOK, Policies
<1>4. CacheCoherent' /\ connection_number' = connection_number
  BY <1>1 DEF HttpInv, CacheCoherent, SetPolicy, idVars, LabelsOf
<1>5. window' \in [Requests -> SUBSET Policies]
  BY <1>1, <1>3 DEF HttpInv
<1>6. ASSUME NEW r \in Requests
      PROVE  RequestInv(reqs'[r], window'[r], http'.policy, connection_number')
  <2>1. /\ RequestInv(reqs[r], window[r], http.policy, connection_number)
        /\ reqs[r] \in Request
    BY TaskFacts
  <2>2. Inside(reqs[r]) => Active(r)
    BY DEF Inside, Active, BeforeForward, AfterForward
  <2>3. window[r] \subseteq window'[r] /\ (Inside(reqs[r]) => http'.policy \in window'[r])
    BY <1>1, <2>2
  <2>4. RequestInv(reqs[r], window'[r], http'.policy, connection_number)
    BY <2>1, <2>3, WiderWindow
  <2>5. QED BY <1>1, <1>4, <2>4
<1>7. DistinctNumbers'
  BY <1>1 DEF HttpInv, DistinctNumbers
<1>8. QED BY <1>1, <1>2, <1>4, <1>5, <1>6, <1>7 DEF HttpInv

LEMMA ControlInv == ASSUME HttpInv, Control PROVE HttpInv'
<1>1. HostStep \/ ServerStep \/ Shutdown
  BY DEF Control
<1>2. ActorInv'
  BY <1>1, ActorStepInv DEF HttpInv, ActorNext
<1>3. http'.policy = http.policy /\ connection_number' = connection_number /\ CacheCoherent'
  BY <1>1, ControlKeepsPolicy DEF HttpInv
<1>4. QED BY <1>2, <1>3 DEF HttpInv, Control, DistinctNumbers

\* Every step of the HTTP proxy, its host and its clients keeps the invariant.
LEMMA HttpStepInv == ASSUME HttpInv, [HttpNext]_httpVars PROVE HttpInv'
<1>1. CASE Control
  BY <1>1, ControlInv
<1>2. CASE InstallPolicy
  BY <1>2, InstallPolicyInv
<1>3. ASSUME NEW r \in Requests, NEW c \in Clients, NEW t \in Targets \cup {None},
             NEW p \in Ports, NEW i \in Ingress \cup {None}, Accept(r, c, t, p, i)
      PROVE  HttpInv'
  BY <1>3, AcceptInv
<1>4. ASSUME NEW r \in Requests, Step(r) \/ Read(r) PROVE HttpInv'
  BY <1>4, GetHttpPolicyInv, ReadPayloadInv, EvalInv, RequestVerdictInv, UpstreamInv,
     ResponseVerdictInv DEF Step, Read
<1>5. ASSUME NEW r \in Requests, Drop(r) PROVE HttpInv'
  BY <1>5, DropInv
<1>6. CASE UNCHANGED httpVars
  <2>1. ActorInv'
    BY <1>6, ActorUnchangedInv DEF HttpInv, httpVars
  <2>2. QED
    BY <1>6, <2>1 DEF HttpInv, httpVars, actorVars, idVars, ctlVars, CacheCoherent, LabelsOf,
                      DistinctNumbers
<1>7. QED BY <1>1, <1>2, <1>3, <1>4, <1>5, <1>6 DEF HttpNext

\* The inductive invariant says what the runs check.
LEMMA HttpInvImplies ==
  ASSUME HttpInv
  PROVE  /\ HttpTypeOK
         /\ NothingUnchecked
         /\ MismatchOnlyAfterUpdate
         /\ NumbersUnique
         /\ CacheCoherent
<1>1. HttpTypeOK
  BY DEF HttpInv, ActorInv, HttpTypeOK, Policies
<1>2. NothingUnchecked
  BY DEF HttpInv, RequestInv, Consented, NothingUnchecked
<1>3. MismatchOnlyAfterUpdate
  BY DEF HttpInv, RequestInv, MismatchOnlyAfterUpdate
<1>4. NumbersUnique
  BY DEF HttpInv, RequestInv, DistinctNumbers, NumbersUnique
<1>5. QED BY <1>1, <1>2, <1>3, <1>4 DEF HttpInv

LEMMA HttpInvariant == HttpSpec => []HttpInv
<1>1. HttpInit => HttpInv
  BY HttpInitInv
<1>2. HttpInv /\ [HttpNext]_httpVars => HttpInv'
  BY HttpStepInv
<1>3. QED BY <1>1, <1>2, PTL DEF HttpSpec

(***************************************************************************)
(* The state of actor and tasks is well formed, unexpected arities and     *)
(* dropped tasks included.                                                 *)
(***************************************************************************)
THEOREM HttpTypeCorrect == HttpSpec => []HttpTypeOK
<1>1. HttpInv => HttpTypeOK
  BY HttpInvImplies
<1>2. QED BY <1>1, HttpInvariant, PTL

(***************************************************************************)
(* No request reaches a server and no response a client without the        *)
(* consent of a policy that was installed while it was handled, however    *)
(* many policies are installed at whichever await.                         *)
(***************************************************************************)
THEOREM HttpNothingUnchecked == HttpSpec => []NothingUnchecked
<1>1. HttpInv => NothingUnchecked
  BY HttpInvImplies
<1>2. QED BY <1>1, HttpInvariant, PTL

(***************************************************************************)
(* An evaluation gets a wrong number of arguments only if the policy was   *)
(* replaced while the request was handled.                                 *)
(***************************************************************************)
THEOREM HttpMismatch == HttpSpec => []MismatchOnlyAfterUpdate
<1>1. HttpInv => MismatchOnlyAfterUpdate
  BY HttpInvImplies
<1>2. QED BY <1>1, HttpInvariant, PTL

(***************************************************************************)
(* The policy never sees one connection number twice.                      *)
(***************************************************************************)
THEOREM HttpNumbers == HttpSpec => []NumbersUnique
<1>1. HttpInv => NumbersUnique
  BY HttpInvImplies
<1>2. QED BY <1>1, HttpInvariant, PTL

(***************************************************************************)
(* The identities that the HTTP proxy's policies see carry the labels of   *)
(* the tables as they are, although requests fill the caches while the     *)
(* host changes labels.                                                    *)
(***************************************************************************)
THEOREM HttpCachesCoherent == HttpSpec => []CacheCoherent
<1>1. HttpInv => CacheCoherent
  BY HttpInvImplies
<1>2. QED BY <1>1, HttpInvariant, PTL

-----------------------------------------------------------------------------
(***************************************************************************)
(* The HTTP proxy implements Gate, for every set of requests and policies: *)
(* under the mapping of HttpProxy every step of the proxy is a step of the *)
(* gate or leaves it as it is.                                             *)
(***************************************************************************)
\* The part of the gate's state that one task stands for.
Since(q, w) == IF Inside(q) THEN w ELSE {}

\* A task goes on as q: the gate changes for this message only.
LEMMA GateFrame ==
  ASSUME HttpInv, NEW r \in Requests, NEW q \in Request, Goto(r, q),
         \A s \in Requests \ {r} : window'[s] = window[s]
  PROVE  /\ GatePlace' = [GatePlace EXCEPT ![r] = Place(q)]
         /\ GatePassed' = [GatePassed EXCEPT ![r] = Passed(q)]
         /\ GateJudged' = [GateJudged EXCEPT ![r] = Judged(q)]
         /\ GateSince' = [GateSince EXCEPT ![r] = Since(q, window'[r])]
<1>1. \A s \in Requests : reqs'[s] = IF s = r THEN q ELSE reqs[s]
  BY DEF HttpInv, Goto
<1>2. q.pc \in PC
  BY DEF Request
<1>3. GatePlace' = [GatePlace EXCEPT ![r] = Place(q)]
  BY <1>1 DEF GatePlace
<1>4. GatePassed' = [GatePassed EXCEPT ![r] = Passed(q)]
  BY <1>1 DEF GatePassed
<1>5. GateJudged' = [GateJudged EXCEPT ![r] = Judged(q)]
  BY <1>1 DEF GateJudged
<1>6. (IF q.pc \notin {"idle", "policy", "done"} THEN window'[r] ELSE {})
        = Since(q, window'[r])
  BY <1>2 DEF Since, Inside, PC, BeforeForward, AfterForward
<1>7. GateSince' = [GateSince EXCEPT ![r] = Since(q, window'[r])]
  BY <1>1, <1>6 DEF GateSince, Active
<1>8. QED BY <1>3, <1>4, <1>5, <1>7

\* The gate's view of one message.
LEMMA GateView ==
  ASSUME HttpInv, NEW r \in Requests
  PROVE  /\ GatePlace[r] = Place(reqs[r])
         /\ GatePassed[r] = Passed(reqs[r])
         /\ GateJudged[r] = Judged(reqs[r])
         /\ GateSince[r] = Since(reqs[r], window[r])
<1>1. reqs[r].pc \in PC
  BY TaskFacts DEF Request
<1>2. QED
  BY <1>1 DEF GatePlace, GatePassed, GateJudged, GateSince, Active, Since, Inside, PC,
              BeforeForward, AfterForward

\* A step of a task that the gate does not see.
LEMMA MapStutter ==
  ASSUME HttpInv, NEW r \in Requests, NEW q \in Request, Goto(r, q),
         UNCHANGED <<actorVars, window>>,
         Place(q) = Place(reqs[r]), Passed(q) = Passed(reqs[r]),
         Judged(q) = Judged(reqs[r]), Inside(q) = Inside(reqs[r])
  PROVE  UNCHANGED HttpGate!vars
<1>1. window' = window
  OBVIOUS
<1>2. /\ GatePlace' = [GatePlace EXCEPT ![r] = Place(q)]
      /\ GatePassed' = [GatePassed EXCEPT ![r] = Passed(q)]
      /\ GateJudged' = [GateJudged EXCEPT ![r] = Judged(q)]
      /\ GateSince' = [GateSince EXCEPT ![r] = Since(q, window[r])]
  BY <1>1, GateFrame
<1>3. Since(q, window[r]) = Since(reqs[r], window[r])
  BY DEF Since
<1>4. /\ GatePlace[r] = Place(q) /\ GatePassed[r] = Passed(q)
      /\ GateJudged[r] = Judged(q) /\ GateSince[r] = Since(q, window[r])
  BY <1>3, GateView
<1>5. GatePlace' = GatePlace /\ GatePassed' = GatePassed
  BY <1>2, <1>4 DEF GatePlace, GatePassed
<1>6. GateJudged' = GateJudged /\ GateSince' = GateSince
  BY <1>2, <1>4 DEF GateJudged, GateSince
<1>7. running' = running /\ http' = http
  BY DEF actorVars, ctlVars
<1>8. QED BY <1>5, <1>6, <1>7 DEF HttpGate!vars

\* A task that ends without the server's reply is a message that leaves.
LEMMA MapLeave ==
  ASSUME HttpInv, NEW r \in Requests, NEW q \in Request, Goto(r, q),
         UNCHANGED <<actorVars, window>>, running, reqs[r].pc # "done",
         q.pc = "done", Passed(q) = Passed(reqs[r]), Judged(q) = Judged(reqs[r])
  PROVE  HttpGate!Leave(r)
<1>1. window' = window
  OBVIOUS
<1>2. /\ GatePlace' = [GatePlace EXCEPT ![r] = Place(q)]
      /\ GatePassed' = [GatePassed EXCEPT ![r] = Passed(q)]
      /\ GateJudged' = [GateJudged EXCEPT ![r] = Judged(q)]
      /\ GateSince' = [GateSince EXCEPT ![r] = Since(q, window[r])]
  BY <1>1, GateFrame
<1>3. Place(q) = "left" /\ Since(q, window[r]) = {} /\ Place(reqs[r]) # "left"
  BY DEF Place, Since, Inside, BeforeForward, AfterForward
<1>4. /\ GatePassed' = GatePassed /\ GateJudged' = GateJudged
  BY <1>2, GateView DEF GatePassed, GateJudged
<1>5. running' = running /\ http' = http
  BY DEF actorVars, ctlVars
<1>6. QED BY <1>2, <1>3, <1>4, <1>5, GateView DEF HttpGate!Leave

\* A task that ends in any other way than by the reply.
LEMMA MapDone ==
  ASSUME HttpInv, NEW r \in Requests, NEW q \in Request, NEW a \in Answers \ {"reply"},
         Goto(r, Done(q, a)), UNCHANGED <<actorVars, window>>, running,
         reqs[r].pc # "done", q.forwarded = reqs[r].forwarded,
         q.by_req = reqs[r].by_req, q.by_res = reqs[r].by_res
  PROVE  HttpGate!Leave(r)
<1>1. Deny \in FnPolicy
  BY DEF FnPolicy
<1>2. /\ Done(q, a) \in Request /\ Done(q, a).pc = "done" /\ Done(q, a).answer = a
      /\ Done(q, a).forwarded = reqs[r].forwarded
      /\ Done(q, a).by_req = reqs[r].by_req /\ Done(q, a).by_res = reqs[r].by_res
  BY <1>1 DEF Done, Request, PC, Verdict
<1>3. reqs[r].answer = None /\ None # "reply"
  BY TaskFacts, NoneNotAnswer DEF RequestInv, Progress, Answers
<1>4. Passed(Done(q, a)) = Passed(reqs[r])
  BY <1>2, <1>3 DEF Passed
<1>5. Judged(Done(q, a)) = Judged(reqs[r])
  BY <1>2 DEF Judged
<1>6. QED BY <1>2, <1>4, <1>5, MapLeave

\* A task that passes a check, by a policy of its window.
LEMMA MapPass ==
  ASSUME HttpInv, NEW r \in Requests, NEW q \in Request, Goto(r, q),
         UNCHANGED <<actorVars, window>>, running, Inside(reqs[r]),
         NEW k \in {1, 2}, Passed(reqs[r]) = k - 1, Passed(q) = k,
         IF k = 1 THEN Inside(q) ELSE q.pc = "done",
         \/ /\ \E p \in window[r] : HttpAnswer(p, k) = "allow"
            /\ Judged(q) = Judged(reqs[r])
         \/ /\ \E p \in window[r] : HttpAnswer(p, k) = "judge"
            /\ Judged(q) = Judged(reqs[r]) \cup {k}
  PROVE  HttpGate!Pass(r)
<1>1. window' = window
  OBVIOUS
<1>2. /\ GatePlace' = [GatePlace EXCEPT ![r] = Place(q)]
      /\ GatePassed' = [GatePassed EXCEPT ![r] = Passed(q)]
      /\ GateJudged' = [GateJudged EXCEPT ![r] = Judged(q)]
      /\ GateSince' = [GateSince EXCEPT ![r] = Since(q, window[r])]
  BY <1>1, GateFrame
<1>3. /\ GatePlace[r] = "inside" /\ GatePassed[r] = k - 1
      /\ GateJudged[r] = Judged(reqs[r]) /\ GateSince[r] = window[r]
  BY GateView DEF Place, Inside, Since, BeforeForward, AfterForward
<1>4. HttpGate!Held(r)
  BY <1>3 DEF HttpGate!Held
<1>5. GatePassed[r] + 1 = k
  BY <1>3
<1>6. HttpGate!Grant(r, GateSince[r])
  <2>1. GatePassed' = [GatePassed EXCEPT ![r] = GatePassed[r] + 1]
    BY <1>2, <1>5
  <2>2. CASE (\E p \in window[r] : HttpAnswer(p, k) = "allow") /\ Judged(q) = Judged(reqs[r])
    <3>1. GateJudged' = GateJudged
      BY <1>2, <1>3, <2>2 DEF GateJudged
    <3>2. QED BY <1>3, <1>5, <2>1, <2>2, <3>1 DEF HttpGate!Grant
  <2>3. CASE /\ \E p \in window[r] : HttpAnswer(p, k) = "judge"
             /\ Judged(q) = Judged(reqs[r]) \cup {k}
    <3>1. GateJudged' = [GateJudged EXCEPT ![r] = GateJudged[r] \cup {GatePassed[r] + 1}]
      BY <1>2, <1>3, <1>5, <2>3
    <3>2. QED BY <1>3, <1>5, <2>1, <2>3, <3>1 DEF HttpGate!Grant
  <2>4. QED BY <2>2, <2>3
<1>7. GatePassed'[r] = k
  BY <1>2 DEF GatePassed
<1>8. \/ GatePlace' = GatePlace
      \/ GatePlace' = [GatePlace EXCEPT ![r] = IF GatePassed'[r] = 2 THEN "left"
                                               ELSE GatePlace[r]]
  <2>1. CASE k = 1
    <3>1. Place(q) = GatePlace[r]
      BY <1>3, <2>1 DEF Place, Inside, BeforeForward, AfterForward
    <3>2. QED BY <1>2, <3>1 DEF GatePlace
  <2>2. CASE k = 2
    <3>1. Place(q) = "left"
      BY <2>2 DEF Place
    <3>2. QED BY <1>2, <1>7, <2>2, <3>1
  <2>3. QED BY <2>1, <2>2
<1>9. GateSince' = [GateSince EXCEPT ![r] = IF GatePassed'[r] < 2 THEN GateSince[r] ELSE {}]
  <2>1. Since(q, window[r]) = IF k < 2 THEN window[r] ELSE {}
    BY DEF Since, Inside, BeforeForward, AfterForward
  <2>2. QED BY <1>2, <1>3, <1>7, <2>1
<1>10. running' = running /\ http' = http
  BY DEF actorVars, ctlVars
<1>11. QED BY <1>4, <1>6, <1>8, <1>9, <1>10 DEF HttpGate!Pass

-----------------------------------------------------------------------------
\* What a step of the proxy is for the gate.
GateStep == HttpGate!Next \/ UNCHANGED HttpGate!vars

\* A step of one message is a step of the gate.
LEMMA MessageSteps ==
  ASSUME NEW r \in Requests,
         HttpGate!Arrive(r) \/ HttpGate!Admit(r) \/ HttpGate!Pass(r) \/ HttpGate!Leave(r)
  PROVE  GateStep
BY DEF GateStep, HttpGate!Next

\* The server thread takes a request, or refuses it at once.
LEMMA AcceptMaps ==
  ASSUME HttpInv, NEW r \in Requests, NEW c \in Clients, NEW t \in Targets \cup {None},
         NEW p \in Ports, NEW i \in Ingress \cup {None}, Accept(r, c, t, p, i)
  PROVE  GateStep
<1> DEFINE u == IF t = None THEN None ELSE forward_uri(t, i)
           q == [reqs[r] EXCEPT !.from = c, !.to = u]
           z == [q EXCEPT !.pc = "policy"]
<1>1. u \in Targets \cup {None}
  BY IngressAssumption DEF forward_uri, HttpInv, ActorInv, ActorTypeOK
<1>2. reqs[r].pc = "idle" /\ UNCHANGED <<actorVars, window>> /\ running
  BY DEF Accept
<1>3. /\ q \in Request /\ q.forwarded = reqs[r].forwarded
      /\ q.by_req = reqs[r].by_req /\ q.by_res = reqs[r].by_res
  BY <1>1, TaskFacts DEF Request
<1>4. CASE Goto(r, Done(q, "internal"))
  BY <1>2, <1>3, <1>4, MapDone, MessageSteps DEF Answers
<1>5. CASE Goto(r, z)
  <2>1. /\ z \in Request /\ z.pc = "policy" /\ z.answer = reqs[r].answer
        /\ z.forwarded = reqs[r].forwarded
        /\ z.by_req = reqs[r].by_req /\ z.by_res = reqs[r].by_res
    BY <1>1, TaskFacts, ZenonT(60) DEF Request, PC
  <2>2. /\ Place(z) = "waiting" /\ Passed(z) = Passed(reqs[r])
        /\ Judged(z) = Judged(reqs[r]) /\ Since(z, window[r]) = Since(reqs[r], window[r])
    BY <1>2, <2>1 DEF Place, Passed, Judged, Since, Inside, BeforeForward, AfterForward
  <2>3. window' = window
    BY <1>2
  <2>4. /\ GatePlace' = [GatePlace EXCEPT ![r] = Place(z)]
        /\ GatePassed' = [GatePassed EXCEPT ![r] = Passed(z)]
        /\ GateJudged' = [GateJudged EXCEPT ![r] = Judged(z)]
        /\ GateSince' = [GateSince EXCEPT ![r] = Since(z, window[r])]
    BY <1>5, <2>1, <2>3, GateFrame
  <2>5. /\ GatePlace[r] = "new" /\ GatePassed[r] = Passed(z)
        /\ GateJudged[r] = Judged(z) /\ GateSince[r] = Since(z, window[r])
    BY <1>2, <2>2, GateView DEF Place
  <2>6. GatePassed' = GatePassed /\ GateJudged' = GateJudged /\ GateSince' = GateSince
    BY <2>4, <2>5 DEF GatePassed, GateJudged, GateSince
  <2>7. running' = running /\ http' = http
    BY <1>2 DEF actorVars, ctlVars
  <2>8. HttpGate!Arrive(r)
    BY <1>2, <2>2, <2>4, <2>5, <2>6, <2>7 DEF HttpGate!Arrive
  <2>9. QED BY <2>8, MessageSteps
<1>6. QED BY <1>4, <1>5 DEF Accept

\* The actor answers with its status: the message is let inside, or leaves.
LEMMA GetHttpPolicyMaps ==
  ASSUME HttpInv, NEW r \in Requests, GetHttpPolicy(r)
  PROVE  GateStep
<1> DEFINE q == [reqs[r] EXCEPT !.request = http.request, !.response = http.response]
<1>1. /\ reqs[r] \in Request /\ reqs[r].pc = "policy" /\ running
      /\ reqs[r].forwarded = FALSE /\ reqs[r].by_req = None /\ reqs[r].by_res = None
      /\ reqs[r].answer = None /\ None # "reply"
      /\ reqs[r].from \in ID /\ reqs[r].to \in ID
  BY TaskFacts, NoneNotAnswer, EndpointsAssumption
     DEF GetHttpPolicy, Ready, RequestInv, Progress, Answers
<1>2. http.request \in FnPolicy /\ http.response \in FnPolicy /\ Deny \in FnPolicy
  BY DEF HttpInv, ActorInv, ActorTypeOK, FnPolicy
<1>3. PICK z \in Request : /\ Goto(r, AfterPolicy(z))
                           /\ z.forwarded = FALSE /\ z.by_req = None /\ z.by_res = None
                           /\ z.answer = None
  <2>1. CASE http.allow_all
    <3>1. /\ q \in Request /\ q.forwarded = FALSE /\ q.by_req = None /\ q.by_res = None
          /\ q.answer = None
      BY <1>1, <1>2 DEF Request
    <3>2. QED BY <2>1, <3>1 DEF GetHttpPolicy
  <2>2. CASE ~http.allow_all
    <3>1. PICK d1 \in DnsAnswer, d2 \in DnsAnswer :
            Goto(r, AfterPolicy([q EXCEPT !.numbered = TRUE,
                                   !.connection = Connection(q.from, q.to, d1, d2)]))
      BY <2>2 DEF GetHttpPolicy
    <3> DEFINE k == Connection(q.from, q.to, d1, d2)
               y == [q EXCEPT !.numbered = TRUE, !.connection = k]
    <3>2. q.from = reqs[r].from /\ q.to = reqs[r].to
      BY <1>1 DEF Request
    <3>3. IdTypeOK
      BY DEF HttpInv, ActorInv, ActorTypeOK
    <3>4. k \in DPConnection
      BY <1>1, <3>2, <3>3, ConnectionValue
    <3>5. /\ y \in Request /\ y.forwarded = FALSE /\ y.by_req = None /\ y.by_res = None
          /\ y.answer = None
      BY <1>1, <1>2, <3>4 DEF Request
    <3>6. QED BY <3>1, <3>5
  <2>3. QED BY <2>1, <2>2
<1>4. running' = running /\ http' = http
  BY DEF GetHttpPolicy, ctlVars
<1>5. /\ window'[r] = {http.policy}
      /\ \A s \in Requests \ {r} : window'[s] = window[s]
  BY DEF GetHttpPolicy, HttpInv
<1>6. /\ GatePlace[r] = "waiting" /\ GatePassed[r] = 0
      /\ GateJudged[r] = {} /\ GateSince[r] = {}
  <2>1. Judged(reqs[r]) = {}
    BY <1>1 DEF Judged
  <2>2. QED
    BY <1>1, <2>1, GateView DEF Place, Passed, Since, Inside, BeforeForward, AfterForward
<1>7. ASSUME NEW y \in Request, Goto(r, y), y.pc \in {"payload", "done"},
             y.forwarded = FALSE, y.by_req = None, y.by_res = None, y.answer # "reply"
      PROVE  GateStep
  <2>1. Passed(y) = 0 /\ Judged(y) = {}
    BY <1>7 DEF Passed, Judged
  <2>2. /\ GatePlace' = [GatePlace EXCEPT ![r] = Place(y)]
        /\ GatePassed' = [GatePassed EXCEPT ![r] = Passed(y)]
        /\ GateJudged' = [GateJudged EXCEPT ![r] = Judged(y)]
        /\ GateSince' = [GateSince EXCEPT ![r] = Since(y, window'[r])]
    BY <1>5, <1>7, GateFrame
  <2>3. GatePassed' = GatePassed /\ GateJudged' = GateJudged
    BY <1>6, <2>1, <2>2 DEF GatePassed, GateJudged
  <2>4. CASE y.pc = "payload"
    <3>1. Place(y) = "inside" /\ Since(y, window'[r]) = {http.policy}
      BY <1>5, <2>4 DEF Place, Since, Inside, BeforeForward
    <3>2. GatePassed'[r] = 0
      BY <1>6, <2>3
    <3>3. GateSince' = [GateSince EXCEPT ![r] = IF GatePassed'[r] < 2 THEN {http.policy} ELSE {}]
      <4>1. (IF GatePassed'[r] < 2 THEN {http.policy} ELSE {}) = Since(y, window'[r])
        BY <3>1, <3>2
      <4>2. QED BY <2>2, <4>1
    <3>4. HttpGate!Admit(r)
      BY <1>1, <1>4, <1>6, <2>2, <2>3, <3>1, <3>3 DEF HttpGate!Admit
    <3>5. QED BY <3>4, MessageSteps
  <2>5. CASE y.pc = "done"
    <3>1. Place(y) = "left" /\ Since(y, window'[r]) = {}
      BY <2>5 DEF Place, Since, Inside, BeforeForward, AfterForward
    <3>2. HttpGate!Leave(r)
      BY <1>1, <1>4, <1>6, <2>2, <2>3, <3>1 DEF HttpGate!Leave
    <3>3. QED BY <3>2, MessageSteps
  <2>6. QED BY <1>7, <2>4, <2>5
<1>8. CASE z.request = Deny
  <2>1. AfterPolicy(z) = Done(z, "unauthorized")
    BY <1>8 DEF AfterPolicy
  <2>2. /\ Done(z, "unauthorized") \in Request /\ Done(z, "unauthorized").pc = "done"
        /\ Done(z, "unauthorized").forwarded = FALSE
        /\ Done(z, "unauthorized").by_req = None /\ Done(z, "unauthorized").by_res = None
        /\ Done(z, "unauthorized").answer = "unauthorized"
    BY <1>2, <1>3 DEF Done, Request, PC, Verdict, Answers
  <2>3. QED BY <1>3, <1>7, <2>1, <2>2
<1>9. CASE z.request # Deny
  <2> DEFINE y == [z EXCEPT !.pc = "payload"]
  <2>1. AfterPolicy(z) = y
    BY <1>9 DEF AfterPolicy
  <2>2. /\ y \in Request /\ y.pc = "payload" /\ y.forwarded = FALSE
        /\ y.by_req = None /\ y.by_res = None /\ y.answer = None
    BY <1>3 DEF Request, PC
  <2>3. QED BY <1>1, <1>3, <1>7, <2>1, <2>2
<1>10. QED BY <1>8, <1>9

\* A policy that allows, or that can evaluate to true, at a check.
LEMMA AnswerAllow ==
  ASSUME NEW fp, NEW k \in {1, 2},
         fn_get(fp, IF k = 1 THEN "allow_rest_request" ELSE "allow_rest_response") = Allow
  PROVE  HttpAnswer(fp, k) = "allow"
BY DEF HttpAnswer, Allow, Deny

LEMMA AnswerJudge ==
  ASSUME NEW fp, NEW k \in {1, 2}, NEW n,
         fn_get(fp, IF k = 1 THEN "allow_rest_request" ELSE "allow_rest_response") = Args(n)
  PROVE  HttpAnswer(fp, k) = "judge"
BY DEF HttpAnswer, Args, Allow, Deny

\* The policy that evaluated to true was installed by the host, not the initial one.
LEMMA JudgeNotNone ==
  ASSUME NEW fp \in Policies, NEW f \in HttpFns, NEW n, fn_get(fp, f) = Args(n)
  PROVE  fp # None
<1>1. fn_get(deny_all(HttpFns), f) = Deny
  BY DEF fn_get, deny_all, DefaultFnPolicy
<1>2. fp # deny_all(HttpFns)
  BY <1>1 DEF Args, Deny
<1>3. QED BY <1>2, NoneNotPolicy DEF Policies, Installed

\* A task inside that goes on without passing a check.
LEMMA MoveMaps ==
  ASSUME HttpInv, NEW r \in Requests, NEW q \in Request, Goto(r, q),
         UNCHANGED <<actorVars, window>>, Inside(reqs[r]), Inside(q),
         q.forwarded = reqs[r].forwarded, q.by_req = reqs[r].by_req,
         q.by_res = reqs[r].by_res, q.answer = reqs[r].answer
  PROVE  GateStep
<1>1. Place(q) = Place(reqs[r])
  BY DEF Place, Inside, BeforeForward, AfterForward
<1>2. Passed(q) = Passed(reqs[r]) /\ Judged(q) = Judged(reqs[r])
  BY DEF Passed, Judged
<1>3. UNCHANGED HttpGate!vars
  BY <1>1, <1>2, MapStutter
<1>4. QED BY <1>3 DEF GateStep

\* The payload is read: by the captured status the request may be sent at once.
LEMMA ReadPayloadMaps ==
  ASSUME HttpInv, NEW r \in Requests, ReadPayload(r)
  PROVE  GateStep
<1>1. /\ reqs[r] \in Request /\ reqs[r].pc = "payload" /\ running
      /\ UNCHANGED <<actorVars, window>>
      /\ reqs[r].forwarded = FALSE /\ reqs[r].by_req = None /\ reqs[r].by_res = None
      /\ reqs[r].answer = None /\ None # "reply" /\ Inside(reqs[r])
  BY TaskFacts, NoneNotAnswer
     DEF ReadPayload, RequestInv, Progress, BeforeForward, Inside, Answers
<1>2. CASE \E a \in {"payload_error", "panic"} : Goto(r, Done(reqs[r], a))
  BY <1>1, <1>2, MapDone, MessageSteps DEF Answers
<1>3. CASE reqs[r].request = Allow /\ Goto(r, Forward(reqs[r]))
  <2> DEFINE z == Forward(reqs[r])
  <2>1. /\ z \in Request /\ z.pc = "sent" /\ z.forwarded = TRUE /\ z.answer = None
        /\ z.by_req = None /\ z.by_res = None
    BY <1>1 DEF Forward, Request, PC
  <2>2. Passed(reqs[r]) = 0 /\ Passed(z) = 1 /\ Judged(z) = Judged(reqs[r]) /\ Inside(z)
    BY <1>1, <2>1 DEF Passed, Judged, Inside, AfterForward
  <2>3. \E p \in window[r] : HttpAnswer(p, 1) = "allow"
    BY <1>1, <1>3, TaskFacts, AnswerAllow DEF RequestInv, Captured
  <2>4. HttpGate!Pass(r)
    <3> HIDE DEF z
    <3>1. Goto(r, z)
      BY <1>3 DEF z
    <3>2. QED BY <1>1, <2>1, <2>2, <2>3, <3>1, MapPass
  <2>5. QED BY <2>4, MessageSteps
<1>4. CASE Goto(r, [reqs[r] EXCEPT !.pc = "eval_req"])
  <2> DEFINE z == [reqs[r] EXCEPT !.pc = "eval_req"]
  <2>1. /\ z \in Request /\ z.forwarded = reqs[r].forwarded /\ z.by_req = reqs[r].by_req
        /\ z.by_res = reqs[r].by_res /\ z.answer = reqs[r].answer /\ Inside(z)
    BY <1>1 DEF Request, PC, Inside, BeforeForward
  <2>2. QED BY <1>1, <1>4, <2>1, MoveMaps
<1>5. QED BY <1>2, <1>3, <1>4 DEF ReadPayload

\* Starting an evaluation passes no check.
LEMMA EvaluateMaps ==
  ASSUME HttpInv, NEW r \in Requests, EvalRequest(r) \/ EvalResponse(r)
  PROVE  GateStep
<1>1. ASSUME NEW f, NEW n, NEW pc \in {"judge_req", "judge_res"},
             Evaluate(r, f, n, pc), Inside(reqs[r])
      PROVE  GateStep
  <2> DEFINE z == [reqs[r] EXCEPT !.pc = pc, !.env = http.policy,
                      !.mismatch = @ \/ ~applies(http.policy, f, n)]
  <2>1. reqs[r] \in Request /\ http.policy \in Verdict
    BY TaskFacts DEF HttpInv, ActorInv, ActorTypeOK, Verdict
  <2>2. (reqs[r].mismatch \/ ~applies(http.policy, f, n)) \in BOOLEAN
    OBVIOUS
  <2>3. /\ z \in Request /\ z.pc = pc /\ z.forwarded = reqs[r].forwarded
        /\ z.by_req = reqs[r].by_req /\ z.by_res = reqs[r].by_res
        /\ z.answer = reqs[r].answer
    BY <2>1, <2>2, ZenonT(60) DEF Request, PC
  <2>4. Inside(z)
    BY <2>3 DEF Inside, BeforeForward, AfterForward
  <2>5. Goto(r, z) /\ UNCHANGED <<actorVars, window>>
    BY <1>1 DEF Evaluate
  <2>6. QED BY <1>1, <2>3, <2>4, <2>5, MoveMaps
<1>2. CASE EvalRequest(r)
  BY <1>1, <1>2 DEF EvalRequest, Inside, BeforeForward
<1>3. CASE EvalResponse(r)
  BY <1>1, <1>3 DEF EvalResponse, Inside, AfterForward
<1>4. QED BY <1>2, <1>3

\* The verdict on the request: only true is a check passed.
LEMMA RequestVerdictMaps ==
  ASSUME HttpInv, NEW r \in Requests, RequestVerdict(r)
  PROVE  GateStep
<1> DEFINE q == [reqs[r] EXCEPT !.env = None]
           z == Forward([q EXCEPT !.by_req = reqs[r].env])
<1>1. /\ reqs[r] \in Request /\ reqs[r].pc = "judge_req" /\ running
      /\ UNCHANGED <<actorVars, window>>
      /\ reqs[r].forwarded = FALSE /\ reqs[r].by_req = None /\ reqs[r].by_res = None
      /\ reqs[r].answer = None /\ None # "reply" /\ Inside(reqs[r])
      /\ reqs[r].env \in window[r] /\ window[r] \subseteq Policies
  BY TaskFacts, NoneNotAnswer
     DEF RequestVerdict, RequestInv, Progress, Captured, BeforeForward, Inside, Answers
<1>2. /\ q \in Request /\ q.forwarded = reqs[r].forwarded /\ q.by_req = reqs[r].by_req
      /\ q.by_res = reqs[r].by_res /\ q.request = reqs[r].request
  BY <1>1 DEF Request, Verdict
<1>3. CASE \E a \in {"unauthorized", "internal"} : Goto(r, Done(q, a))
  BY <1>1, <1>2, <1>3, MapDone, MessageSteps DEF Answers
<1>4. CASE /\ "true" \in EvalOutcomes(reqs[r].env, "allow_rest_request", q.request.n)
           /\ Goto(r, z)
  <2>1. fn_get(reqs[r].env, "allow_rest_request") = Args(q.request.n)
    BY <1>4, TrueApplies
  <2>2. reqs[r].env # None
    BY <1>1, <2>1, JudgeNotNone DEF HttpFns
  <2>3. \E p \in window[r] : HttpAnswer(p, 1) = "judge"
    BY <1>1, <2>1, AnswerJudge
  <2>4. /\ z \in Request /\ z.pc = "sent" /\ z.forwarded = TRUE /\ z.answer = None
        /\ z.by_req = reqs[r].env /\ z.by_res = None
    BY <1>1, <1>2 DEF Forward, Request, PC
  <2>5. Passed(reqs[r]) = 0 /\ Passed(z) = 1 /\ Inside(z)
    BY <1>1, <2>4 DEF Passed, Inside, AfterForward
  <2>6. Judged(z) = Judged(reqs[r]) \cup {1}
    BY <1>1, <2>2, <2>4 DEF Judged
  <2>7. HttpGate!Pass(r)
    <3> HIDE DEF z
    <3>1. Goto(r, z)
      BY <1>4
    <3>2. QED BY <1>1, <2>3, <2>4, <2>5, <2>6, <3>1, MapPass
  <2>8. QED BY <2>7, MessageSteps
<1>5. QED BY <1>3, <1>4 DEF RequestVerdict, EvalOutcomes

\* The server answered, or did not.
LEMMA UpstreamMaps ==
  ASSUME HttpInv, NEW r \in Requests, Upstream(r)
  PROVE  GateStep
<1>1. /\ reqs[r] \in Request /\ reqs[r].pc = "sent" /\ running
      /\ UNCHANGED <<actorVars, window>> /\ Inside(reqs[r])
  BY TaskFacts DEF Upstream, Inside, AfterForward
<1>2. CASE \E a \in {"upstream_error", "unauthorized"} : Goto(r, Done(reqs[r], a))
  BY <1>1, <1>2, MapDone, MessageSteps DEF Answers
<1>3. CASE Goto(r, [reqs[r] EXCEPT !.pc = "body"])
  <2> DEFINE z == [reqs[r] EXCEPT !.pc = "body"]
  <2>1. /\ z \in Request /\ z.forwarded = reqs[r].forwarded /\ z.by_req = reqs[r].by_req
        /\ z.by_res = reqs[r].by_res /\ z.answer = reqs[r].answer /\ Inside(z)
    BY <1>1 DEF Request, PC, Inside, AfterForward
  <2>2. QED BY <1>1, <1>3, <2>1, MoveMaps
<1>4. QED BY <1>2, <1>3 DEF Upstream

\* The reply is passed on, by the captured status or by the verdict by.
LEMMA ReplyMaps ==
  ASSUME HttpInv, NEW r \in Requests, reqs[r].pc \in {"body", "judge_res"},
         NEW by \in Verdict, Goto(r, Done([reqs[r] EXCEPT !.by_res = by], "reply")),
         running, UNCHANGED <<actorVars, window>>,
         \/ /\ by = None
            /\ \E p \in window[r] : HttpAnswer(p, 2) = "allow"
         \/ /\ by # None
            /\ \E p \in window[r] : HttpAnswer(p, 2) = "judge"
  PROVE  GateStep
<1> DEFINE z == Done([reqs[r] EXCEPT !.by_res = by], "reply")
<1>1. /\ reqs[r] \in Request /\ Inside(reqs[r])
      /\ reqs[r].forwarded = TRUE /\ reqs[r].by_res = None
      /\ reqs[r].answer = None /\ None # "reply"
  BY TaskFacts, NoneNotAnswer DEF RequestInv, Progress, AfterForward, Inside, Answers
<1>2. Deny \in FnPolicy
  BY DEF FnPolicy
<1>3. /\ z \in Request /\ z.pc = "done" /\ z.forwarded = TRUE /\ z.answer = "reply"
      /\ z.by_req = reqs[r].by_req /\ z.by_res = by
  BY <1>1, <1>2 DEF Done, Request, PC, Verdict, Answers
<1>4. Passed(reqs[r]) = 1 /\ Passed(z) = 2
  BY <1>1, <1>3 DEF Passed
<1>5. Judged(z) = IF by = None THEN Judged(reqs[r]) ELSE Judged(reqs[r]) \cup {2}
  BY <1>1, <1>3 DEF Judged
<1>6. HttpGate!Pass(r)
  <2> HIDE DEF z
  <2>1. Goto(r, z)
    BY DEF z
  <2>2. QED BY <1>1, <1>3, <1>4, <1>5, <2>1, MapPass
<1>7. QED BY <1>6, MessageSteps

\* The response's body is read.
LEMMA ReadBodyMaps ==
  ASSUME HttpInv, NEW r \in Requests, ReadBody(r)
  PROVE  GateStep
<1>1. /\ reqs[r] \in Request /\ reqs[r].pc = "body" /\ running
      /\ UNCHANGED <<actorVars, window>> /\ Inside(reqs[r]) /\ reqs[r].by_res = None
  BY TaskFacts DEF ReadBody, RequestInv, Progress, Inside, AfterForward
<1>2. CASE \E a \in {"payload_error", "panic"} : Goto(r, Done(reqs[r], a))
  BY <1>1, <1>2, MapDone, MessageSteps DEF Answers
<1>3. CASE reqs[r].response = Allow /\ Goto(r, Done(reqs[r], "reply"))
  <2>1. \E p \in window[r] : HttpAnswer(p, 2) = "allow"
    BY <1>1, <1>3, TaskFacts, AnswerAllow DEF RequestInv, Captured
  <2>2. reqs[r] = [reqs[r] EXCEPT !.by_res = None]
    BY <1>1 DEF Request
  <2>3. QED BY <1>1, <1>3, <2>1, <2>2, ReplyMaps DEF Verdict
<1>4. CASE Goto(r, [reqs[r] EXCEPT !.pc = "eval_res"])
  <2> DEFINE z == [reqs[r] EXCEPT !.pc = "eval_res"]
  <2>1. /\ z \in Request /\ z.forwarded = reqs[r].forwarded /\ z.by_req = reqs[r].by_req
        /\ z.by_res = reqs[r].by_res /\ z.answer = reqs[r].answer /\ Inside(z)
    BY <1>1 DEF Request, PC, Inside, AfterForward
  <2>2. QED BY <1>1, <1>4, <2>1, MoveMaps
<1>5. QED BY <1>2, <1>3, <1>4 DEF ReadBody

\* The verdict on the response.
LEMMA ResponseVerdictMaps ==
  ASSUME HttpInv, NEW r \in Requests, ResponseVerdict(r)
  PROVE  GateStep
<1>1. /\ reqs[r] \in Request /\ reqs[r].pc = "judge_res" /\ running
      /\ UNCHANGED <<actorVars, window>>
      /\ reqs[r].env \in window[r] /\ window[r] \subseteq Policies
  BY TaskFacts DEF ResponseVerdict, RequestInv, Captured
<1>2. CASE \E a \in {"unauthorized", "internal"} : Goto(r, Done(reqs[r], a))
  BY <1>1, <1>2, MapDone, MessageSteps DEF Answers
<1>3. CASE /\ "true" \in EvalOutcomes(reqs[r].env, "allow_rest_response", reqs[r].response.n)
           /\ Goto(r, Done([reqs[r] EXCEPT !.by_res = reqs[r].env], "reply"))
  <2>1. fn_get(reqs[r].env, "allow_rest_response") = Args(reqs[r].response.n)
    BY <1>3, TrueApplies
  <2>2. reqs[r].env # None
    BY <1>1, <2>1, JudgeNotNone DEF HttpFns
  <2>3. \E p \in window[r] : HttpAnswer(p, 2) = "judge"
    BY <1>1, <2>1, AnswerJudge
  <2>4. reqs[r].env \in Verdict
    BY <1>1 DEF Policies, Verdict
  <2>5. QED BY <1>1, <1>3, <2>2, <2>3, <2>4, ReplyMaps
<1>4. QED BY <1>2, <1>3 DEF ResponseVerdict, EvalOutcomes

\* A task dropped at an await.
LEMMA DropMaps ==
  ASSUME HttpInv, NEW r \in Requests, Drop(r)
  PROVE  GateStep
BY TaskFacts, MapDone, MessageSteps DEF Drop, Answers

-----------------------------------------------------------------------------
\* A new policy enters the windows of the tasks that have captured a status.
LEMMA InstallMaps ==
  ASSUME HttpInv, HttpInv', InstallPolicy
  PROVE  GateStep
<1>1. /\ running /\ running' = running /\ reqs' = reqs
      /\ window' = [r \in Requests |->
                      IF Active(r) THEN window[r] \cup {http'.policy} ELSE window[r]]
  BY DEF InstallPolicy, SetPolicy, HostRequest, Ready
<1>2. http'.policy \in Installed(HttpFns, HttpPolicies)
  BY DEF HttpInv, ActorInv, ActorTypeOK
<1> DEFINE M == {r \in Requests : Active(r)}
<1>3. M \in SUBSET {m \in Requests : HttpGate!Held(m)}
  <2>1. ASSUME NEW m \in Requests, Active(m) PROVE HttpGate!Held(m)
    <3>1. /\ reqs[m].answer = None /\ None # "reply"
      BY <2>1, TaskFacts, NoneNotAnswer DEF Active, RequestInv, Progress, Answers
    <3>2. GatePlace[m] = "inside" /\ GatePassed[m] \in {0, 1}
      BY <2>1, <3>1, GateView DEF Place, Passed, Active
    <3>3. QED BY <3>2 DEF HttpGate!Held
  <2>2. QED BY <2>1
<1>4. GatePlace' = GatePlace /\ GatePassed' = GatePassed /\ GateJudged' = GateJudged
  BY <1>1 DEF GatePlace, GatePassed, GateJudged
<1>5. GateSince' = [m \in Requests |-> IF m \in M THEN GateSince[m] \cup {http'.policy}
                                     ELSE GateSince[m]]
  BY <1>1 DEF GateSince, Active
<1>6. HttpGate!Install(http'.policy)
  BY <1>1, <1>3, <1>4, <1>5 DEF HttpGate!Install
<1>7. QED BY <1>2, <1>6 DEF GateStep, HttpGate!Next

\* Other requests of the host leave the gate as it is, or shut it down.
LEMMA ControlMaps ==
  ASSUME HttpInv, Control
  PROVE  GateStep
<1>1. /\ http'.policy = http.policy
      /\ running' = running \/ (running = TRUE /\ running' = FALSE)
  BY ControlKeepsPolicy DEF HttpInv, Control
<1>2. /\ GatePlace' = GatePlace /\ GatePassed' = GatePassed
      /\ GateJudged' = GateJudged /\ GateSince' = GateSince
  BY DEF Control, GatePlace, GatePassed, GateJudged, GateSince, Active
<1>3. CASE running' = running
  BY <1>1, <1>2, <1>3 DEF GateStep, HttpGate!vars
<1>4. CASE running = TRUE /\ running' = FALSE
  BY <1>1, <1>2, <1>4 DEF GateStep, HttpGate!Next, HttpGate!Stop
<1>5. QED BY <1>1, <1>3, <1>4

\* A proxy that has just started is a gate that has just opened.
LEMMA InitMaps == HttpInit => HttpGate!Init
<1> SUFFICES ASSUME HttpInit PROVE HttpGate!Init
  OBVIOUS
<1>1. \A r \in Requests : reqs[r] = IdleRequest
  BY DEF HttpInit
<1>2. GatePlace = [r \in Requests |-> "new"]
  BY <1>1 DEF GatePlace, Place, IdleRequest
<1>3. GatePassed = [r \in Requests |-> 0]
  BY <1>1, NoneNotAnswer DEF GatePassed, Passed, IdleRequest, Answers
<1>4. GateJudged = [r \in Requests |-> {}]
  BY <1>1 DEF GateJudged, Judged, IdleRequest
<1>5. GateSince = [r \in Requests |-> {}]
  BY <1>1 DEF GateSince, Active, IdleRequest
<1>6. running = TRUE /\ http.policy \in Installed(HttpFns, HttpPolicies)
  BY ActorInitInv DEF HttpInit, ActorInit, ActorInv, ActorTypeOK
<1>7. QED BY <1>2, <1>3, <1>4, <1>5, <1>6 DEF HttpGate!Init

\* Every step of the proxy is a step of the gate or leaves it as it is.
LEMMA StepMaps == ASSUME HttpInv, HttpInv', [HttpNext]_httpVars PROVE GateStep
<1>1. CASE Control
  BY <1>1, ControlMaps
<1>2. CASE InstallPolicy
  BY <1>2, InstallMaps
<1>3. ASSUME NEW r \in Requests, NEW c \in Clients, NEW t \in Targets \cup {None},
             NEW p \in Ports, NEW i \in Ingress \cup {None}, Accept(r, c, t, p, i)
      PROVE  GateStep
  BY <1>3, AcceptMaps
<1>4. ASSUME NEW r \in Requests, Step(r) \/ Read(r) PROVE GateStep
  BY <1>4, GetHttpPolicyMaps, ReadPayloadMaps, EvaluateMaps, RequestVerdictMaps, UpstreamMaps,
     ReadBodyMaps, ResponseVerdictMaps DEF Step, Read
<1>5. ASSUME NEW r \in Requests, Drop(r) PROVE GateStep
  BY <1>5, DropMaps
<1>6. CASE UNCHANGED httpVars
  BY <1>6 DEF httpVars, actorVars, ctlVars, GateStep, HttpGate!vars, GatePlace, GatePassed,
              GateJudged, GateSince, Active
<1>7. QED BY <1>1, <1>2, <1>3, <1>4, <1>5, <1>6 DEF HttpNext

(***************************************************************************)
(* The HTTP proxy implements Gate.  For every set of requests and policies *)
(* and at every await, a request or response passes only on account of a   *)
(* policy in force while it was handled: one that allows everything there, *)
(* or one that evaluated this very message to true.                        *)
(***************************************************************************)
THEOREM HttpMediates == HttpSpec => Mediates
<1>1. HttpInit => HttpGate!Init
  BY InitMaps
<1>2. HttpInv /\ HttpInv' /\ [HttpNext]_httpVars => [HttpGate!Next]_(HttpGate!vars)
  BY StepMaps DEF GateStep
<1>3. QED BY <1>1, <1>2, HttpInvariant, PTL DEF HttpSpec, Mediates, HttpGate!Safe
=============================================================================
