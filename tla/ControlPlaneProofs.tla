-------------------------- MODULE ControlPlaneProofs --------------------------
(***************************************************************************)
(* The invariants of the control plane hold for any services, hosts,       *)
(* policies, number of handlers that run at the same time and number of    *)
(* requests.                                                               *)
(***************************************************************************)
EXTENDS ControlPlane, FiniteSetTheorems, TLAPS

Kinds == {"none", "host_on_board", "host_drop", "service_on_board", "service_drop", "update",
          "update_global", "update_onboarding", "drop", "drop_all"}

\* Calls about hosts, and calls that only service::on_board makes.
HostOps == {"host_present", "host_insert", "host_delete", "services_delete"}
OnboardOps == {"get_onboarding_policy", "onboarded", "compile_egress", "compile_ingress",
               "service_present", "service_insert"}

Calls == [op : HostOps, label : Hosts] \cup [op : CallOps \ HostOps, label : PolicyLabels]

HandlerType ==
  [kind : Kinds, svc : Services \cup {None}, val : Content, todo : Seq(Calls),
   sel : SUBSET IDs, res : Results \cup {None}, sent : SUBSET Services]

\* Calls that belong together: a save is a deletion and an insertion, and a host
\* is inserted last, after a look for it.
Paired(t) ==
  \A i \in 1..Len(t) :
    /\ t[i].op = "delete_many" => i < Len(t) /\ t[i + 1] = Call("insert_one", t[i].label)
    /\ t[i].op = "insert_one" /\ i > 1 => t[i - 1] = Call("delete_many", t[i].label)
    /\ t[i].op = "host_insert" =>
         i = Len(t) /\ (i > 1 => t[i - 1] = Call("host_present", t[i].label))

\* The calls of service::on_board.
Script(s) == service_on_board(s).todo

\* service::on_board has yet to make the last calls of its script; no other
\* handler makes those calls, and all others save one policy as a whole.
Scripted(q) ==
  IF q.kind = "service_on_board"
  THEN /\ q.svc \in Services
       /\ Len(q.todo) <= 8
       /\ \A i \in 1..Len(q.todo) : q.todo[i] = Script(q.svc)[8 - Len(q.todo) + i]
  ELSE /\ q.val.egress = q.val.ingress
       /\ \A i \in 1..Len(q.todo) : q.todo[i].op \notin OnboardOps

HandlerOK(q) ==
  /\ q \in HandlerType
  /\ Paired(q.todo)
  /\ Scripted(q)
  /\ q.kind = "none" => q.todo = <<>>
  /\ q.res = None <=> q.todo # <<>> \/ q.kind = "none"

\* The next call is op of the label.
Next1(q, op, label) == q.todo # <<>> /\ q.todo[1] = Call(op, label)

\* service::on_board has looked for the service and has yet to insert it.
Admitted(q, label) ==
  q.kind = "service_on_board" /\ new_ID(q.svc) = label /\ Len(q.todo) \in 3..6

-----------------------------------------------------------------------------
LEMMA TailAt ==
  ASSUME NEW S, NEW s \in Seq(S), s # <<>>
  PROVE  /\ Tail(s) \in Seq(S) /\ Len(s) \in Nat /\ Len(s) >= 1
         /\ Len(Tail(s)) = Len(s) - 1
         /\ Len(s) = 1 => Tail(s) = <<>>
         /\ Head(s) = s[1] /\ s[1] \in S
         /\ \A i \in 1..Len(Tail(s)) : i + 1 \in 1..Len(s) /\ Tail(s)[i] = s[i + 1]
OBVIOUS

LEMMA EmptyAt ==
  ASSUME NEW S
  PROVE  /\ <<>> \in Seq(S) /\ Len(<<>>) = 0
         /\ \A s \in Seq(S) : Len(s) \in Nat /\ (s = <<>> <=> Len(s) = 0)
OBVIOUS

LEMMA ConcatAt ==
  ASSUME NEW S, NEW s \in Seq(S), NEW t \in Seq(S)
  PROVE  /\ s \o t \in Seq(S) /\ Len(s \o t) = Len(s) + Len(t)
         /\ \A i \in 1..Len(s) : (s \o t)[i] = s[i]
         /\ \A i \in 1..Len(t) : (s \o t)[Len(s) + i] = t[i]
OBVIOUS

LEMMA AppendAt ==
  ASSUME NEW S, NEW s \in Seq(S), NEW z \in S
  PROVE  /\ Append(s, z) \in Seq(S) /\ Len(Append(s, z)) = Len(s) + 1
         /\ \A i \in 1..Len(s) : Append(s, z)[i] = s[i]
         /\ Append(s, z)[Len(s) + 1] = z
OBVIOUS

LEMMA CallAt ==
  ASSUME NEW op, NEW label
  PROVE  Call(op, label).op = op /\ Call(op, label).label = label
BY DEF Call

LEMMA GuardAt ==
  /\ DOMAIN Guard = {"host_insert", "service_insert", "insert_one"}
  /\ Guard["host_insert"] = "host_present"
  /\ Guard["service_insert"] = "onboarded"
  /\ Guard["insert_one"] = "delete_many"
BY DEF Guard

\* The calls of service::on_board, one by one.
LEMMA ScriptAt ==
  ASSUME NEW s \in Services
  PROVE  /\ Script(s) \in Seq(Calls) /\ Len(Script(s)) = 8
         /\ Script(s)[1] = Call("get_onboarding_policy", onboarding_policy_label)
         /\ Script(s)[2] = Call("onboarded", new_ID(s))
         /\ Script(s)[3] = Call("compile_egress", global_policy_label)
         /\ Script(s)[4] = Call("compile_ingress", global_policy_label)
         /\ Script(s)[5] = Call("service_present", new_ID(s))
         /\ Script(s)[6] = Call("service_insert", new_ID(s))
         /\ Script(s)[7] = Call("delete_many", new_ID(s))
         /\ Script(s)[8] = Call("insert_one", new_ID(s))
<1> DEFINE a == <<Call("get_onboarding_policy", onboarding_policy_label),
                  Call("onboarded", new_ID(s)), Call("compile_egress", global_policy_label),
                  Call("compile_ingress", global_policy_label),
                  Call("service_present", new_ID(s)), Call("service_insert", new_ID(s))>>
           b == <<Call("delete_many", new_ID(s)), Call("insert_one", new_ID(s))>>
<1>1. Script(s) = a \o b
  BY DEF Script, service_on_board, Handler, save_policy
<1>2. /\ new_ID(s) \in PolicyLabels /\ onboarding_policy_label \in PolicyLabels
      /\ global_policy_label \in PolicyLabels
  BY DEF PolicyLabels, IDs
<1>3. \A op \in CallOps \ HostOps, label \in PolicyLabels : Call(op, label) \in Calls
  BY DEF Calls, Call
<1>4. /\ Call("get_onboarding_policy", onboarding_policy_label) \in Calls
      /\ Call("onboarded", new_ID(s)) \in Calls
      /\ Call("compile_egress", global_policy_label) \in Calls
      /\ Call("compile_ingress", global_policy_label) \in Calls
      /\ Call("service_present", new_ID(s)) \in Calls
      /\ Call("service_insert", new_ID(s)) \in Calls
      /\ Call("delete_many", new_ID(s)) \in Calls
      /\ Call("insert_one", new_ID(s)) \in Calls
  BY <1>2, <1>3 DEF CallOps, HostOps
<1>5. a \in Seq(Calls) /\ b \in Seq(Calls) /\ Len(a) = 6 /\ Len(b) = 2
  BY <1>4
<1>6. /\ a[1] = Call("get_onboarding_policy", onboarding_policy_label)
      /\ a[2] = Call("onboarded", new_ID(s)) /\ a[3] = Call("compile_egress", global_policy_label)
      /\ a[4] = Call("compile_ingress", global_policy_label)
      /\ a[5] = Call("service_present", new_ID(s)) /\ a[6] = Call("service_insert", new_ID(s))
      /\ b[1] = Call("delete_many", new_ID(s)) /\ b[2] = Call("insert_one", new_ID(s))
  OBVIOUS
<1> HIDE DEF a, b
<1>7. \A x \in Seq(Calls), y \in Seq(Calls) :
        /\ x \o y \in Seq(Calls) /\ Len(x \o y) = Len(x) + Len(y)
        /\ \A i \in 1..Len(x) : (x \o y)[i] = x[i]
        /\ \A i \in 1..Len(y) : (x \o y)[Len(x) + i] = y[i]
  BY ConcatAt
<1>8. /\ Script(s) \in Seq(Calls) /\ Len(Script(s)) = 8
      /\ \A i \in 1..6 : Script(s)[i] = a[i]
      /\ Script(s)[7] = b[1] /\ Script(s)[8] = b[2]
  <2>1. /\ Script(s) \in Seq(Calls) /\ Len(Script(s)) = Len(a) + Len(b)
        /\ \A i \in 1..Len(a) : Script(s)[i] = a[i]
        /\ \A i \in 1..Len(b) : Script(s)[Len(a) + i] = b[i]
    <3>1. a \in Seq(Calls) /\ b \in Seq(Calls)
      BY <1>5
    <3>2. /\ a \o b \in Seq(Calls) /\ Len(a \o b) = Len(a) + Len(b)
          /\ \A i \in 1..Len(a) : (a \o b)[i] = a[i]
          /\ \A i \in 1..Len(b) : (a \o b)[Len(a) + i] = b[i]
      BY <3>1, <1>7, Zenon
    <3>3. QED  BY <3>2, <1>1
  <2>2. 1 \in 1..Len(b) /\ 2 \in 1..Len(b) /\ Len(a) + 1 = 7 /\ Len(a) + 2 = 8
    BY <1>5
  <2>3. Script(s)[7] = b[1] /\ Script(s)[8] = b[2]
    BY <2>1, <2>2, Zenon
  <2>4. QED  BY <1>5, <2>1, <2>3
<1>9. /\ Script(s)[1] = a[1] /\ Script(s)[2] = a[2] /\ Script(s)[3] = a[3]
      /\ Script(s)[4] = a[4] /\ Script(s)[5] = a[5] /\ Script(s)[6] = a[6]
  BY <1>8
<1>10. QED  BY <1>6, <1>8, <1>9

\* A handler that makes its next call is as it should be, and waits for the next.
LEMMA AdvancedOK ==
  ASSUME NEW q, HandlerOK(q), q.todo # <<>>
  PROVE  /\ HandlerOK(Advanced(q)) /\ Advanced(q).todo = Tail(q.todo)
         /\ Advanced(q).kind = q.kind /\ Advanced(q).svc = q.svc /\ Advanced(q).val = q.val
<1> DEFINE t == q.todo
           z == Advanced(q)
<1>1. q \in HandlerType /\ t \in Seq(Calls) /\ Paired(t) /\ Scripted(q) /\ q.res = None
      /\ q.kind # "none"
  BY DEF HandlerOK, HandlerType
<1>2. /\ Tail(t) \in Seq(Calls) /\ Len(t) \in Nat /\ Len(t) >= 1
      /\ Len(Tail(t)) = Len(t) - 1
      /\ Len(t) = 1 => Tail(t) = <<>>
      /\ \A i \in 1..Len(Tail(t)) : i + 1 \in 1..Len(t) /\ Tail(t)[i] = t[i + 1]
  BY <1>1, TailAt
<1>3. /\ z \in HandlerType /\ z.todo = Tail(t) /\ z.kind = q.kind /\ z.svc = q.svc /\ z.val = q.val
      /\ z.res = IF Len(t) = 1 THEN "ok" ELSE q.res
  <2>1. CASE Len(t) = 1
    <3>1. z = [q EXCEPT !.todo = <<>>, !.res = "ok"]
      BY <2>1 DEF Advanced, Ended
    <3>2. QED  BY <1>1, <1>2, <2>1, <3>1, ZenonT(30) DEF HandlerType, Results
  <2>2. CASE Len(t) # 1
    <3>1. z = [q EXCEPT !.todo = Tail(t)]
      BY <2>2 DEF Advanced
    <3>2. QED  BY <1>1, <1>2, <2>2, <3>1 DEF HandlerType
  <2>3. QED  BY <2>1, <2>2
<1>4. Paired(Tail(t))
  BY <1>1, <1>2 DEF Paired
<1> HIDE DEF t, z
<1>5. Scripted(z)
  <2>1. CASE q.kind = "service_on_board"
    <3>1. /\ q.svc \in Services /\ Len(t) <= 8
          /\ \A i \in 1..Len(t) : t[i] = Script(q.svc)[8 - Len(t) + i]
      BY <1>1, <2>1 DEF Scripted, t
    <3>2. \A i \in 1..Len(Tail(t)) : Tail(t)[i] = Script(q.svc)[8 - Len(Tail(t)) + i]
      <4>1. TAKE i \in 1..Len(Tail(t))
      <4>2. 8 - Len(t) + (i + 1) = 8 - Len(Tail(t)) + i
        BY <1>2
      <4>3. QED  BY <1>2, <3>1, <4>2
    <3>3. QED  BY <1>2, <1>3, <2>1, <3>1, <3>2 DEF Scripted
  <2>2. CASE q.kind # "service_on_board"
    BY <1>1, <1>2, <1>3, <2>2 DEF Scripted, t
  <2>3. QED  BY <2>1, <2>2
<1>6. z.res = None <=> z.todo # <<>> \/ z.kind = "none"
  <2>1. q.res = None /\ q.kind = z.kind
    BY <1>1, <1>3
  <2>2. CASE Len(t) = 1
    <3>1. z.res = "ok" /\ z.todo = <<>>
      BY <2>2, <1>2, <1>3
    <3>2. QED  BY <3>1, <1>1, <1>3, CPAssumption DEF Results
  <2>3. CASE Len(t) # 1
    BY <2>3, <2>1, <1>2, <1>3
  <2>4. QED  BY <2>2, <2>3
<1>7. z.kind # "none"
  BY <1>1, <1>3
<1>8. QED  BY <1>3, <1>4, <1>5, <1>6, <1>7 DEF HandlerOK, t, z

\* A handler that has ended.
LEMMA EndedOK ==
  ASSUME NEW q, HandlerOK(q), q.todo # <<>>, NEW res \in Results
  PROVE  /\ HandlerOK(Ended(q, res)) /\ Ended(q, res).todo = <<>>
         /\ Ended(q, res).kind = q.kind /\ Ended(q, res).svc = q.svc /\ Ended(q, res).val = q.val
<1> DEFINE z == Ended(q, res)
<1>1. /\ z \in HandlerType /\ z.todo = <<>> /\ z.kind = q.kind /\ z.svc = q.svc /\ z.val = q.val
      /\ z.res = res
  BY EmptyAt DEF HandlerOK, HandlerType, Ended
<1> HIDE DEF z
<1>2. Scripted(q) /\ q.kind # "none"
  BY DEF HandlerOK
<1>3. Len(z.todo) = 0
  BY <1>1, EmptyAt
<1>4. Paired(z.todo)
  BY <1>3 DEF Paired
<1>5. Scripted(z)
  <2>1. CASE q.kind = "service_on_board"
    <3>1. q.svc \in Services
      BY <1>2, <2>1 DEF Scripted
    <3>2. QED  BY <1>1, <1>3, <2>1, <3>1 DEF Scripted
  <2>2. CASE q.kind # "service_on_board"
    <3>1. q.val.egress = q.val.ingress
      BY <1>2, <2>2 DEF Scripted
    <3>2. QED  BY <1>1, <1>3, <2>2, <3>1 DEF Scripted
  <2>3. QED  BY <2>1, <2>2
<1>6. z.res # None
  BY <1>1, CPAssumption
<1>7. QED  BY <1>1, <1>2, <1>4, <1>5, <1>6 DEF HandlerOK, z

\* A handler that goes on with other calls.
LEMMA ReplacedOK ==
  ASSUME NEW q, HandlerOK(q), q.todo # <<>>, q.kind # "service_on_board",
         NEW t \in Seq(Calls), t # <<>>, Paired(t),
         \A i \in 1..Len(t) : t[i].op \notin OnboardOps
  PROVE  LET z == [q EXCEPT !.todo = t]
         IN  HandlerOK(z) /\ z.todo = t /\ z.kind = q.kind /\ z.svc = q.svc /\ z.val = q.val
<1> DEFINE z == [q EXCEPT !.todo = t]
<1>1. /\ z \in HandlerType /\ z.todo = t /\ z.kind = q.kind /\ z.svc = q.svc /\ z.val = q.val
      /\ z.res = q.res
  BY DEF HandlerOK, HandlerType
<1> HIDE DEF z
<1>2. Scripted(q) /\ q.kind # "none" /\ q.res = None
  BY DEF HandlerOK
<1>3. q.val.egress = q.val.ingress
  BY <1>2 DEF Scripted
<1>4. Scripted(z)
  BY <1>1, <1>3 DEF Scripted
<1>5. HandlerOK(z)
  BY <1>1, <1>2, <1>4 DEF HandlerOK
<1>6. QED  BY <1>1, <1>5 DEF z

\* Which call service::on_board makes next follows from how many are left.
LEMMA NextOfScript ==
  ASSUME NEW q, HandlerOK(q), q.todo # <<>>
  PROVE  /\ Head(q.todo) = q.todo[1] /\ q.todo[1] \in Calls /\ Len(q.todo) \in Nat /\ Len(q.todo) >= 1
         /\ q.todo[1].op \in OnboardOps => q.kind = "service_on_board"
         /\ q.kind = "service_on_board" =>
              /\ q.svc \in Services /\ Len(q.todo) \in 1..8
              /\ q.todo[1] = Script(q.svc)[9 - Len(q.todo)]
<1>1. q \in HandlerType /\ q.todo \in Seq(Calls) /\ Scripted(q)
  BY DEF HandlerOK, HandlerType
<1>2. /\ Head(q.todo) = q.todo[1] /\ q.todo[1] \in Calls /\ Len(q.todo) \in Nat /\ Len(q.todo) >= 1
  BY <1>1, TailAt
<1>3. CASE q.kind = "service_on_board"
  <2>1. /\ q.svc \in Services /\ Len(q.todo) <= 8
        /\ \A i \in 1..Len(q.todo) : q.todo[i] = Script(q.svc)[8 - Len(q.todo) + i]
    BY <1>1, <1>3 DEF Scripted
  <2>2. 1 \in 1..Len(q.todo) /\ 8 - Len(q.todo) + 1 = 9 - Len(q.todo)
    BY <1>2
  <2>3. q.todo[1] = Script(q.svc)[9 - Len(q.todo)]
    BY <2>1, <2>2
  <2>4. Len(q.todo) \in 1..8
    <3>1. Len(q.todo) <= 8 /\ Len(q.todo) \in Nat /\ Len(q.todo) >= 1
      BY <1>2, <2>1
    <3>2. \A n \in Nat : n >= 1 /\ n <= 8 => n \in 1..8
      OBVIOUS
    <3>3. QED  BY <3>1, <3>2, Zenon
  <2>5. QED  BY <1>2, <1>3, <2>1, <2>3, <2>4, Zenon
<1>4. CASE q.kind # "service_on_board"
  <2>1. \A i \in 1..Len(q.todo) : q.todo[i].op \notin OnboardOps
    BY <1>1, <1>4 DEF Scripted
  <2>2. 1 \in 1..Len(q.todo)
    BY <1>2
  <2>3. q.todo[1].op \notin OnboardOps
    BY <2>1, <2>2
  <2>4. QED  BY <1>2, <1>4, <2>3
<1>5. QED  BY <1>3, <1>4

\* The calls that update the policy of one service.
LEMMA UpdateAt ==
  ASSUME NEW l \in PolicyLabels
  PROVE  /\ update_service(l) \in Seq(Calls) /\ Len(update_service(l)) = 4
         /\ update_service(l)[1] = Call("get_local_service_label", l)
         /\ update_service(l)[2] = Call("delete_many", l)
         /\ update_service(l)[3] = Call("insert_one", l)
         /\ update_service(l)[4] = Call("update_hosts", l)
<1> DEFINE a == <<Call("get_local_service_label", l)>>
           b == <<Call("delete_many", l), Call("insert_one", l)>>
           c == Call("update_hosts", l)
<1>1. update_service(l) = a \o Append(b, c)
  BY DEF update_service, helper_update, save_policy
<1>2. /\ Call("get_local_service_label", l) \in Calls /\ Call("delete_many", l) \in Calls
      /\ Call("insert_one", l) \in Calls /\ Call("update_hosts", l) \in Calls
  BY DEF Calls, Call, CallOps, HostOps
<1>3. a \in Seq(Calls) /\ Len(a) = 1 /\ a[1] = Call("get_local_service_label", l)
  BY <1>2
<1>4. /\ b \in Seq(Calls) /\ Len(b) = 2
      /\ b[1] = Call("delete_many", l) /\ b[2] = Call("insert_one", l)
  BY <1>2
<1>5. c \in Calls
  BY <1>2
<1> HIDE DEF a, b, c
<1>6. /\ Append(b, c) \in Seq(Calls) /\ Len(Append(b, c)) = 3
      /\ Append(b, c)[1] = b[1] /\ Append(b, c)[2] = b[2] /\ Append(b, c)[3] = c
  <2>1. \A x \in Seq(Calls), z \in Calls :
          /\ Append(x, z) \in Seq(Calls) /\ Len(Append(x, z)) = Len(x) + 1
          /\ \A i \in 1..Len(x) : Append(x, z)[i] = x[i]
          /\ Append(x, z)[Len(x) + 1] = z
    BY AppendAt
  <2>2. b \in Seq(Calls) /\ Len(b) = 2
    BY <1>4
  <2>3. /\ Append(b, c) \in Seq(Calls) /\ Len(Append(b, c)) = Len(b) + 1
        /\ \A i \in 1..Len(b) : Append(b, c)[i] = b[i]
        /\ Append(b, c)[Len(b) + 1] = c
    BY <1>5, <2>1, <2>2, Zenon
  <2>4. QED  BY <2>2, <2>3
<1>7. \A x \in Seq(Calls), y \in Seq(Calls) :
        /\ x \o y \in Seq(Calls) /\ Len(x \o y) = Len(x) + Len(y)
        /\ \A i \in 1..Len(x) : (x \o y)[i] = x[i]
        /\ \A i \in 1..Len(y) : (x \o y)[Len(x) + i] = y[i]
  BY ConcatAt
<1> DEFINE d == Append(b, c)
<1> HIDE DEF d
<1>8. d \in Seq(Calls) /\ Len(d) = 3 /\ d[1] = b[1] /\ d[2] = b[2] /\ d[3] = c
  BY <1>6 DEF d
<1>9. /\ a \o d \in Seq(Calls) /\ Len(a \o d) = Len(a) + Len(d)
      /\ \A i \in 1..Len(a) : (a \o d)[i] = a[i]
      /\ \A i \in 1..Len(d) : (a \o d)[Len(a) + i] = d[i]
  <2>1. a \in Seq(Calls) /\ d \in Seq(Calls)
    BY <1>3, <1>8
  <2>2. QED  BY <2>1, <1>7, Zenon
<1>10. /\ Len(a \o d) = 4 /\ (a \o d)[1] = a[1] /\ (a \o d)[2] = d[1]
       /\ (a \o d)[3] = d[2] /\ (a \o d)[4] = d[3]
  BY <1>3, <1>8, <1>9
<1>11. QED  BY <1>1, <1>3, <1>4, <1>8, <1>9, <1>10 DEF c, d

\* Calls that a handler may go on with: no host is inserted and none is of service::on_board.
Follows(t) ==
  /\ t \in Seq(Calls) /\ t # <<>> /\ Paired(t)
  /\ \A i \in 1..Len(t) : t[i].op \notin OnboardOps \cup {"host_insert"}

LEMMA QuarterAt ==
  ASSUME NEW n \in Nat, NEW i \in 1..(4 * n)
  PROVE  LET k == (i + 3) \div 4
             j == ((i - 1) % 4) + 1
         IN  /\ k \in 1..n /\ j \in {1, 2, 3, 4}
             /\ i = 1 => j = 1
             /\ j = 2 => /\ i + 1 \in 1..(4 * n) /\ (i + 1 + 3) \div 4 = k
                         /\ ((i + 1 - 1) % 4) + 1 = 3
             /\ j = 3 => /\ i - 1 \in 1..(4 * n) /\ (i - 1 + 3) \div 4 = k
                         /\ ((i - 1 - 1) % 4) + 1 = 2
OBVIOUS

\* update_global goes on with the calls of each service.
LEMMA UpdatesAt ==
  ASSUME NEW n \in Nat, NEW ids \in [1..n -> PolicyLabels]
  PROVE  LET rest == [i \in 1..(4 * n) |-> update_service(ids[(i + 3) \div 4])[((i - 1) % 4) + 1]]
         IN  (n = 0 => rest = <<>>)
             /\ (n # 0 => Follows(rest) /\ rest[1].op = "get_local_service_label")
<1> DEFINE K(i) == (i + 3) \div 4
           J(i) == ((i - 1) % 4) + 1
           rest == [i \in 1..(4 * n) |-> update_service(ids[K(i)])[J(i)]]
<1>1. \A i \in 1..(4 * n) :
        /\ i \in Nat /\ K(i) \in 1..n /\ J(i) \in {1, 2, 3, 4}
        /\ i = 1 => J(i) = 1
        /\ J(i) = 2 => i + 1 \in 1..(4 * n) /\ K(i + 1) = K(i) /\ J(i + 1) = 3
        /\ J(i) = 3 => i - 1 \in 1..(4 * n) /\ K(i - 1) = K(i) /\ J(i - 1) = 2
  BY QuarterAt
<1>2. \A i \in 1..(4 * n) : rest[i] = update_service(ids[K(i)])[J(i)]
  OBVIOUS
<1> HIDE DEF K, J
<1>3. \A l \in PolicyLabels :
        /\ update_service(l)[1] = Call("get_local_service_label", l)
        /\ update_service(l)[2] = Call("delete_many", l)
        /\ update_service(l)[3] = Call("insert_one", l)
        /\ update_service(l)[4] = Call("update_hosts", l)
  BY UpdateAt
<1>4. \A i \in 1..(4 * n) :
        /\ ids[K(i)] \in PolicyLabels
        /\ J(i) = 1 => rest[i] = Call("get_local_service_label", ids[K(i)])
        /\ J(i) = 2 => rest[i] = Call("delete_many", ids[K(i)])
        /\ J(i) = 3 => rest[i] = Call("insert_one", ids[K(i)])
        /\ J(i) = 4 => rest[i] = Call("update_hosts", ids[K(i)])
  BY <1>1, <1>2, <1>3
<1>5. \A l \in PolicyLabels :
        /\ Call("get_local_service_label", l) \in Calls /\ Call("delete_many", l) \in Calls
        /\ Call("insert_one", l) \in Calls /\ Call("update_hosts", l) \in Calls
  BY DEF Calls, Call, CallOps, HostOps
<1>6. \A i \in 1..(4 * n) : rest[i] \in Calls
  BY <1>1, <1>4, <1>5
<1>7. rest \in Seq(Calls) /\ Len(rest) = 4 * n
  <2>1. 4 * n \in Nat /\ rest \in [1..(4 * n) -> Calls]
    BY <1>6
  <2>2. \A S : \A m \in Nat : \A f \in [1..m -> S] : f \in Seq(S) /\ Len(f) = m
    OBVIOUS
  <2> HIDE DEF rest
  <2>3. QED  BY <2>1, <2>2, ZenonT(30)
<1> HIDE DEF rest
<1>8. Paired(rest)
  <2> SUFFICES ASSUME NEW i \in 1..(4 * n)
               PROVE  /\ rest[i].op = "delete_many" =>
                           i < 4 * n /\ rest[i + 1] = Call("insert_one", rest[i].label)
                      /\ rest[i].op = "insert_one" /\ i > 1 =>
                           rest[i - 1] = Call("delete_many", rest[i].label)
                      /\ rest[i].op # "host_insert"
    BY <1>7 DEF Paired
  <2>1. J(i) \in {1, 2, 3, 4}
    BY <1>1
  <2>2. CASE J(i) = 1
    <3>1. rest[i] = Call("get_local_service_label", ids[K(i)])
      BY <1>4, <2>2
    <3>2. QED  BY <3>1 DEF Call
  <2>3. CASE J(i) = 2
    <3>1. rest[i] = Call("delete_many", ids[K(i)])
      BY <1>4, <2>3
    <3>2. i + 1 \in 1..(4 * n) /\ rest[i + 1] = Call("insert_one", ids[K(i)])
      BY <1>1, <1>4, <2>3
    <3>3. i < 4 * n
      BY <3>2
    <3>4. QED  BY <3>1, <3>2, <3>3 DEF Call
  <2>4. CASE J(i) = 3
    <3>1. rest[i] = Call("insert_one", ids[K(i)])
      BY <1>4, <2>4
    <3>2. rest[i - 1] = Call("delete_many", ids[K(i)])
      BY <1>1, <1>4, <2>4
    <3>3. QED  BY <3>1, <3>2 DEF Call
  <2>5. CASE J(i) = 4
    <3>1. rest[i] = Call("update_hosts", ids[K(i)])
      BY <1>4, <2>5
    <3>2. QED  BY <3>1 DEF Call
  <2>6. QED  BY <2>1, <2>2, <2>3, <2>4, <2>5
<1>9. \A i \in 1..Len(rest) : rest[i].op \notin OnboardOps \cup {"host_insert"}
  <2>1. TAKE i \in 1..Len(rest)
  <2>2. i \in 1..(4 * n)
    BY <1>7
  <2>3. rest[i].op \in {"get_local_service_label", "delete_many", "insert_one", "update_hosts"}
    <3>1. \/ rest[i] = Call("get_local_service_label", ids[K(i)])
          \/ rest[i] = Call("delete_many", ids[K(i)])
          \/ rest[i] = Call("insert_one", ids[K(i)])
          \/ rest[i] = Call("update_hosts", ids[K(i)])
      BY <1>1, <1>4, <2>2
    <3>2. QED  BY <3>1, CallAt
  <2>4. QED  BY <2>3 DEF OnboardOps
<1>10. CASE n = 0
  <2>1. rest = <<>>
    BY <1>7, <1>10, EmptyAt
  <2>2. QED  BY <1>10, <2>1 DEF rest, K, J
<1>11. CASE n # 0
  <2>1. 1 \in 1..(4 * n) /\ Len(rest) # 0
    BY <1>7, <1>11
  <2>2. rest[1].op = "get_local_service_label" /\ rest # <<>>
    BY <1>1, <1>4, <1>7, <2>1, EmptyAt DEF Call
  <2>3. Follows(rest) /\ rest[1].op = "get_local_service_label"
    BY <1>7, <1>8, <1>9, <2>2 DEF Follows
  <2>4. QED  BY <1>11, <2>3 DEF rest, K, J
<1>12. QED  BY <1>10, <1>11

\* drop_all goes on with the labels it has read.
LEMMA DropsAt ==
  ASSUME NEW n \in Nat, NEW order \in [1..n -> PolicyLabels]
  PROVE  LET t == [i \in 1..(1 + 2 * n) |->
                     IF i = 1 THEN Call("drop_collection", global_policy_label)
                     ELSE Call(IF i % 2 = 0 THEN "get_local_service_label" ELSE "update_hosts",
                               order[i \div 2])]
         IN  Follows(t) /\ t[1].op = "drop_collection"
<1> DEFINE t == [i \in 1..(1 + 2 * n) |->
                   IF i = 1 THEN Call("drop_collection", global_policy_label)
                   ELSE Call(IF i % 2 = 0 THEN "get_local_service_label" ELSE "update_hosts",
                             order[i \div 2])]
           ops == {"drop_collection", "get_local_service_label", "update_hosts"}
<1>1. global_policy_label \in PolicyLabels
  BY DEF PolicyLabels
<1>2. \A i \in 1..(1 + 2 * n) : i # 1 => i \div 2 \in 1..n
  OBVIOUS
<1>3. \A i \in 1..(1 + 2 * n) : \E op \in ops, l \in PolicyLabels : t[i] = Call(op, l)
  <2>1. TAKE i \in 1..(1 + 2 * n)
  <2>2. CASE i = 1
    BY <1>1, <2>2
  <2>3. CASE i # 1
    <3>1. order[i \div 2] \in PolicyLabels
      BY <1>2, <2>3
    <3>2. CASE i % 2 = 0
      BY <2>3, <3>1, <3>2
    <3>3. CASE i % 2 # 0
      BY <2>3, <3>1, <3>3
    <3>4. QED  BY <3>2, <3>3
  <2>4. QED  BY <2>2, <2>3
<1>4. t[1] = Call("drop_collection", global_policy_label)
  OBVIOUS
<1>5. \A op \in ops, l \in PolicyLabels : Call(op, l) \in Calls
  BY DEF Calls, Call, CallOps, HostOps
<1>6. t \in Seq(Calls) /\ Len(t) = 1 + 2 * n
  <2>1. 1 + 2 * n \in Nat /\ t \in [1..(1 + 2 * n) -> Calls]
    BY <1>3, <1>5
  <2>2. \A S : \A m \in Nat : \A f \in [1..m -> S] : f \in Seq(S) /\ Len(f) = m
    OBVIOUS
  <2> HIDE DEF t
  <2>3. QED  BY <2>1, <2>2, ZenonT(30)
<1> HIDE DEF t
<1>7. \A i \in 1..Len(t) : t[i].op \in ops
  <2>1. TAKE i \in 1..Len(t)
  <2>2. PICK op \in ops, l \in PolicyLabels : t[i] = Call(op, l)
    BY <1>3, <1>6
  <2>3. QED  BY <2>2, CallAt
<1>8. Paired(t)
  BY <1>7 DEF Paired
<1>9. \A i \in 1..Len(t) : t[i].op \notin OnboardOps \cup {"host_insert"}
  BY <1>7 DEF OnboardOps
<1>10. Len(t) # 0 /\ t # <<>>
  BY <1>6, EmptyAt
<1>11. t[1].op = "drop_collection"
  BY <1>4, CallAt
<1>12. Follows(t)
  BY <1>6, <1>8, <1>9, <1>10 DEF Follows
<1>13. QED  BY <1>11, <1>12 DEF t

\* A request that has just arrived.
Arrived(q) ==
  /\ HandlerOK(q) /\ q.todo # <<>>
  /\ q.todo[1].op \notin {"host_insert", "insert_one"}
  /\ q.kind = "service_on_board" => Len(q.todo) = 8

LEMMA ArrivedOK ==
  ASSUME NEW q \in HandlerType, q.kind \notin {"none", "service_on_board"}, q.todo # <<>>,
         q.val.egress = q.val.ingress, q.res = None, Paired(q.todo),
         \A i \in 1..Len(q.todo) : q.todo[i].op \notin OnboardOps,
         q.todo[1].op \notin {"host_insert", "insert_one"}
  PROVE  Arrived(q)
<1>1. Scripted(q)
  BY DEF Scripted
<1>2. HandlerOK(q)
  BY <1>1 DEF HandlerOK
<1>3. QED  BY <1>2 DEF Arrived

LEMMA HandlerAt ==
  ASSUME NEW kind \in Kinds, NEW svc \in Services \cup {None}, NEW v \in Versions,
         NEW t \in Seq(Calls)
  PROVE  /\ Handler(kind, svc, Whole(v), t) \in HandlerType
         /\ Handler(kind, svc, Whole(v), t).kind = kind
         /\ Handler(kind, svc, Whole(v), t).svc = svc
         /\ Handler(kind, svc, Whole(v), t).todo = t
         /\ Handler(kind, svc, Whole(v), t).res = None
         /\ Handler(kind, svc, Whole(v), t).val.egress = Handler(kind, svc, Whole(v), t).val.ingress
<1>1. Whole(v) \in Content /\ Whole(v).egress = Whole(v).ingress
  BY DEF Whole, Content
<1>2. QED  BY <1>1 DEF Handler, HandlerType

LEMMA HandlersAt ==
  \A k \in Kinds, z \in Seq(Calls), v \in Versions, w \in Services \cup {None} :
    /\ Handler(k, w, Whole(v), z) \in HandlerType
    /\ Handler(k, w, Whole(v), z).kind = k /\ Handler(k, w, Whole(v), z).svc = w
    /\ Handler(k, w, Whole(v), z).todo = z /\ Handler(k, w, Whole(v), z).res = None
    /\ Handler(k, w, Whole(v), z).val.egress = Handler(k, w, Whole(v), z).val.ingress
BY HandlerAt

LEMMA SelAt ==
  ASSUME NEW q \in HandlerType, NEW sel \in SUBSET IDs
  PROVE  /\ [q EXCEPT !.sel = sel] \in HandlerType
         /\ [q EXCEPT !.sel = sel].kind = q.kind /\ [q EXCEPT !.sel = sel].todo = q.todo
         /\ [q EXCEPT !.sel = sel].res = q.res /\ [q EXCEPT !.sel = sel].val = q.val
BY DEF HandlerType

\* Short sequences of calls.
LEMMA OneAt ==
  ASSUME NEW a \in Calls
  PROVE  <<a>> \in Seq(Calls) /\ <<a>> # <<>> /\ Len(<<a>>) = 1 /\ <<a>>[1] = a
OBVIOUS

LEMMA TwoAt ==
  ASSUME NEW a \in Calls, NEW b \in Calls
  PROVE  /\ <<a, b>> \in Seq(Calls) /\ <<a, b>> # <<>> /\ Len(<<a, b>>) = 2
         /\ <<a, b>>[1] = a /\ <<a, b>>[2] = b
OBVIOUS

LEMMA ThreeAt ==
  ASSUME NEW a \in Calls, NEW b \in Calls, NEW c \in Calls
  PROVE  /\ <<a, b, c>> \in Seq(Calls) /\ <<a, b, c>> # <<>> /\ Len(<<a, b, c>>) = 3
         /\ <<a, b, c>>[1] = a /\ <<a, b, c>>[2] = b /\ <<a, b, c>>[3] = c
OBVIOUS

LEMMA TwoArrive ==
  ASSUME NEW kind \in Kinds \ {"none", "service_on_board"}, NEW v \in Versions,
         NEW a \in Calls, NEW b \in Calls,
         a.op \notin OnboardOps, b.op \notin OnboardOps,
         a.op \notin {"host_insert", "insert_one"}, b.op # "delete_many",
         a.op = "delete_many" => b = Call("insert_one", a.label),
         b.op = "insert_one" => a = Call("delete_many", b.label),
         b.op = "host_insert" => a = Call("host_present", b.label)
  PROVE  Arrived(Handler(kind, None, Whole(v), <<a, b>>))
<1> DEFINE t == <<a, b>>
           q == Handler(kind, None, Whole(v), t)
<1>1. t \in Seq(Calls) /\ t # <<>> /\ Len(t) = 2 /\ t[1] = a /\ t[2] = b
  BY TwoAt
<1> HIDE DEF t
<1>2. /\ q \in HandlerType /\ q.kind = kind /\ q.todo = t /\ q.res = None
      /\ q.val.egress = q.val.ingress
  BY <1>1, HandlerAt
<1> HIDE DEF q
<1>3. \A i \in 1..Len(t) : i = 1 \/ i = 2
  BY <1>1
<1>4. Paired(t)
  BY <1>1, <1>3 DEF Paired
<1>5. \A i \in 1..Len(t) : t[i].op \notin OnboardOps
  BY <1>1, <1>3
<1>6. Arrived(q)
  BY <1>1, <1>2, <1>4, <1>5, ArrivedOK
<1>7. QED  BY <1>6 DEF q, t

\* Every request begins as it should.
LEMMA HandlersArrive ==
  ASSUME NEW q \in Handlers
  PROVE  Arrived(q)
<1>0. NoPolicy \in Versions
  BY CPAssumption
<1>a. /\ \A op \in HostOps, h \in Hosts : Call(op, h) \in Calls
      /\ \A op \in CallOps \ HostOps, l \in PolicyLabels : Call(op, l) \in Calls
      /\ \A op, l : Call(op, l).op = op /\ Call(op, l).label = l
  BY DEF Calls, Call
<1>b. /\ global_policy_label \in PolicyLabels /\ onboarding_policy_label \in PolicyLabels
      /\ IDs \subseteq PolicyLabels
  BY DEF PolicyLabels
<1>1. ASSUME NEW h \in Hosts PROVE Arrived(host_on_board(h)) /\ Arrived(host_drop(h))
  <2>1. /\ Call("host_present", h) \in Calls /\ Call("host_insert", h) \in Calls
        /\ Call("host_delete", h) \in Calls /\ Call("services_delete", h) \in Calls
    BY <1>a DEF HostOps
  <2>2. Arrived(Handler("host_on_board", None, Whole(NoPolicy),
                        <<Call("host_present", h), Call("host_insert", h)>>))
    BY <1>0, <1>a, <2>1, TwoArrive DEF Kinds, OnboardOps
  <2>3. Arrived(Handler("host_drop", None, Whole(NoPolicy),
                        <<Call("host_delete", h), Call("services_delete", h)>>))
    BY <1>0, <1>a, <2>1, TwoArrive DEF Kinds, OnboardOps
  <2>4. QED  BY <2>2, <2>3 DEF host_on_board, host_drop
<1>2. ASSUME NEW s \in Services PROVE Arrived(service_on_board(s))
  <2> DEFINE p == service_on_board(s)
  <2>1. p = Handler("service_on_board", s, Whole(NoPolicy), Script(s))
    BY DEF Script, service_on_board, Handler
  <2>2. Script(s) \in Seq(Calls) /\ Len(Script(s)) = 8
    BY ScriptAt
  <2>3. /\ Script(s)[1].op = "get_onboarding_policy" /\ Script(s)[2].op = "onboarded"
        /\ Script(s)[3].op = "compile_egress" /\ Script(s)[4].op = "compile_ingress"
        /\ Script(s)[5].op = "service_present" /\ Script(s)[6].op = "service_insert"
        /\ Script(s)[7] = Call("delete_many", new_ID(s))
        /\ Script(s)[8] = Call("insert_one", new_ID(s))
    BY <1>a, ScriptAt
  <2> HIDE DEF p
  <2>4. /\ p \in HandlerType /\ p.kind = "service_on_board" /\ p.svc = s
        /\ p.todo = Script(s) /\ p.res = None
    <3> DEFINE k == "service_on_board"
    <3>1. k \in Kinds /\ s \in Services \cup {None} /\ p = Handler(k, s, Whole(NoPolicy), Script(s))
      BY <2>1 DEF Kinds
    <3> HIDE DEF k
    <3>2. p \in HandlerType /\ p.kind = k /\ p.svc = s /\ p.todo = Script(s) /\ p.res = None
      BY <1>0, <2>2, <3>1, HandlersAt
    <3>3. QED  BY <3>2 DEF k
  <2>5. Paired(Script(s))
    <3>1. \A i \in 1..Len(Script(s)) : i \in {1, 2, 3, 4, 5, 6, 7, 8}
      BY <2>2
    <3>2. /\ Script(s)[7].op = "delete_many" /\ Script(s)[7].label = new_ID(s)
          /\ Script(s)[8].op = "insert_one" /\ Script(s)[8].label = new_ID(s)
      BY <1>a, <2>3
    <3>3. QED  BY <2>2, <2>3, <3>1, <3>2 DEF Paired
  <2>6. Scripted(p)
    <3>1. Len(p.todo) = 8 /\ \A i \in 1..8 : 8 - 8 + i = i
      BY <2>2, <2>4
    <3>2. QED  BY <2>4, <3>1 DEF Scripted
  <2>7. Script(s) # <<>>
    BY <2>2, EmptyAt
  <2>8. HandlerOK(p)
    BY <2>4, <2>5, <2>6, <2>7 DEF HandlerOK
  <2>9. Arrived(p)
    BY <2>2, <2>3, <2>4, <2>7, <2>8 DEF Arrived
  <2>10. QED  BY <2>9 DEF p
<1>3. ASSUME NEW id \in IDs PROVE Arrived(service_drop(id))
  <2> DEFINE a == Call("service_delete", id)
             t == <<a>>
             p == Handler("service_drop", None, Whole(NoPolicy), t)
  <2>1. a \in Calls /\ a.op = "service_delete"
    BY <1>a, <1>b DEF CallOps, HostOps
  <2> HIDE DEF a
  <2>2. t \in Seq(Calls) /\ t # <<>> /\ Len(t) = 1 /\ t[1] = a
    BY <2>1, OneAt
  <2> HIDE DEF t
  <2>3. /\ p \in HandlerType /\ p.kind = "service_drop" /\ p.todo = t /\ p.res = None
        /\ p.val.egress = p.val.ingress
    <3> DEFINE k == "service_drop"
    <3>1. k \in Kinds /\ None \in Services \cup {None} /\ p = Handler(k, None, Whole(NoPolicy), t)
      BY DEF Kinds
    <3> HIDE DEF k, p
    <3>2. /\ p \in HandlerType /\ p.kind = k /\ p.todo = t /\ p.res = None
          /\ p.val.egress = p.val.ingress
      BY <1>0, <2>2, <3>1, HandlersAt
    <3>3. QED  BY <3>2 DEF k
  <2> HIDE DEF p
  <2>4. \A i \in 1..Len(t) : t[i].op = "service_delete"
    BY <2>1, <2>2
  <2>5. Paired(t)
    BY <2>4 DEF Paired
  <2>6. Arrived(p)
    BY <2>1, <2>2, <2>3, <2>4, <2>5, ArrivedOK DEF OnboardOps
  <2>7. QED  BY <2>6 DEF p, t, a, service_drop
<1>4. ASSUME NEW id \in IDs, NEW v \in Versions PROVE Arrived(update(id, v))
  <2> DEFINE t == update_service(id)
             p == Handler("update", None, Whole(v), t)
  <2>1. /\ t \in Seq(Calls) /\ Len(t) = 4
        /\ t[1].op = "get_local_service_label" /\ t[2] = Call("delete_many", id)
        /\ t[3] = Call("insert_one", id) /\ t[4].op = "update_hosts"
    BY <1>a, <1>b, UpdateAt
  <2>2. /\ t[2].op = "delete_many" /\ t[2].label = id
        /\ t[3].op = "insert_one" /\ t[3].label = id
    BY <1>a, <2>1
  <2> HIDE DEF t
  <2>3. t # <<>> /\ \A i \in 1..Len(t) : i \in {1, 2, 3, 4}
    <3>1. t \in Seq(Calls) /\ Len(t) = 4
      BY <2>1
    <3>2. QED  BY <3>1, EmptyAt
  <2>4. /\ p \in HandlerType /\ p.kind = "update" /\ p.todo = t /\ p.res = None
        /\ p.val.egress = p.val.ingress
    <3>1. t \in Seq(Calls)
      BY <2>1
    <3> DEFINE k == "update"
    <3>2. k \in Kinds /\ None \in Services \cup {None} /\ p = Handler(k, None, Whole(v), t)
      BY DEF Kinds
    <3> HIDE DEF k, p
    <3>3. /\ p \in HandlerType /\ p.kind = k /\ p.todo = t /\ p.res = None
          /\ p.val.egress = p.val.ingress
      BY <3>1, <3>2, HandlersAt
    <3>4. QED  BY <3>3 DEF k
  <2> HIDE DEF p
  <2>5. Paired(t)
    BY <2>1, <2>2, <2>3 DEF Paired
  <2>6. \A i \in 1..Len(t) : t[i].op \notin OnboardOps
    BY <2>1, <2>2, <2>3 DEF OnboardOps
  <2>7. Arrived(p)
    BY <2>1, <2>3, <2>4, <2>5, <2>6, ArrivedOK
  <2>8. QED  BY <2>7 DEF p, t, update
<1>5. ASSUME NEW v \in Versions, NEW sel \in Selectors PROVE Arrived(update_global(v, sel))
  <2> DEFINE l == global_policy_label
             b == <<Call("delete_many", l), Call("insert_one", l)>>
             c == Call("services_full", l)
             t == Append(b, c)
             g == Handler("update_global", None, Whole(v), t)
             p == [g EXCEPT !.sel = sel]
  <2>1. /\ Call("delete_many", l) \in Calls /\ Call("insert_one", l) \in Calls /\ c \in Calls
        /\ c.op = "services_full"
    BY <1>a, <1>b DEF CallOps, HostOps
  <2>2. /\ b \in Seq(Calls) /\ Len(b) = 2
        /\ b[1] = Call("delete_many", l) /\ b[2] = Call("insert_one", l)
    BY <2>1, TwoAt
  <2> HIDE DEF b, c
  <2>3. /\ t \in Seq(Calls) /\ Len(t) = Len(b) + 1 /\ t[Len(b) + 1] = c
        /\ \A i \in 1..Len(b) : t[i] = b[i]
    <3>1. \A x \in Seq(Calls), z \in Calls :
            /\ Append(x, z) \in Seq(Calls) /\ Len(Append(x, z)) = Len(x) + 1
            /\ Append(x, z)[Len(x) + 1] = z
            /\ \A i \in 1..Len(x) : Append(x, z)[i] = x[i]
      BY AppendAt
    <3>2. b \in Seq(Calls) /\ c \in Calls
      BY <2>1, <2>2
    <3>3. QED  BY <3>1, <3>2, Zenon
  <2> HIDE DEF t
  <2>4. Len(t) = 3 /\ t[1] = b[1] /\ t[2] = b[2] /\ t[3] = c
    BY <2>2, <2>3
  <2>5. t # <<>> /\ \A i \in 1..Len(t) : i \in {1, 2, 3}
    <3>1. t \in Seq(Calls) /\ Len(t) = 3
      BY <2>3, <2>4
    <3>2. QED  BY <3>1, EmptyAt
  <2>6. sel \in SUBSET IDs
    BY DEF Selectors
  <2>7. /\ p \in HandlerType /\ p.kind = "update_global" /\ p.todo = t /\ p.res = None
        /\ p.val.egress = p.val.ingress
    <3>1. t \in Seq(Calls)
      BY <2>3
    <3>2. /\ g \in HandlerType /\ g.kind = "update_global" /\ g.todo = t /\ g.res = None
          /\ g.val.egress = g.val.ingress
      <4> DEFINE k == "update_global"
      <4>1. k \in Kinds /\ None \in Services \cup {None} /\ g = Handler(k, None, Whole(v), t)
        BY DEF Kinds
      <4> HIDE DEF k, g
      <4>2. /\ g \in HandlerType /\ g.kind = k /\ g.todo = t /\ g.res = None
            /\ g.val.egress = g.val.ingress
        BY <3>1, <4>1, HandlersAt
      <4>3. QED  BY <4>2 DEF k
    <3> HIDE DEF g
    <3>3. QED  BY <2>6, <3>2, SelAt
  <2> HIDE DEF p
  <2>8. /\ t[1].op = "delete_many" /\ t[1].label = l /\ t[2] = Call("insert_one", l)
        /\ t[1] = Call("delete_many", l) /\ t[2].op = "insert_one" /\ t[2].label = l
        /\ t[3].op = "services_full"
    BY <1>a, <2>1, <2>2, <2>4
  <2>9. Paired(t)
    BY <2>4, <2>5, <2>8 DEF Paired
  <2>10. \A i \in 1..Len(t) : t[i].op \notin OnboardOps
    BY <2>5, <2>8 DEF OnboardOps
  <2>11. Arrived(p)
    BY <2>5, <2>7, <2>8, <2>9, <2>10, ArrivedOK
  <2>12. QED  BY <2>11 DEF p, g, t, b, c, update_global, save_policy
<1>6. ASSUME NEW v \in Versions PROVE Arrived(update_onboarding(v))
  <2>1. /\ Call("delete_many", onboarding_policy_label) \in Calls
        /\ Call("insert_one", onboarding_policy_label) \in Calls
    BY <1>a, <1>b DEF CallOps, HostOps
  <2>2. Arrived(Handler("update_onboarding", None, Whole(v),
                  <<Call("delete_many", onboarding_policy_label),
                    Call("insert_one", onboarding_policy_label)>>))
    BY <1>a, <2>1, TwoArrive DEF Kinds, OnboardOps
  <2>3. QED  BY <2>2 DEF update_onboarding, save_policy
<1>7. ASSUME NEW l \in PolicyLabels PROVE Arrived(drop(l))
  <2> DEFINE a == Call("delete_one", l)
             b == Call("get_local_service_label", l)
             c == Call("update_hosts", l)
             t == <<a, b, c>>
             p == Handler("drop", None, Whole(NoPolicy), t)
  <2>1. /\ a \in Calls /\ b \in Calls /\ c \in Calls
        /\ a.op = "delete_one" /\ b.op = "get_local_service_label" /\ c.op = "update_hosts"
    BY <1>a DEF CallOps, HostOps
  <2> HIDE DEF a, b, c
  <2>2. t \in Seq(Calls) /\ t # <<>> /\ Len(t) = 3 /\ t[1] = a /\ t[2] = b /\ t[3] = c
    BY <2>1, ThreeAt
  <2> HIDE DEF t
  <2>3. /\ p \in HandlerType /\ p.kind = "drop" /\ p.todo = t /\ p.res = None
        /\ p.val.egress = p.val.ingress
    <3> DEFINE k == "drop"
    <3>1. k \in Kinds /\ None \in Services \cup {None} /\ p = Handler(k, None, Whole(NoPolicy), t)
      BY DEF Kinds
    <3> HIDE DEF k, p
    <3>2. /\ p \in HandlerType /\ p.kind = k /\ p.todo = t /\ p.res = None
          /\ p.val.egress = p.val.ingress
      BY <1>0, <2>2, <3>1, HandlersAt
    <3>3. QED  BY <3>2 DEF k
  <2> HIDE DEF p
  <2>4. \A i \in 1..Len(t) : i \in {1, 2, 3}
    BY <2>2
  <2>5. \A i \in 1..Len(t) :
          t[i].op \in {"delete_one", "get_local_service_label", "update_hosts"}
    BY <2>1, <2>2, <2>4
  <2>6. Paired(t)
    BY <2>5 DEF Paired
  <2>7. Arrived(p)
    BY <2>1, <2>2, <2>3, <2>5, <2>6, ArrivedOK DEF OnboardOps
  <2>8. QED  BY <2>7 DEF p, t, a, b, c, drop
<1>8. Arrived(drop_all)
  <2>1. /\ Call("services", global_policy_label) \in Calls
        /\ Call("drop_collection", global_policy_label) \in Calls
    BY <1>a, <1>b DEF CallOps, HostOps
  <2>2. Arrived(Handler("drop_all", None, Whole(NoPolicy),
                  <<Call("services", global_policy_label),
                    Call("drop_collection", global_policy_label)>>))
    BY <1>0, <1>a, <2>1, TwoArrive DEF Kinds, OnboardOps
  <2>3. QED  BY <2>2 DEF drop_all
<1>9. \/ \E h \in Hosts : q = host_on_board(h) \/ q = host_drop(h)
      \/ \E s \in Services : q = service_on_board(s)
      \/ \E id \in IDs : q = service_drop(id)
      \/ \E id \in IDs, v \in Versions : q = update(id, v)
      \/ \E v \in Versions, sel \in Selectors : q = update_global(v, sel)
      \/ \E v \in Versions : q = update_onboarding(v)
      \/ \E l \in PolicyLabels : q = drop(l)
      \/ q = drop_all
  <2> DEFINE A == {host_on_board(h) : h \in Hosts} \cup {host_drop(h) : h \in Hosts}
             B == {service_on_board(s) : s \in Services}
             C == {service_drop(id) : id \in IDs}
             D == UNION {{update(id, v) : id \in IDs} : v \in Versions \ {NoPolicy}}
             E == UNION {{update_global(v, sel) : sel \in Selectors} : v \in Versions \ {NoPolicy}}
             F == {update_onboarding(v) : v \in Versions \ {NoPolicy}}
             G == {drop(l) : l \in PolicyLabels}
  <2>1. q \in A \cup B \cup C \cup D \cup E \cup F \cup G \cup {drop_all}
    BY DEF Handlers
  <2>2. q \in A => \E h \in Hosts : q = host_on_board(h) \/ q = host_drop(h)
    OBVIOUS
  <2>3. q \in D => \E id \in IDs, v \in Versions : q = update(id, v)
    OBVIOUS
  <2>4. q \in E => \E v \in Versions, sel \in Selectors : q = update_global(v, sel)
    OBVIOUS
  <2>5. /\ q \in B => \E s \in Services : q = service_on_board(s)
        /\ q \in C => \E id \in IDs : q = service_drop(id)
        /\ q \in F => \E v \in Versions : q = update_onboarding(v)
        /\ q \in G => \E l \in PolicyLabels : q = drop(l)
    OBVIOUS
  <2> HIDE DEF A, B, C, D, E, F, G
  <2>6. QED  BY <2>1, <2>2, <2>3, <2>4, <2>5, Zenon
<1>10. QED  BY <1>1, <1>2, <1>3, <1>4, <1>5, <1>6, <1>7, <1>8, <1>9

-----------------------------------------------------------------------------
(***************************************************************************)
(* The inductive invariant.                                                *)
(***************************************************************************)
StoreOK ==
  /\ hosts \in [Hosts -> Nat] /\ services \in [Services -> Nat]
  /\ policies \in [PolicyLabels -> [Content -> Nat]]
  /\ last \in [PolicyLabels -> Content \cup {None}]
  /\ requests \in 0..MaxRequests /\ promised \subseteq IDs
  /\ reqs \in [Slots -> HandlerType]
  /\ \A r \in Slots : HandlerOK(reqs[r])

\* Two handlers in the window of one label have been noticed.
Watched ==
  \A p, q \in Slots, l \in PolicyLabels \cup Hosts : p # q =>
    /\ Next1(reqs[p], "host_insert", l) /\ Next1(reqs[q], "host_insert", l) =>
         <<"host_insert", l>> \in exposed
    /\ Next1(reqs[p], "insert_one", l) /\ Next1(reqs[q], "insert_one", l) =>
         <<"insert_one", l>> \in exposed
    /\ Admitted(reqs[p], l) /\ Admitted(reqs[q], l) => <<"service_insert", l>> \in exposed

\* A handler alone in the window of a label finds no document of it.
HostsSerial ==
  \A h \in Hosts : <<"host_insert", h>> \notin exposed =>
    /\ hosts[h] <= 1
    /\ \A r \in Slots : Next1(reqs[r], "host_insert", h) => hosts[h] = 0

ServicesSerial ==
  \A id \in IDs : <<"service_insert", id>> \notin exposed =>
    /\ \A s, t \in ServiceDocs(id) : s = t /\ services[s] = 1
    /\ \A r \in Slots : Admitted(reqs[r], id) => ServiceDocs(id) = {}

PoliciesSerial ==
  \A l \in PolicyLabels : <<"insert_one", l>> \notin exposed =>
    \A c \in Content :
      /\ policies[l][c] > 0 => policies[l][c] = 1 /\ c = last[l]
      /\ \A r \in Slots : Next1(reqs[r], "insert_one", l) => policies[l][c] = 0

\* A promised policy is there, or a handler is about to insert it.
Available ==
  \A id \in promised : Docs(id) # {} \/ \E r \in Slots : Next1(reqs[r], "insert_one", id)

\* Before an on-boarding policy is saved, no on-boarding gets past reading it.
FailsClosed ==
  /\ Docs(onboarding_policy_label) # {} => last[onboarding_policy_label] # None
  /\ last[onboarding_policy_label] = None =>
       /\ \A s \in Services : services[s] = 0
       /\ \A r \in Slots : reqs[r].kind = "service_on_board" => Len(reqs[r].todo) \in {0, 8}

\* What an on-boarding compiled is still what the global policy says.
Versioned ==
  \A id \in IDs : <<"compile", id>> \notin exposed =>
    /\ \A r \in Slots : reqs[r].kind = "service_on_board" /\ new_ID(reqs[r].svc) = id =>
         /\ Len(reqs[r].todo) \in 1..5 => reqs[r].val.egress \in GlobalPolicyRead
         /\ Len(reqs[r].todo) \in 1..4 => reqs[r].val.ingress \in GlobalPolicyRead
    /\ <<"insert_one", global_policy_label>> \notin exposed =>
         \A c \in Docs(id) : c.egress = c.ingress

\* Every document came with a request of its own.
HostsPending(h) ==
  {r \in Slots : \E i \in 1..Len(reqs[r].todo) : reqs[r].todo[i] = Call("host_insert", h)}
ServicesPending(s) ==
  {r \in Slots : reqs[r].kind = "service_on_board" /\ reqs[r].svc = s /\ Len(reqs[r].todo) >= 3}

Counted ==
  /\ \A h \in Hosts : hosts[h] + Cardinality(HostsPending(h)) <= requests
  /\ \A s \in Services : services[s] + Cardinality(ServicesPending(s)) <= requests

CPInv ==
  /\ StoreOK /\ Watched
  /\ HostsSerial /\ ServicesSerial /\ PoliciesSerial
  /\ Available /\ FailsClosed /\ Versioned /\ Counted

-----------------------------------------------------------------------------
\* A handler that goes on with another compiled policy, or has told hosts.
LEMMA ValOK ==
  ASSUME NEW q, HandlerOK(q), q.kind = "service_on_board", NEW v \in Versions
  PROVE  /\ HandlerOK([q EXCEPT !.val.egress = v])
         /\ [q EXCEPT !.val.egress = v].todo = q.todo
         /\ [q EXCEPT !.val.egress = v].kind = q.kind /\ [q EXCEPT !.val.egress = v].svc = q.svc
         /\ [q EXCEPT !.val.egress = v].val.egress = v
         /\ HandlerOK([q EXCEPT !.val.ingress = v])
         /\ [q EXCEPT !.val.ingress = v].todo = q.todo
         /\ [q EXCEPT !.val.ingress = v].kind = q.kind /\ [q EXCEPT !.val.ingress = v].svc = q.svc
         /\ [q EXCEPT !.val.ingress = v].val.ingress = v
         /\ [q EXCEPT !.val.ingress = v].val.egress = q.val.egress
<1>1. q \in HandlerType /\ q.val \in Content
  BY DEF HandlerOK, HandlerType
<1> DEFINE e == [q EXCEPT !.val.egress = v]
           i == [q EXCEPT !.val.ingress = v]
<1>2. /\ e \in HandlerType /\ e.todo = q.todo /\ e.kind = q.kind /\ e.svc = q.svc
      /\ e.res = q.res /\ e.val.egress = v
  BY <1>1 DEF HandlerType, Content
<1>3. /\ i \in HandlerType /\ i.todo = q.todo /\ i.kind = q.kind /\ i.svc = q.svc
      /\ i.res = q.res /\ i.val.ingress = v /\ i.val.egress = q.val.egress
  BY <1>1 DEF HandlerType, Content
<1> HIDE DEF e, i
<1>4. HandlerOK(e)
  BY <1>2 DEF HandlerOK, Scripted
<1>5. HandlerOK(i)
  BY <1>3 DEF HandlerOK, Scripted
<1>6. QED  BY <1>2, <1>3, <1>4, <1>5 DEF e, i

LEMMA SentOK ==
  ASSUME NEW q, HandlerOK(q), NEW S \in SUBSET Services
  PROVE  /\ HandlerOK([q EXCEPT !.sent = @ \cup S])
         /\ [q EXCEPT !.sent = @ \cup S].todo = q.todo
         /\ [q EXCEPT !.sent = @ \cup S].kind = q.kind /\ [q EXCEPT !.sent = @ \cup S].svc = q.svc
         /\ [q EXCEPT !.sent = @ \cup S].val = q.val
<1>1. q \in HandlerType
  BY DEF HandlerOK
<1> DEFINE e == [q EXCEPT !.sent = @ \cup S]
<1>2. /\ e \in HandlerType /\ e.todo = q.todo /\ e.kind = q.kind /\ e.svc = q.svc
      /\ e.res = q.res /\ e.val = q.val
  BY <1>1 DEF HandlerType
<1> HIDE DEF e
<1>3. HandlerOK(e)
  BY <1>2 DEF HandlerOK, Scripted
<1>4. QED  BY <1>2, <1>3 DEF e

\* The call that slot r makes next.
First(r) == reqs[r].todo[1]

\* What a database call does to the handler that makes it.
HandlerMove(r) ==
  /\ reqs[r].todo # <<>>
  /\ reqs' \in [Slots -> HandlerType]
  /\ \A p \in Slots : p # r => reqs'[p] = reqs[p]
  /\ HandlerOK(reqs'[r])
  /\ reqs'[r].kind = reqs[r].kind /\ reqs'[r].svc = reqs[r].svc
  /\ \/ reqs'[r].todo = Tail(reqs[r].todo)
     \/ reqs'[r].todo = <<>>
     \/ /\ Follows(reqs'[r].todo) /\ reqs[r].kind # "service_on_board"
        /\ reqs'[r].todo[1].op \in {"get_local_service_label", "drop_collection"}
        /\ First(r).op \in {"services_full", "services"}
  /\ exposed \cup Overlaps(reqs') \subseteq exposed'
  /\ requests' = requests

\* What it does to the policy that the handler has compiled.
ValMove(r) ==
  /\ First(r).op \notin {"compile_egress", "compile_ingress"} => reqs'[r].val = reqs[r].val
  /\ First(r).op = "compile_egress" /\ reqs'[r].todo # <<>> =>
       \/ reqs'[r].val.egress \in GlobalPolicyRead
       \/ <<"compile", new_ID(reqs[r].svc)>> \in exposed'
  /\ First(r).op = "compile_ingress" /\ reqs'[r].todo # <<>> =>
       /\ reqs'[r].val.egress = reqs[r].val.egress
       /\ \/ reqs'[r].val.ingress \in GlobalPolicyRead
          \/ <<"compile", new_ID(reqs[r].svc)>> \in exposed'

\* What it does to each collection.
HostsMove(r) ==
  /\ \/ hosts' = hosts
     \/ /\ First(r).op = "host_insert" /\ reqs'[r].todo = Tail(reqs[r].todo)
        /\ hosts' = [hosts EXCEPT ![First(r).label] = @ + 1]
     \/ /\ First(r).op = "host_delete"
        /\ hosts' = [hosts EXCEPT ![First(r).label] = IF @ > 0 THEN @ - 1 ELSE 0]
  /\ First(r).op = "host_present" /\ reqs'[r].todo # <<>> => hosts[First(r).label] = 0

ServicesMove(r) ==
  /\ \/ services' = services
     \/ /\ First(r).op = "service_insert" /\ reqs'[r].todo = Tail(reqs[r].todo)
        /\ services' = [services EXCEPT ![reqs[r].svc] = @ + 1]
     \/ /\ First(r).op = "service_delete"
        /\ \E s \in Services : services[s] > 0 /\ services' = [services EXCEPT ![s] = @ - 1]
  /\ First(r).op = "onboarded" /\ reqs'[r].todo # <<>> =>
       ServiceDocs(First(r).label) = {} \/ <<"service_insert", First(r).label>> \in exposed'
  /\ First(r).op = "get_onboarding_policy" /\ reqs'[r].todo # <<>> => Docs(First(r).label) # {}

PoliciesMove(r) ==
  /\ \/ /\ policies' = policies /\ last' = last /\ promised' \subseteq promised
        /\ First(r).op = "insert_one" => First(r).label \notin promised'
        /\ First(r).op = "delete_many" => reqs'[r].todo = <<>>
     \/ /\ First(r).op = "delete_many" /\ reqs'[r].todo = Tail(reqs[r].todo)
        /\ policies' = [policies EXCEPT ![First(r).label] = NoDocs]
        /\ last' = last /\ promised' = promised
     \/ /\ First(r).op = "insert_one"
        /\ policies' = [policies EXCEPT ![First(r).label][reqs[r].val] = @ + 1]
        /\ last' = [last EXCEPT ![First(r).label] = reqs[r].val]
        /\ promised' = promised \cup Promises(r)
     \/ /\ First(r).op = "delete_one"
        /\ \E c \in Docs(First(r).label) :
             policies' = [policies EXCEPT ![First(r).label][c] = @ - 1]
        /\ last' = last /\ promised' = promised \ {First(r).label}
     \/ /\ First(r).op = "drop_collection"
        /\ policies' = [label \in PolicyLabels |-> NoDocs]
        /\ last' = last /\ promised' = {}
  /\ policies' # policies /\ WritesGlobal(First(r)) => Overtaken(r) \subseteq exposed'

Moves(r) == HandlerMove(r) /\ ValMove(r) /\ HostsMove(r) /\ ServicesMove(r) /\ PoliciesMove(r)

LEMMA BecomesMove ==
  ASSUME StoreOK, NEW r \in Slots, reqs[r].todo # <<>>, NEW q, HandlerOK(q),
         q.kind = reqs[r].kind, q.svc = reqs[r].svc,
         \/ q.todo = Tail(reqs[r].todo)
         \/ q.todo = <<>>
         \/ /\ Follows(q.todo) /\ reqs[r].kind # "service_on_board"
            /\ q.todo[1].op \in {"get_local_service_label", "drop_collection"}
            /\ First(r).op \in {"services_full", "services"},
         reqs' = [reqs EXCEPT ![r] = q], exposed \cup Overlaps(reqs') \subseteq exposed',
         requests' = requests
  PROVE  HandlerMove(r) /\ reqs'[r] = q
<1>1. reqs \in [Slots -> HandlerType] /\ q \in HandlerType
  BY DEF StoreOK, HandlerOK
<1>2. /\ reqs' \in [Slots -> HandlerType] /\ reqs'[r] = q
      /\ \A p \in Slots : p # r => reqs'[p] = reqs[p]
  BY <1>1
<1>3. QED  BY <1>2 DEF HandlerMove

\* The two ways most calls end: the handler makes the next one, or it has ended.
LEMMA ContinueMove ==
  ASSUME StoreOK, NEW r \in Slots, reqs[r].todo # <<>>, Continue(r), requests' = requests
  PROVE  /\ HandlerMove(r) /\ reqs'[r].todo = Tail(reqs[r].todo) /\ reqs'[r].val = reqs[r].val
         /\ Overtaken(r) \subseteq exposed'
<1>1. HandlerOK(reqs[r])
  BY DEF StoreOK
<1> DEFINE q == Advanced(reqs[r])
<1>2. /\ HandlerOK(q) /\ q.todo = Tail(reqs[r].todo)
      /\ q.kind = reqs[r].kind /\ q.svc = reqs[r].svc /\ q.val = reqs[r].val
  BY <1>1, AdvancedOK
<1>3. /\ reqs' = [reqs EXCEPT ![r] = q]
      /\ exposed \cup Overlaps(reqs') \subseteq exposed' /\ Overtaken(r) \subseteq exposed'
  BY DEF Continue, Becomes
<1> HIDE DEF q
<1>4. HandlerMove(r) /\ reqs'[r] = q
  BY <1>2, <1>3, BecomesMove
<1>5. QED  BY <1>2, <1>3, <1>4

LEMMA RefuseMove ==
  ASSUME StoreOK, NEW r \in Slots, reqs[r].todo # <<>>, NEW res \in Results,
         Refuse(r, res), requests' = requests
  PROVE  HandlerMove(r) /\ reqs'[r].todo = <<>> /\ reqs'[r].val = reqs[r].val
<1>1. HandlerOK(reqs[r])
  BY DEF StoreOK
<1> DEFINE q == Ended(reqs[r], res)
<1>2. /\ HandlerOK(q) /\ q.todo = <<>>
      /\ q.kind = reqs[r].kind /\ q.svc = reqs[r].svc /\ q.val = reqs[r].val
  BY <1>1, EndedOK
<1>3. /\ reqs' = [reqs EXCEPT ![r] = q]
      /\ exposed \cup Overlaps(reqs') \subseteq exposed'
  BY DEF Refuse, Becomes
<1> HIDE DEF q
<1>4. HandlerMove(r) /\ reqs'[r] = q
  BY <1>2, <1>3, BecomesMove
<1>5. QED  BY <1>2, <1>4

\* The labels and handlers of the calls, from their types.
LEMMA FirstAt ==
  ASSUME StoreOK, NEW r \in Slots, reqs[r].todo # <<>>
  PROVE  /\ HandlerOK(reqs[r]) /\ Head(reqs[r].todo) = First(r) /\ LabelOf(r) = First(r).label
         /\ First(r) \in Calls /\ reqs[r].val \in Content
         /\ First(r).op \in HostOps => First(r).label \in Hosts
         /\ First(r).op \notin HostOps => First(r).label \in PolicyLabels
         /\ First(r).op \in OnboardOps => reqs[r].kind = "service_on_board"
         /\ reqs[r].kind = "service_on_board" =>
              /\ reqs[r].svc \in Services /\ Len(reqs[r].todo) \in 1..8
              /\ First(r) = Script(reqs[r].svc)[9 - Len(reqs[r].todo)]
<1>1. HandlerOK(reqs[r])
  BY DEF StoreOK
<1>2. /\ Head(reqs[r].todo) = First(r) /\ First(r) \in Calls
      /\ First(r).op \in OnboardOps => reqs[r].kind = "service_on_board"
      /\ reqs[r].kind = "service_on_board" =>
           /\ reqs[r].svc \in Services /\ Len(reqs[r].todo) \in 1..8
           /\ First(r) = Script(reqs[r].svc)[9 - Len(reqs[r].todo)]
  BY <1>1, NextOfScript DEF First
<1>3. /\ First(r).op \in HostOps => First(r).label \in Hosts
      /\ First(r).op \notin HostOps => First(r).label \in PolicyLabels
  BY <1>2 DEF Calls
<1>4. reqs[r].val \in Content
  BY <1>1 DEF HandlerOK, HandlerType
<1>5. QED  BY <1>1, <1>2, <1>3, <1>4 DEF LabelOf

\* Which calls are left to service::on_board, by the call it makes next.
LEMMA OnboardAt ==
  ASSUME StoreOK, NEW r \in Slots, reqs[r].todo # <<>>, reqs[r].kind = "service_on_board"
  PROVE  LET n == Len(reqs[r].todo)
             c == First(r)
             id == new_ID(reqs[r].svc)
         IN  /\ reqs[r].svc \in Services /\ n \in 1..8 /\ id \in IDs
             /\ n = 8 => c = Call("get_onboarding_policy", onboarding_policy_label)
             /\ n = 7 => c = Call("onboarded", id)
             /\ n = 6 => c = Call("compile_egress", global_policy_label)
             /\ n = 5 => c = Call("compile_ingress", global_policy_label)
             /\ n = 4 => c = Call("service_present", id)
             /\ n = 3 => c = Call("service_insert", id)
             /\ n = 2 => c = Call("delete_many", id)
             /\ n = 1 => c = Call("insert_one", id)
<1> DEFINE n == Len(reqs[r].todo)
           s == reqs[r].svc
<1>1. s \in Services /\ n \in 1..8 /\ First(r) = Script(s)[9 - n]
  BY FirstAt
<1>2. new_ID(s) \in IDs
  BY <1>1 DEF IDs
<1> HIDE DEF n, s
<1>3. /\ n = 8 => First(r) = Script(s)[1]
      /\ n = 7 => First(r) = Script(s)[2]
      /\ n = 6 => First(r) = Script(s)[3]
      /\ n = 5 => First(r) = Script(s)[4]
      /\ n = 4 => First(r) = Script(s)[5]
      /\ n = 3 => First(r) = Script(s)[6]
      /\ n = 2 => First(r) = Script(s)[7]
      /\ n = 1 => First(r) = Script(s)[8]
  BY <1>1
<1>4. /\ n = 8 => First(r) = Call("get_onboarding_policy", onboarding_policy_label)
      /\ n = 7 => First(r) = Call("onboarded", new_ID(s))
      /\ n = 6 => First(r) = Call("compile_egress", global_policy_label)
      /\ n = 5 => First(r) = Call("compile_ingress", global_policy_label)
      /\ n = 4 => First(r) = Call("service_present", new_ID(s))
      /\ n = 3 => First(r) = Call("service_insert", new_ID(s))
      /\ n = 2 => First(r) = Call("delete_many", new_ID(s))
      /\ n = 1 => First(r) = Call("insert_one", new_ID(s))
  BY <1>1, <1>3, ScriptAt
<1>5. QED  BY <1>1, <1>2, <1>4 DEF n, s

\* What a read of the global policy returns.
LEMMA GlobalRead ==
  ASSUME StoreOK
  PROVE  GlobalPolicyRead \subseteq Versions
<1>1. \A c \in Content : c.egress \in Versions
  BY DEF Content
<1>2. NoPolicy \in Versions
  BY CPAssumption
<1>3. QED  BY <1>1, <1>2 DEF GlobalPolicyRead, Docs

LEMMA SameVal ==
  ASSUME NEW r, reqs'[r].val = reqs[r].val,
         First(r).op \notin {"compile_egress", "compile_ingress"}
  PROVE  ValMove(r)
BY DEF ValMove

LEMMA SameHosts ==
  ASSUME NEW r, hosts' = hosts, First(r).op # "host_present"
  PROVE  HostsMove(r)
BY DEF HostsMove

LEMMA SameServices ==
  ASSUME NEW r, services' = services, First(r).op \notin {"onboarded", "get_onboarding_policy"}
  PROVE  ServicesMove(r)
BY DEF ServicesMove

LEMMA SamePolicies ==
  ASSUME NEW r, policies' = policies, last' = last, promised' = promised,
         First(r).op \notin {"insert_one", "delete_many"}
  PROVE  PoliciesMove(r)
BY DEF PoliciesMove

\* Every database call that succeeds.
LEMMA DbCallMoves ==
  ASSUME StoreOK, NEW r \in Slots, DbCall(r)
  PROVE  Moves(r)
<1>0. /\ "refused" \in Results /\ "no service" \in Results /\ "conversion" \in Results
      /\ "compile" \in Results
  BY DEF Results
<1>a. ASSUME NEW op, At(r, op)
      PROVE  /\ reqs[r].todo # <<>> /\ HandlerOK(reqs[r])
             /\ First(r).op = op /\ LabelOf(r) = First(r).label
  BY <1>a, FirstAt DEF At
<1>1. CASE host_present(r)
  <2>1. /\ reqs[r].todo # <<>> /\ First(r).op = "host_present" /\ LabelOf(r) = First(r).label
        /\ hosts' = hosts /\ services' = services /\ policies' = policies
        /\ requests' = requests /\ last' = last /\ promised' = promised
    BY <1>1, <1>a DEF host_present, Reads
  <2>2. SUFFICES HandlerMove(r) /\ reqs'[r].val = reqs[r].val /\ HostsMove(r)
    BY <2>1, SameVal, SameServices, SamePolicies DEF Moves
  <2>3. CASE hosts[First(r).label] > 0
    <3>1. Refuse(r, "refused")
      BY <1>1, <2>1, <2>3 DEF host_present
    <3>2. HandlerMove(r) /\ reqs'[r].todo = <<>> /\ reqs'[r].val = reqs[r].val
      BY <1>0, <2>1, <3>1, RefuseMove
    <3>3. QED  BY <2>1, <3>2 DEF HostsMove
  <2>4. CASE ~(hosts[First(r).label] > 0)
    <3>1. Continue(r)
      BY <1>1, <2>1, <2>4 DEF host_present
    <3>2. HandlerMove(r) /\ reqs'[r].val = reqs[r].val
      BY <2>1, <3>1, ContinueMove
    <3>3. hosts[First(r).label] = 0
      <4>1. First(r).label \in Hosts /\ hosts \in [Hosts -> Nat]
        BY <2>1, FirstAt DEF HostOps, StoreOK
      <4>2. QED  BY <2>4, <4>1
    <3>4. QED  BY <2>1, <3>2, <3>3 DEF HostsMove
  <2>5. QED  BY <2>3, <2>4
<1>2. CASE host_insert(r)
  <2>1. /\ reqs[r].todo # <<>> /\ First(r).op = "host_insert" /\ LabelOf(r) = First(r).label
        /\ services' = services /\ policies' = policies
        /\ requests' = requests /\ last' = last /\ promised' = promised
    BY <1>2, <1>a DEF host_insert
  <2>2. HandlerMove(r) /\ reqs'[r].val = reqs[r].val /\ reqs'[r].todo = Tail(reqs[r].todo)
    BY <1>2, <2>1, ContinueMove DEF host_insert
  <2>3. HostsMove(r)
    BY <1>2, <2>1, <2>2 DEF host_insert, HostsMove
  <2>4. QED  BY <2>1, <2>2, <2>3, SameVal, SameServices, SamePolicies DEF Moves
<1>3. CASE host_delete(r)
  <2>1. /\ reqs[r].todo # <<>> /\ First(r).op = "host_delete" /\ LabelOf(r) = First(r).label
        /\ services' = services /\ policies' = policies
        /\ requests' = requests /\ last' = last /\ promised' = promised
    BY <1>3, <1>a DEF host_delete
  <2>2. HandlerMove(r) /\ reqs'[r].val = reqs[r].val
    BY <1>3, <2>1, ContinueMove DEF host_delete
  <2>3. hosts' = [hosts EXCEPT ![First(r).label] = IF @ > 0 THEN @ - 1 ELSE 0]
    BY <1>3, <2>1, Zenon DEF host_delete
  <2>4. HostsMove(r)
    BY <2>1, <2>3, Zenon DEF HostsMove
  <2>5. QED  BY <2>1, <2>2, <2>4, SameVal, SameServices, SamePolicies DEF Moves
<1>4. CASE services_delete(r)
  <2>1. /\ reqs[r].todo # <<>> /\ First(r).op = "services_delete"
        /\ hosts' = hosts /\ policies' = policies
        /\ requests' = requests /\ last' = last /\ promised' = promised
    BY <1>4, <1>a DEF services_delete
  <2>2. services' = services
    <3>1. services' = [s \in Services |-> services[s]]
      BY <1>4 DEF services_delete, POnboardServiceRequest
    <3>2. services \in [Services -> Nat]
      BY DEF StoreOK
    <3>3. QED  BY <3>1, <3>2
  <2>3. HandlerMove(r) /\ reqs'[r].val = reqs[r].val
    BY <1>4, <2>1, ContinueMove DEF services_delete
  <2>4. QED  BY <2>1, <2>2, <2>3, SameVal, SameHosts, SameServices, SamePolicies DEF Moves
<1>5. CASE get_onboarding_policy(r)
  <2>1. /\ reqs[r].todo # <<>> /\ First(r).op = "get_onboarding_policy"
        /\ LabelOf(r) = First(r).label
        /\ hosts' = hosts /\ services' = services /\ policies' = policies
        /\ requests' = requests /\ last' = last /\ promised' = promised
    BY <1>5, <1>a DEF get_onboarding_policy, Reads
  <2>2. SUFFICES HandlerMove(r) /\ reqs'[r].val = reqs[r].val /\ ServicesMove(r)
    BY <2>1, SameVal, SameHosts, SamePolicies DEF Moves
  <2>3. CASE Docs(First(r).label) = {}
    <3>1. Refuse(r, "refused")
      BY <1>5, <2>1, <2>3 DEF get_onboarding_policy
    <3>2. HandlerMove(r) /\ reqs'[r].todo = <<>> /\ reqs'[r].val = reqs[r].val
      BY <1>0, <2>1, <3>1, RefuseMove
    <3>3. QED  BY <2>1, <3>2 DEF ServicesMove
  <2>4. CASE Docs(First(r).label) # {}
    <3>1. Continue(r)
      BY <1>5, <2>1, <2>4 DEF get_onboarding_policy
    <3>2. HandlerMove(r) /\ reqs'[r].val = reqs[r].val
      BY <2>1, <3>1, ContinueMove
    <3>3. QED  BY <2>1, <2>4, <3>2 DEF ServicesMove
  <2>5. QED  BY <2>3, <2>4
<1>6. CASE onboarded(r)
  <2>1. /\ reqs[r].todo # <<>> /\ First(r).op = "onboarded" /\ LabelOf(r) = First(r).label
        /\ hosts' = hosts /\ services' = services /\ policies' = policies
        /\ requests' = requests /\ last' = last /\ promised' = promised
    BY <1>6, <1>a DEF onboarded, Reads
  <2>2. SUFFICES HandlerMove(r) /\ reqs'[r].val = reqs[r].val /\ ServicesMove(r)
    BY <2>1, SameVal, SameHosts, SamePolicies DEF Moves
  <2>3. CASE ServiceDocs(First(r).label) # {}
    <3>1. Refuse(r, "refused")
      BY <1>6, <2>1, <2>3 DEF onboarded
    <3>2. HandlerMove(r) /\ reqs'[r].todo = <<>> /\ reqs'[r].val = reqs[r].val
      BY <1>0, <2>1, <3>1, RefuseMove
    <3>3. QED  BY <2>1, <3>2 DEF ServicesMove
  <2>4. CASE ServiceDocs(First(r).label) = {}
    <3>1. Continue(r)
      BY <1>6, <2>1, <2>4 DEF onboarded
    <3>2. HandlerMove(r) /\ reqs'[r].val = reqs[r].val
      BY <2>1, <3>1, ContinueMove
    <3>3. QED  BY <2>1, <2>4, <3>2 DEF ServicesMove
  <2>5. QED  BY <2>3, <2>4
<1>7. CASE helper_compile_egress(r)
  <2>1. /\ reqs[r].todo # <<>> /\ First(r).op = "compile_egress" /\ HandlerOK(reqs[r])
        /\ hosts' = hosts /\ services' = services /\ policies' = policies
        /\ requests' = requests /\ last' = last /\ promised' = promised
    BY <1>7, <1>a DEF helper_compile_egress, Reads
  <2>2. PICK v \in GlobalPolicyRead : Becomes(r, [Advanced(reqs[r]) EXCEPT !.val.egress = v])
    BY <1>7 DEF helper_compile_egress
  <2> DEFINE a == Advanced(reqs[r])
             q == [a EXCEPT !.val.egress = v]
  <2>3. v \in Versions /\ reqs[r].kind = "service_on_board"
    BY <2>1, GlobalRead, FirstAt DEF OnboardOps
  <2>4. /\ HandlerOK(a) /\ a.todo = Tail(reqs[r].todo)
        /\ a.kind = reqs[r].kind /\ a.svc = reqs[r].svc
    BY <2>1, AdvancedOK
  <2>5. /\ reqs' = [reqs EXCEPT ![r] = q]
        /\ exposed \cup Overlaps(reqs') \subseteq exposed'
    BY <2>2 DEF Becomes
  <2> HIDE DEF a
  <2>6. /\ HandlerOK(q) /\ q.todo = a.todo /\ q.kind = a.kind /\ q.svc = a.svc
        /\ q.val.egress = v
    BY <2>3, <2>4, ValOK, ZenonT(30)
  <2> HIDE DEF q
  <2>7. HandlerMove(r) /\ reqs'[r] = q
    BY <2>1, <2>4, <2>5, <2>6, BecomesMove, ZenonT(30)
  <2>8. ValMove(r)
    BY <2>1, <2>6, <2>7 DEF ValMove
  <2>9. QED  BY <2>1, <2>7, <2>8, SameHosts, SameServices, SamePolicies DEF Moves
<1>8. CASE helper_compile_ingress(r)
  <2>1. /\ reqs[r].todo # <<>> /\ First(r).op = "compile_ingress" /\ HandlerOK(reqs[r])
        /\ hosts' = hosts /\ services' = services /\ policies' = policies
        /\ requests' = requests /\ last' = last /\ promised' = promised
    BY <1>8, <1>a DEF helper_compile_ingress, Reads
  <2>2. PICK v \in GlobalPolicyRead : Becomes(r, [Advanced(reqs[r]) EXCEPT !.val.ingress = v])
    BY <1>8 DEF helper_compile_ingress
  <2> DEFINE a == Advanced(reqs[r])
             q == [a EXCEPT !.val.ingress = v]
  <2>3. v \in Versions /\ reqs[r].kind = "service_on_board"
    BY <2>1, GlobalRead, FirstAt DEF OnboardOps
  <2>4. /\ HandlerOK(a) /\ a.todo = Tail(reqs[r].todo)
        /\ a.kind = reqs[r].kind /\ a.svc = reqs[r].svc /\ a.val = reqs[r].val
    BY <2>1, AdvancedOK
  <2>5. /\ reqs' = [reqs EXCEPT ![r] = q]
        /\ exposed \cup Overlaps(reqs') \subseteq exposed'
    BY <2>2 DEF Becomes
  <2> HIDE DEF a
  <2>6. /\ HandlerOK(q) /\ q.todo = a.todo /\ q.kind = a.kind /\ q.svc = a.svc
        /\ q.val.ingress = v /\ q.val.egress = a.val.egress
    BY <2>3, <2>4, ValOK
  <2> HIDE DEF q
  <2>7. HandlerMove(r) /\ reqs'[r] = q
    BY <2>1, <2>4, <2>5, <2>6, BecomesMove
  <2>8. ValMove(r)
    BY <2>1, <2>4, <2>6, <2>7 DEF ValMove
  <2>9. QED  BY <2>1, <2>7, <2>8, SameHosts, SameServices, SamePolicies DEF Moves
<1>9. CASE service_present(r)
  <2>1. /\ reqs[r].todo # <<>> /\ First(r).op = "service_present"
        /\ hosts' = hosts /\ services' = services /\ policies' = policies
        /\ requests' = requests /\ last' = last /\ promised' = promised
    BY <1>9, <1>a DEF service_present, Reads
  <2>2. HandlerMove(r) /\ reqs'[r].val = reqs[r].val
    BY <1>9, <2>1, ContinueMove DEF service_present
  <2>3. QED  BY <2>1, <2>2, SameVal, SameHosts, SameServices, SamePolicies DEF Moves
<1>10. CASE service_insert(r)
  <2>1. /\ reqs[r].todo # <<>> /\ First(r).op = "service_insert"
        /\ hosts' = hosts /\ policies' = policies
        /\ requests' = requests /\ last' = last /\ promised' = promised
    BY <1>10, <1>a DEF service_insert
  <2>2. HandlerMove(r) /\ reqs'[r].val = reqs[r].val /\ reqs'[r].todo = Tail(reqs[r].todo)
    BY <1>10, <2>1, ContinueMove DEF service_insert
  <2>3. ServicesMove(r)
    BY <1>10, <2>1, <2>2 DEF service_insert, ServicesMove
  <2>4. QED  BY <2>1, <2>2, <2>3, SameVal, SameHosts, SamePolicies DEF Moves
<1>11. CASE service_delete(r)
  <2>1. /\ reqs[r].todo # <<>> /\ First(r).op = "service_delete" /\ LabelOf(r) = First(r).label
        /\ hosts' = hosts /\ policies' = policies
        /\ requests' = requests /\ last' = last /\ promised' = promised
    BY <1>11, <1>a DEF service_delete
  <2>2. HandlerMove(r) /\ reqs'[r].val = reqs[r].val
    BY <1>11, <2>1, ContinueMove DEF service_delete
  <2>3. \/ services' = services
        \/ \E s \in ServiceDocs(LabelOf(r)) : services' = [services EXCEPT ![s] = @ - 1]
    BY <1>11 DEF service_delete
  <2>4. \/ services' = services
        \/ \E s \in Services : services[s] > 0 /\ services' = [services EXCEPT ![s] = @ - 1]
    BY <2>3 DEF ServiceDocs
  <2>5. ServicesMove(r)
    BY <2>1, <2>4 DEF ServicesMove
  <2>6. QED  BY <2>1, <2>2, <2>5, SameVal, SameHosts, SamePolicies DEF Moves
<1>12. CASE delete_many(r)
  <2>1. /\ reqs[r].todo # <<>> /\ First(r).op = "delete_many" /\ LabelOf(r) = First(r).label
        /\ hosts' = hosts /\ services' = services
        /\ policies' = [policies EXCEPT ![First(r).label] = NoDocs]
        /\ requests' = requests /\ last' = last /\ promised' = promised
    BY <1>12, <1>a DEF delete_many
  <2>2. /\ HandlerMove(r) /\ reqs'[r].val = reqs[r].val /\ reqs'[r].todo = Tail(reqs[r].todo)
        /\ Overtaken(r) \subseteq exposed'
    BY <1>12, <2>1, ContinueMove DEF delete_many
  <2>3. PoliciesMove(r)
    BY <2>1, <2>2 DEF PoliciesMove
  <2>4. QED  BY <2>1, <2>2, <2>3, SameVal, SameHosts, SameServices DEF Moves
<1>13. CASE insert_one(r)
  <2>1. /\ reqs[r].todo # <<>> /\ First(r).op = "insert_one" /\ LabelOf(r) = First(r).label
        /\ hosts' = hosts /\ services' = services /\ requests' = requests
        /\ policies' = [policies EXCEPT ![First(r).label][reqs[r].val] = @ + 1]
        /\ last' = [last EXCEPT ![First(r).label] = reqs[r].val]
        /\ promised' = promised \cup Promises(r)
    BY <1>13, <1>a DEF insert_one
  <2>2. /\ HandlerMove(r) /\ reqs'[r].val = reqs[r].val
        /\ Overtaken(r) \subseteq exposed'
    BY <1>13, <2>1, ContinueMove DEF insert_one
  <2>3. PoliciesMove(r)
    BY <2>1, <2>2 DEF PoliciesMove
  <2>4. QED  BY <2>1, <2>2, <2>3, SameVal, SameHosts, SameServices DEF Moves
<1>14. CASE get_local_service_label(r)
  <2>1. /\ reqs[r].todo # <<>> /\ First(r).op = "get_local_service_label"
        /\ hosts' = hosts /\ services' = services /\ policies' = policies
        /\ requests' = requests /\ last' = last /\ promised' = promised
    BY <1>14, <1>a DEF get_local_service_label, Reads
  <2>2. Refuse(r, "no service") \/ Continue(r)
    BY <1>14 DEF get_local_service_label
  <2>3. HandlerMove(r) /\ reqs'[r].val = reqs[r].val
    BY <1>0, <2>1, <2>2, RefuseMove, ContinueMove
  <2>4. QED  BY <2>1, <2>3, SameVal, SameHosts, SameServices, SamePolicies DEF Moves
<1>15. CASE update_hosts(r)
  <2>1. /\ reqs[r].todo # <<>> /\ First(r).op = "update_hosts" /\ HandlerOK(reqs[r])
        /\ hosts' = hosts /\ services' = services /\ policies' = policies
        /\ requests' = requests /\ last' = last /\ promised' = promised
    BY <1>15, <1>a DEF update_hosts, Reads
  <2> DEFINE a == Advanced(reqs[r])
             S == {s \in ServiceDocs(LabelOf(r)) : hosts[s.host] > 0}
             q == [a EXCEPT !.sent = @ \cup S]
  <2>2. Refuse(r, "conversion") \/ Becomes(r, q)
    BY <1>15 DEF update_hosts
  <2>3. HandlerMove(r) /\ reqs'[r].val = reqs[r].val
    <3>1. CASE Refuse(r, "conversion")
      BY <1>0, <2>1, <3>1, RefuseMove
    <3>2. CASE Becomes(r, q)
      <4>1. /\ HandlerOK(a) /\ a.todo = Tail(reqs[r].todo)
            /\ a.kind = reqs[r].kind /\ a.svc = reqs[r].svc /\ a.val = reqs[r].val
        BY <2>1, AdvancedOK
      <4>2. S \in SUBSET Services
        BY DEF ServiceDocs
      <4>3. /\ reqs' = [reqs EXCEPT ![r] = q]
            /\ exposed \cup Overlaps(reqs') \subseteq exposed'
        BY <3>2 DEF Becomes
      <4> HIDE DEF a, S
      <4>4. HandlerOK(q) /\ q.todo = a.todo /\ q.kind = a.kind /\ q.svc = a.svc /\ q.val = a.val
        BY <4>1, <4>2, SentOK
      <4> HIDE DEF q
      <4>5. HandlerMove(r) /\ reqs'[r] = q
        BY <2>1, <4>1, <4>3, <4>4, BecomesMove
      <4>6. QED  BY <4>1, <4>4, <4>5
    <3>3. QED  BY <2>2, <3>1, <3>2
  <2>4. QED  BY <2>1, <2>3, SameVal, SameHosts, SameServices, SamePolicies DEF Moves
<1>16. CASE services_full(r)
  <2>1. /\ reqs[r].todo # <<>> /\ First(r).op = "services_full" /\ HandlerOK(reqs[r])
        /\ hosts' = hosts /\ services' = services /\ policies' = policies
        /\ requests' = requests /\ last' = last /\ promised' = promised
    BY <1>16, <1>a DEF services_full, Reads
  <2> DEFINE documents == {d \in Services \X (1..MaxRequests) :
                             new_ID(d[1]) \in reqs[r].sel /\ d[2] <= services[d[1]]}
  <2>2. PICK order \in SetToSeqs(documents) :
          LET rest == [i \in 1..(4 * Len(order)) |->
                         update_service(new_ID(order[(i + 3) \div 4][1]))[((i - 1) % 4) + 1]]
          IN  Becomes(r, IF rest = <<>> THEN Advanced(reqs[r])
                         ELSE [reqs[r] EXCEPT !.todo = rest])
    BY <1>16, Zenon DEF services_full
  <2> DEFINE n == Cardinality(documents)
             ids == [k \in 1..n |-> new_ID(order[k][1])]
             rest == [i \in 1..(4 * n) |-> update_service(ids[(i + 3) \div 4])[((i - 1) % 4) + 1]]
             full == [i \in 1..(4 * Len(order)) |->
                        update_service(new_ID(order[(i + 3) \div 4][1]))[((i - 1) % 4) + 1]]
  <2>3. n \in Nat
    <3>1. IsFiniteSet(Services \X (1..MaxRequests))
      <4>1. IsFiniteSet(1..MaxRequests)
        BY CPAssumption, FS_Interval
      <4>2. IsFiniteSet(Services)
        BY CPAssumption
      <4>3. QED  BY <4>1, <4>2, FS_Product, Zenon
    <3>2. IsFiniteSet(documents)
      BY <3>1, FS_Subset
    <3>3. QED  BY <3>2, FS_CardinalityType
  <2>4. order \in [1..n -> documents]
    BY DEF SetToSeqs
  <2> HIDE DEF n
  <2>5. Len(order) = n
    BY <2>3, <2>4
  <2>6. ids \in [1..n -> PolicyLabels]
    BY <2>4 DEF PolicyLabels, IDs
  <2>7. full = rest
    <3>1. \A i \in 1..(4 * n) : (i + 3) \div 4 \in 1..n
      BY <2>3, QuarterAt
    <3>2. QED  BY <2>5, <3>1
  <2>8. /\ n = 0 => rest = <<>>
        /\ n # 0 => Follows(rest) /\ rest[1].op = "get_local_service_label"
    <3> HIDE DEF ids
    <3>1. QED  BY <2>3, <2>6, UpdatesAt
  <2>9. Becomes(r, IF rest = <<>> THEN Advanced(reqs[r]) ELSE [reqs[r] EXCEPT !.todo = rest])
    BY <2>2, <2>7
  <2> HIDE DEF rest
  <2>10. HandlerMove(r) /\ reqs'[r].val = reqs[r].val
    <3>1. CASE rest = <<>>
      <4>1. Continue(r)
        BY <2>9, <3>1 DEF Continue
      <4>2. QED  BY <2>1, <4>1, ContinueMove
    <3>2. CASE rest # <<>>
      <4>1. Follows(rest) /\ rest[1].op = "get_local_service_label"
        BY <2>8, <3>2
      <4>2. reqs[r].kind # "service_on_board"
        BY <2>1, OnboardAt, CallAt
      <4> DEFINE q == [reqs[r] EXCEPT !.todo = rest]
      <4>3. /\ reqs' = [reqs EXCEPT ![r] = q]
            /\ exposed \cup Overlaps(reqs') \subseteq exposed'
        BY <2>9, <3>2 DEF Becomes
      <4>4. /\ HandlerOK(q) /\ q.todo = rest /\ q.kind = reqs[r].kind /\ q.svc = reqs[r].svc
            /\ q.val = reqs[r].val
        BY <2>1, <4>1, <4>2, ReplacedOK DEF Follows
      <4> HIDE DEF q
      <4>5. HandlerMove(r) /\ reqs'[r] = q
        BY <2>1, <4>1, <4>2, <4>3, <4>4, BecomesMove
      <4>6. QED  BY <4>4, <4>5
    <3>3. QED  BY <3>1, <3>2
  <2>11. QED  BY <2>1, <2>10, SameVal, SameHosts, SameServices, SamePolicies DEF Moves
<1>17. CASE delete_one(r)
  <2>1. /\ reqs[r].todo # <<>> /\ First(r).op = "delete_one" /\ LabelOf(r) = First(r).label
        /\ hosts' = hosts /\ services' = services /\ requests' = requests /\ last' = last
        /\ promised' = promised \ {First(r).label}
    BY <1>17, <1>a DEF delete_one
  <2>2. /\ HandlerMove(r) /\ reqs'[r].val = reqs[r].val
        /\ Overtaken(r) \subseteq exposed'
    BY <1>17, <2>1, ContinueMove DEF delete_one
  <2>3. \/ policies' = policies
        \/ \E c \in Docs(First(r).label) :
             policies' = [policies EXCEPT ![First(r).label][c] = @ - 1]
    BY <1>17, <2>1 DEF delete_one
  <2>4. PoliciesMove(r)
    BY <2>1, <2>2, <2>3 DEF PoliciesMove
  <2>5. QED  BY <2>1, <2>2, <2>4, SameVal, SameHosts, SameServices DEF Moves
<1>18. CASE services_of_policies(r)
  <2>1. /\ reqs[r].todo # <<>> /\ First(r).op = "services" /\ HandlerOK(reqs[r])
        /\ hosts' = hosts /\ services' = services /\ policies' = policies
        /\ requests' = requests /\ last' = last /\ promised' = promised
    BY <1>18, <1>a DEF services_of_policies, Reads
  <2>2. CASE Refuse(r, "conversion")
    <3>1. HandlerMove(r) /\ reqs'[r].val = reqs[r].val
      BY <1>0, <2>1, <2>2, RefuseMove
    <3>2. QED  BY <2>1, <3>1, SameVal, SameHosts, SameServices, SamePolicies DEF Moves
  <2>3. ASSUME NEW order \in SetToSeqs(StoredLabels),
               Becomes(r, [reqs[r] EXCEPT
                 !.todo = [i \in 1..(1 + 2 * Len(order)) |->
                   IF i = 1 THEN Call("drop_collection", global_policy_label)
                   ELSE Call(IF i % 2 = 0 THEN "get_local_service_label" ELSE "update_hosts",
                             order[i \div 2])]])
        PROVE  Moves(r)
    <3> DEFINE n == Cardinality(StoredLabels)
               t == [i \in 1..(1 + 2 * n) |->
                       IF i = 1 THEN Call("drop_collection", global_policy_label)
                       ELSE Call(IF i % 2 = 0 THEN "get_local_service_label" ELSE "update_hosts",
                                 order[i \div 2])]
               q == [reqs[r] EXCEPT !.todo = t]
    <3>1. n \in Nat
      <4>1. IsFiniteSet(IDs)
        <5> DEFINE f == [s \in Services |-> new_ID(s)]
        <5>1. f \in Surjection(Services, IDs)
          BY DEF Surjection, IDs
        <5> HIDE DEF f
        <5>2. QED  BY <5>1, CPAssumption, FS_Surjection
      <4>2. IsFiniteSet({global_policy_label, onboarding_policy_label})
        <5>1. /\ IsFiniteSet({global_policy_label}) /\ IsFiniteSet({onboarding_policy_label})
          BY FS_Singleton
        <5>2. IsFiniteSet({global_policy_label} \cup {onboarding_policy_label})
          BY <5>1, FS_Union
        <5>3. {global_policy_label, onboarding_policy_label}
                = {global_policy_label} \cup {onboarding_policy_label}
          OBVIOUS
        <5>4. QED  BY <5>2, <5>3
      <4>3. IsFiniteSet(PolicyLabels)
        BY <4>1, <4>2, FS_Union DEF PolicyLabels
      <4>4. StoredLabels \in SUBSET PolicyLabels
        BY DEF StoredLabels
      <4>5. QED  BY <4>3, <4>4, FS_Subset, FS_CardinalityType
    <3>2. order \in [1..n -> PolicyLabels]
      BY DEF SetToSeqs, StoredLabels
    <3> HIDE DEF n
    <3>3. Len(order) = n
      BY <3>1, <3>2
    <3>4. /\ reqs' = [reqs EXCEPT ![r] = q]
          /\ exposed \cup Overlaps(reqs') \subseteq exposed'
      BY <2>3, <3>3 DEF Becomes
    <3>5. Follows(t) /\ t[1].op = "drop_collection"
      BY <3>1, <3>2, DropsAt
    <3>6. reqs[r].kind # "service_on_board"
      BY <2>1, OnboardAt, CallAt
    <3> HIDE DEF t
    <3>7. /\ HandlerOK(q) /\ q.todo = t /\ q.kind = reqs[r].kind /\ q.svc = reqs[r].svc
          /\ q.val = reqs[r].val
      BY <2>1, <3>5, <3>6, ReplacedOK DEF Follows
    <3> HIDE DEF q
    <3>8. HandlerMove(r) /\ reqs'[r] = q
      BY <2>1, <3>4, <3>5, <3>6, <3>7, BecomesMove
    <3>9. QED  BY <2>1, <3>7, <3>8, SameVal, SameHosts, SameServices, SamePolicies DEF Moves
  <2>4. QED  BY <1>18, <2>2, <2>3 DEF services_of_policies
<1>19. CASE drop_collection(r)
  <2>1. /\ reqs[r].todo # <<>> /\ First(r).op = "drop_collection"
        /\ hosts' = hosts /\ services' = services /\ requests' = requests /\ last' = last
        /\ policies' = [label \in PolicyLabels |-> NoDocs] /\ promised' = {}
    BY <1>19, <1>a DEF drop_collection
  <2>2. /\ HandlerMove(r) /\ reqs'[r].val = reqs[r].val
        /\ Overtaken(r) \subseteq exposed'
    BY <1>19, <2>1, ContinueMove DEF drop_collection
  <2>3. PoliciesMove(r)
    BY <2>1, <2>2 DEF PoliciesMove
  <2>4. QED  BY <2>1, <2>2, <2>3, SameVal, SameHosts, SameServices DEF Moves
<1>20. CASE Uncompiled(r)
  <2>1. /\ reqs[r].todo # <<>> /\ HandlerOK(reqs[r])
        /\ hosts' = hosts /\ services' = services /\ policies' = policies
        /\ requests' = requests /\ last' = last /\ promised' = promised
        /\ First(r).op \in {"compile_egress", "compile_ingress", "delete_many"}
    BY <1>20 DEF Uncompiled, Compiles, Reads, First, StoreOK
  <2>2. HandlerMove(r) /\ reqs'[r].todo = <<>> /\ reqs'[r].val = reqs[r].val
    BY <1>0, <1>20, <2>1, RefuseMove DEF Uncompiled
  <2>3. ValMove(r) /\ PoliciesMove(r)
    BY <2>1, <2>2 DEF ValMove, PoliciesMove
  <2>4. QED  BY <2>1, <2>2, <2>3, SameHosts, SameServices DEF Moves
<1>21. QED
  BY <1>1, <1>2, <1>3, <1>4, <1>5, <1>6, <1>7, <1>8, <1>9, <1>10, <1>11, <1>12, <1>13, <1>14,
     <1>15, <1>16, <1>17, <1>18, <1>19, <1>20 DEF DbCall

\* Every database call that fails.
LEMMA DbFailsMoves ==
  ASSUME StoreOK, NEW r \in Slots, DbFails(r)
  PROVE  Moves(r)
<1> DEFINE op == First(r).op
           label == First(r).label
           a == Advanced(reqs[r])
           next == CASE op \in TakenForAbsent -> a
                     [] op = "compile_egress" -> [a EXCEPT !.val.egress = NoPolicy]
                     [] op = "compile_ingress" -> [a EXCEPT !.val.ingress = NoPolicy]
                     [] op = "drop_collection" -> Ended(reqs[r], "ok")
                     [] OTHER -> Ended(reqs[r], "database")
           more == CASE op = "onboarded" -> {<<"service_insert", label>>}
                     [] op \in {"compile_egress", "compile_ingress"} ->
                          {<<"compile", new_ID(reqs[r].svc)>>}
                     [] OTHER -> {}
<1>1. /\ reqs[r].todo # <<>> /\ HandlerOK(reqs[r])
      /\ Head(reqs[r].todo) = First(r) /\ LabelOf(r) = label
  BY FirstAt DEF DbFails
<1>2. /\ reqs' = [reqs EXCEPT ![r] = next]
      /\ exposed' = exposed \cup Overlaps(reqs') \cup more
      /\ promised' = IF op = "insert_one" THEN promised \ {label} ELSE promised
      /\ hosts' = hosts /\ services' = services /\ policies' = policies
      /\ requests' = requests /\ last' = last
  BY <1>1 DEF DbFails
<1>3. exposed \cup Overlaps(reqs') \subseteq exposed' /\ more \subseteq exposed'
  BY <1>2
<1>4. /\ HandlerOK(a) /\ a.todo = Tail(reqs[r].todo)
      /\ a.kind = reqs[r].kind /\ a.svc = reqs[r].svc /\ a.val = reqs[r].val
  BY <1>1, AdvancedOK
<1>5. NoPolicy \in Versions /\ "ok" \in Results /\ "database" \in Results
  BY CPAssumption DEF Results
<1> HIDE DEF a
<1>6. CASE op = "onboarded"
  <2>1. reqs' = [reqs EXCEPT ![r] = a] /\ <<"service_insert", label>> \in exposed'
    BY <1>2, <1>3, <1>6 DEF TakenForAbsent
  <2>2. HandlerMove(r) /\ reqs'[r] = a
    BY <1>1, <1>2, <1>3, <1>4, <2>1, BecomesMove
  <2>3. ServicesMove(r)
    BY <1>2, <1>6, <2>1 DEF ServicesMove
  <2>4. promised' = promised
    BY <1>2, <1>6
  <2>5. QED  BY <1>2, <1>4, <1>6, <2>2, <2>3, <2>4, SameVal, SameHosts, SamePolicies DEF Moves
<1>7. CASE op = "compile_egress"
  <2> DEFINE q == [a EXCEPT !.val.egress = NoPolicy]
  <2>1. reqs' = [reqs EXCEPT ![r] = q] /\ <<"compile", new_ID(reqs[r].svc)>> \in exposed'
    BY <1>2, <1>3, <1>7 DEF TakenForAbsent
  <2>2. reqs[r].kind = "service_on_board"
    BY <1>1, <1>7, FirstAt DEF OnboardOps
  <2>3. HandlerOK(q) /\ q.todo = a.todo /\ q.kind = a.kind /\ q.svc = a.svc
    BY <1>4, <1>5, <2>2, ValOK
  <2> HIDE DEF q
  <2>4. HandlerMove(r) /\ reqs'[r] = q
    <3>1. /\ q.todo = Tail(reqs[r].todo) /\ q.kind = reqs[r].kind /\ q.svc = reqs[r].svc
          /\ requests' = requests
      BY <1>2, <1>4, <2>3
    <3>2. reqs' = [reqs EXCEPT ![r] = q]
      BY <2>1
    <3>3. QED  BY <1>1, <1>3, <2>3, <3>1, <3>2, BecomesMove
  <2>5. ValMove(r)
    BY <1>7, <2>1 DEF ValMove
  <2>6. promised' = promised
    BY <1>2, <1>7
  <2>7. QED  BY <1>2, <1>7, <2>4, <2>5, <2>6, SameHosts, SameServices, SamePolicies DEF Moves
<1>8. CASE op = "compile_ingress"
  <2> DEFINE q == [a EXCEPT !.val.ingress = NoPolicy]
  <2>1. reqs' = [reqs EXCEPT ![r] = q] /\ <<"compile", new_ID(reqs[r].svc)>> \in exposed'
    BY <1>2, <1>3, <1>8 DEF TakenForAbsent
  <2>2. reqs[r].kind = "service_on_board"
    BY <1>1, <1>8, FirstAt DEF OnboardOps
  <2>3. /\ HandlerOK(q) /\ q.todo = a.todo /\ q.kind = a.kind /\ q.svc = a.svc
        /\ q.val.egress = a.val.egress
    BY <1>4, <1>5, <2>2, ValOK
  <2> HIDE DEF q
  <2>4. HandlerMove(r) /\ reqs'[r] = q
    <3>1. /\ q.todo = Tail(reqs[r].todo) /\ q.kind = reqs[r].kind /\ q.svc = reqs[r].svc
          /\ requests' = requests
      BY <1>2, <1>4, <2>3
    <3>2. reqs' = [reqs EXCEPT ![r] = q]
      BY <2>1
    <3>3. QED  BY <1>1, <1>3, <2>3, <3>1, <3>2, BecomesMove
  <2>5. ValMove(r)
    BY <1>4, <1>8, <2>1, <2>3, <2>4 DEF ValMove
  <2>6. promised' = promised
    BY <1>2, <1>8
  <2>7. QED  BY <1>2, <1>8, <2>4, <2>5, <2>6, SameHosts, SameServices, SamePolicies DEF Moves
<1>9. CASE op \notin {"onboarded", "compile_egress", "compile_ingress"}
  <2>1. PICK res \in Results : reqs' = [reqs EXCEPT ![r] = Ended(reqs[r], res)]
    BY <1>2, <1>5, <1>9 DEF TakenForAbsent
  <2> DEFINE q == Ended(reqs[r], res)
  <2>2. /\ HandlerOK(q) /\ q.todo = <<>> /\ q.kind = reqs[r].kind /\ q.svc = reqs[r].svc
        /\ q.val = reqs[r].val
    BY <1>1, EndedOK
  <2>3. reqs' = [reqs EXCEPT ![r] = q]
    BY <2>1
  <2> HIDE DEF q
  <2>4. HandlerMove(r) /\ reqs'[r] = q
    BY <1>1, <1>2, <1>3, <2>2, <2>3, BecomesMove
  <2>5. reqs'[r].todo = <<>> /\ reqs'[r].val = reqs[r].val
    BY <2>2, <2>4
  <2>6. HostsMove(r) /\ ServicesMove(r)
    BY <1>2, <2>5 DEF HostsMove, ServicesMove
  <2>7. promised' \subseteq promised /\ (op = "insert_one" => label \notin promised')
    BY <1>2
  <2>8. PoliciesMove(r)
    BY <1>2, <2>5, <2>7 DEF PoliciesMove
  <2>9. ValMove(r)
    BY <1>9, <2>5, SameVal
  <2>10. QED  BY <2>4, <2>6, <2>8, <2>9 DEF Moves
<1>10. QED  BY <1>6, <1>7, <1>8, <1>9

-----------------------------------------------------------------------------
\* Handlers in the window of a label are noticed when they overlap.
LEMMA WindowsAt ==
  ASSUME NEW q, HandlerOK(q), NEW l
  PROVE  /\ Next1(q, "host_insert", l) => <<"host_insert", l>> \in Windows(q)
         /\ Next1(q, "insert_one", l) =>
              <<"insert_one", l>> \in Windows(q) /\ InWindow(q, "insert_one", l)
         /\ Admitted(q, l) => <<"service_insert", l>> \in Windows(q)
<1>1. q.todo \in Seq(Calls) /\ Scripted(q)
  BY DEF HandlerOK, HandlerType
<1>2. DOMAIN q.todo = 1..Len(q.todo) /\ Len(q.todo) \in Nat
  BY <1>1
<1>3. ASSUME NEW op \in DOMAIN Guard, InWindow(q, op, l)
      PROVE  <<op, l>> \in Windows(q)
  <2>1. PICK i \in DOMAIN q.todo : q.todo[i] = Call(op, l)
    BY <1>3 DEF InWindow
  <2>2. Call(op, l) \in Range(q.todo)
    BY <2>1 DEF Range
  <2> DEFINE x == Call(op, l)
  <2>3. x.op = op /\ x.label = l
    BY CallAt
  <2> HIDE DEF x
  <2>4. x \in {y \in Range(q.todo) : y.op \in DOMAIN Guard /\ InWindow(q, y.op, y.label)}
    BY <1>3, <2>2, <2>3 DEF x
  <2>5. QED  BY <2>3, <2>4 DEF Windows
<1>4. ASSUME NEW op, Next1(q, op, l) PROVE InWindow(q, op, l)
  <2>1. 1 \in DOMAIN q.todo /\ q.todo[1] = Call(op, l)
    BY <1>1, <1>2, <1>4, EmptyAt DEF Next1
  <2>2. \A j \in 1..(1 - 1) : q.todo[j] # Call(Guard[op], l)
    OBVIOUS
  <2>3. QED  BY <2>1, <2>2 DEF InWindow
<1>5. ASSUME Admitted(q, l) PROVE InWindow(q, "service_insert", l)
  <2> DEFINE n == Len(q.todo)
             s == q.svc
  <2>1. /\ n \in 3..6 /\ s \in Services /\ new_ID(s) = l
        /\ \A i \in 1..n : q.todo[i] = Script(s)[8 - n + i]
    BY <1>1, <1>5 DEF Admitted, Scripted
  <2> HIDE DEF n, s
  <2>2. n - 2 \in DOMAIN q.todo /\ q.todo[n - 2] = Script(s)[6]
    <3>1. n - 2 \in 1..n /\ 8 - n + (n - 2) = 6
      BY <2>1
    <3>2. QED  BY <1>2, <2>1, <3>1 DEF n
  <2>3. q.todo[n - 2] = Call("service_insert", l)
    BY <2>1, <2>2, ScriptAt
  <2>4. ASSUME NEW j \in 1..(n - 2 - 1) PROVE q.todo[j] # Call("onboarded", l)
    <3>1. j \in 1..n /\ 8 - n + j \in {3, 4, 5}
      BY <2>1
    <3>2. q.todo[j] \in {Script(s)[3], Script(s)[4], Script(s)[5]}
      BY <2>1, <3>1
    <3>3. q.todo[j].op \in {"compile_egress", "compile_ingress", "service_present"}
      <4>1. /\ Script(s)[3] = Call("compile_egress", global_policy_label)
            /\ Script(s)[4] = Call("compile_ingress", global_policy_label)
            /\ Script(s)[5] = Call("service_present", new_ID(s))
        BY <2>1, ScriptAt
      <4>2. QED  BY <3>2, <4>1, CallAt
    <3>4. QED  BY <3>3, CallAt
  <2>5. QED  BY <2>2, <2>3, <2>4, GuardAt DEF InWindow
<1>6. QED  BY <1>3, <1>4, <1>5, GuardAt

LEMMA OverlapsAt ==
  ASSUME NEW qs, \A r \in Slots : HandlerOK(qs[r]),
         NEW p \in Slots, NEW q \in Slots, p # q, NEW l
  PROVE  /\ Next1(qs[p], "host_insert", l) /\ Next1(qs[q], "host_insert", l) =>
              <<"host_insert", l>> \in Overlaps(qs)
         /\ Next1(qs[p], "insert_one", l) /\ Next1(qs[q], "insert_one", l) =>
              <<"insert_one", l>> \in Overlaps(qs)
         /\ Admitted(qs[p], l) /\ Admitted(qs[q], l) => <<"service_insert", l>> \in Overlaps(qs)
<1>1. HandlerOK(qs[p]) /\ HandlerOK(qs[q])
  OBVIOUS
<1>2. \A w : w \in Windows(qs[p]) /\ w \in Windows(qs[q]) => w \in Overlaps(qs)
  <2> DEFINE x == <<p, q>>
  <2>1. x \in {y \in Slots \X Slots : y[1] # y[2]} /\ x[1] = p /\ x[2] = q
    OBVIOUS
  <2> HIDE DEF x
  <2>2. QED  BY <2>1 DEF Overlaps
<1>3. QED  BY <1>1, <1>2, WindowsAt

\* A step that notices all overlaps keeps Watched.
LEMMA WatchedStep ==
  ASSUME \A r \in Slots : HandlerOK(reqs'[r]), Overlaps(reqs') \subseteq exposed'
  PROVE  Watched'
<1>1. SUFFICES ASSUME NEW p \in Slots, NEW q \in Slots, NEW l \in PolicyLabels \cup Hosts, p # q
               PROVE
    /\ Next1(reqs'[p], "host_insert", l) /\ Next1(reqs'[q], "host_insert", l) =>
         <<"host_insert", l>> \in exposed'
    /\ Next1(reqs'[p], "insert_one", l) /\ Next1(reqs'[q], "insert_one", l) =>
         <<"insert_one", l>> \in exposed'
    /\ Admitted(reqs'[p], l) /\ Admitted(reqs'[q], l) => <<"service_insert", l>> \in exposed'
  BY DEF Watched
<1> DEFINE qs == reqs'
<1>2. \A r \in Slots : HandlerOK(qs[r])
  OBVIOUS
<1>3. Overlaps(qs) \subseteq exposed'
  OBVIOUS
<1> HIDE DEF qs
<1>4. /\ Next1(qs[p], "host_insert", l) /\ Next1(qs[q], "host_insert", l) =>
           <<"host_insert", l>> \in exposed'
      /\ Next1(qs[p], "insert_one", l) /\ Next1(qs[q], "insert_one", l) =>
           <<"insert_one", l>> \in exposed'
      /\ Admitted(qs[p], l) /\ Admitted(qs[q], l) => <<"service_insert", l>> \in exposed'
  BY <1>1, <1>2, <1>3, OverlapsAt
<1>5. QED  BY <1>4 DEF qs

-----------------------------------------------------------------------------
\* Where a handler is after its call.
LEMMA AfterMove ==
  ASSUME StoreOK, NEW r \in Slots, HandlerMove(r)
  PROVE  /\ \A p \in Slots : HandlerOK(reqs'[p])
         /\ \A l : Next1(reqs'[r], "host_insert", l) =>
                     First(r) = Call("host_present", l) /\ reqs'[r].todo # <<>>
         /\ \A l : Next1(reqs'[r], "insert_one", l) =>
                     First(r) = Call("delete_many", l) /\ reqs'[r].todo # <<>>
         /\ First(r).op = "delete_many" /\ reqs'[r].todo = Tail(reqs[r].todo) =>
              Next1(reqs'[r], "insert_one", First(r).label)
         /\ reqs[r].kind = "service_on_board" /\ reqs'[r].todo # <<>> =>
              Len(reqs'[r].todo) = Len(reqs[r].todo) - 1
         /\ \A c : (\E i \in 1..Len(reqs'[r].todo) : reqs'[r].todo[i] = c /\ c.op = "host_insert")
                     => \E i \in 1..Len(reqs[r].todo) : reqs[r].todo[i] = c
         /\ First(r).op = "host_insert" => reqs'[r].todo = <<>>
<1> DEFINE t == reqs[r].todo
           u == reqs'[r].todo
<1>1. /\ HandlerOK(reqs[r]) /\ t \in Seq(Calls) /\ t # <<>> /\ Paired(t) /\ First(r) = t[1]
      /\ HandlerOK(reqs'[r]) /\ u \in Seq(Calls)
  BY DEF StoreOK, HandlerMove, HandlerOK, HandlerType, First
<1>2. /\ Tail(t) \in Seq(Calls) /\ Len(t) \in Nat /\ Len(t) >= 1
      /\ Len(Tail(t)) = Len(t) - 1
      /\ Len(t) = 1 => Tail(t) = <<>>
      /\ \A i \in 1..Len(Tail(t)) : i + 1 \in 1..Len(t) /\ Tail(t)[i] = t[i + 1]
  BY <1>1, TailAt
<1>3. \/ u = Tail(t)
      \/ u = <<>>
      \/ /\ Follows(u) /\ reqs[r].kind # "service_on_board"
         /\ u[1].op \in {"get_local_service_label", "drop_collection"}
         /\ First(r).op \in {"services_full", "services"}
  BY DEF HandlerMove
<1>4. \A p \in Slots : HandlerOK(reqs'[p])
  BY <1>1 DEF HandlerMove, StoreOK
<1> HIDE DEF t, u
<1>5. u # <<>> => Len(u) \in Nat /\ Len(u) >= 1
  BY <1>1, TailAt
<1>6. Len(<<>>) = 0
  BY EmptyAt
<1>7. ASSUME NEW l, NEW op \in {"host_insert", "insert_one"}, u # <<>>, u[1] = Call(op, l)
      PROVE  u = Tail(t) /\ 2 \in 1..Len(t) /\ t[2] = Call(op, l)
  <2>1. u[1].op = op
    BY <1>7, CallAt
  <2>2. u = Tail(t)
    BY <1>3, <1>7, <2>1
  <2>3. 1 \in 1..Len(Tail(t)) /\ 1 + 1 = 2
    BY <1>5, <1>7, <2>2
  <2>4. QED  BY <1>2, <1>7, <2>2, <2>3
<1>8. ASSUME NEW l, u # <<>>, u[1] = Call("host_insert", l)
      PROVE  First(r) = Call("host_present", l)
  <2>1. 2 \in 1..Len(t) /\ t[2] = Call("host_insert", l)
    BY <1>7, <1>8
  <2>2. t[2].op = "host_insert" /\ t[2].label = l
    BY <2>1, CallAt
  <2>3. 2 > 1 /\ 2 - 1 = 1
    OBVIOUS
  <2>4. QED  BY <1>1, <2>1, <2>2, <2>3 DEF Paired
<1>9. ASSUME NEW l, u # <<>>, u[1] = Call("insert_one", l)
      PROVE  First(r) = Call("delete_many", l)
  <2>1. 2 \in 1..Len(t) /\ t[2] = Call("insert_one", l)
    BY <1>7, <1>9
  <2>2. t[2].op = "insert_one" /\ t[2].label = l
    BY <2>1, CallAt
  <2>3. 2 > 1 /\ 2 - 1 = 1
    OBVIOUS
  <2>4. QED  BY <1>1, <2>1, <2>2, <2>3 DEF Paired
<1>10. ASSUME First(r).op = "delete_many", u = Tail(t)
       PROVE  u # <<>> /\ u[1] = Call("insert_one", First(r).label)
  <2>1. 1 < Len(t) /\ t[1 + 1] = Call("insert_one", First(r).label)
    <3>1. 1 \in 1..Len(t)
      BY <1>2
    <3>2. QED  BY <1>1, <1>10, <3>1 DEF Paired
  <2>2. 1 \in 1..Len(Tail(t)) /\ Len(Tail(t)) # 0
    BY <1>2, <2>1
  <2>3. QED  BY <1>2, <1>6, <1>10, <2>1, <2>2
<1>11. ASSUME reqs[r].kind = "service_on_board", u # <<>> PROVE Len(u) = Len(t) - 1
  BY <1>2, <1>3, <1>11
<1>12. ASSUME NEW c, NEW i \in 1..Len(u), u[i] = c, c.op = "host_insert"
       PROVE  \E j \in 1..Len(t) : t[j] = c
  <2>1. u = Tail(t)
    <3>1. u # <<>>
      BY <1>6, <1>12
    <3>2. ~Follows(u)
      BY <1>12 DEF Follows
    <3>3. QED  BY <1>3, <3>1, <3>2
  <2>2. QED  BY <1>2, <1>12, <2>1
<1>13. ASSUME First(r).op = "host_insert" PROVE u = <<>>
  <2>1. 1 = Len(t)
    <3>1. 1 \in 1..Len(t)
      BY <1>2
    <3>2. QED  BY <1>1, <1>13, <3>1 DEF Paired
  <2>2. QED  BY <1>2, <1>3, <1>13, <2>1
<1>14. QED
  BY <1>4, <1>8, <1>9, <1>10, <1>11, <1>12, <1>13 DEF Next1, t, u

\* The collections keep their types.
LEMMA StoreMove ==
  ASSUME StoreOK, NEW r \in Slots, Moves(r)
  PROVE  StoreOK'
<1>1. HandlerMove(r) /\ HostsMove(r) /\ ServicesMove(r) /\ PoliciesMove(r)
  BY DEF Moves
<1>2. /\ reqs[r].todo # <<>> /\ reqs' \in [Slots -> HandlerType] /\ requests' = requests
      /\ \A p \in Slots : HandlerOK(reqs'[p])
  BY <1>1, AfterMove DEF HandlerMove
<1> DEFINE c == First(r)
<1>3. /\ c.op \in HostOps => c.label \in Hosts
      /\ c.op \notin HostOps => c.label \in PolicyLabels
      /\ c.op \in OnboardOps => reqs[r].kind = "service_on_board"
      /\ reqs[r].val \in Content /\ LabelOf(r) = c.label
  BY <1>2, FirstAt
<1>4. hosts' \in [Hosts -> Nat]
  <2>1. hosts \in [Hosts -> Nat]
    BY DEF StoreOK
  <2>2. CASE hosts' = hosts
    BY <2>1, <2>2
  <2>3. CASE c.op = "host_insert" /\ hosts' = [hosts EXCEPT ![c.label] = @ + 1]
    <3>1. c.label \in Hosts
      BY <1>3, <2>3 DEF HostOps
    <3>2. QED  BY <2>1, <2>3, <3>1
  <2>4. CASE hosts' = [hosts EXCEPT ![c.label] = IF @ > 0 THEN @ - 1 ELSE 0] /\ c.op = "host_delete"
    <3>1. c.label \in Hosts
      BY <1>3, <2>4 DEF HostOps
    <3>2. (IF hosts[c.label] > 0 THEN hosts[c.label] - 1 ELSE 0) \in Nat
      BY <2>1, <3>1
    <3>3. QED  BY <2>1, <2>4, <3>2
  <2>5. QED  BY <1>1, <2>2, <2>3, <2>4 DEF HostsMove
<1>5. services' \in [Services -> Nat]
  <2>1. services \in [Services -> Nat]
    BY DEF StoreOK
  <2>2. CASE services' = services
    BY <2>1, <2>2
  <2>3. CASE c.op = "service_insert" /\ services' = [services EXCEPT ![reqs[r].svc] = @ + 1]
    <3>1. reqs[r].svc \in Services
      BY <1>2, <2>3, FirstAt DEF OnboardOps
    <3>2. QED  BY <2>1, <2>3, <3>1
  <2>4. CASE \E s \in Services : services[s] > 0 /\ services' = [services EXCEPT ![s] = @ - 1]
    BY <2>1, <2>4
  <2>5. QED  BY <1>1, <2>2, <2>3, <2>4 DEF ServicesMove
<1>6. policies' \in [PolicyLabels -> [Content -> Nat]]
  <2>1. policies \in [PolicyLabels -> [Content -> Nat]]
    BY DEF StoreOK
  <2>2. NoDocs \in [Content -> Nat]
    BY DEF NoDocs
  <2>3. CASE policies' = policies
    BY <2>1, <2>3
  <2>4. CASE policies' = [policies EXCEPT ![c.label] = NoDocs]
    BY <2>1, <2>2, <2>4
  <2>5. CASE c.op = "insert_one" /\ policies' = [policies EXCEPT ![c.label][reqs[r].val] = @ + 1]
    <3>1. c.label \in PolicyLabels
      BY <1>3, <2>5 DEF HostOps
    <3>2. QED  BY <1>3, <2>1, <2>5, <3>1
  <2>6. CASE /\ c.op = "delete_one"
             /\ \E d \in Docs(c.label) : policies' = [policies EXCEPT ![c.label][d] = @ - 1]
    <3>1. c.label \in PolicyLabels
      BY <1>3, <2>6 DEF HostOps
    <3>2. PICK d \in Content : /\ policies[c.label][d] > 0
                               /\ policies' = [policies EXCEPT ![c.label][d] = @ - 1]
      BY <2>6 DEF Docs
    <3>3. policies[c.label][d] - 1 \in Nat
      BY <2>1, <3>1, <3>2
    <3>4. QED  BY <2>1, <3>1, <3>2, <3>3
  <2>7. CASE policies' = [label \in PolicyLabels |-> NoDocs]
    BY <2>2, <2>7
  <2>8. QED  BY <1>1, <2>3, <2>4, <2>5, <2>6, <2>7 DEF PoliciesMove
<1>7. last' \in [PolicyLabels -> Content \cup {None}]
  <2>1. last \in [PolicyLabels -> Content \cup {None}]
    BY DEF StoreOK
  <2>2. last' = last \/ last' = [last EXCEPT ![c.label] = reqs[r].val]
    BY <1>1 DEF PoliciesMove
  <2>3. QED  BY <1>3, <2>1, <2>2
<1>8. promised' \subseteq IDs
  <2>1. promised \subseteq IDs
    BY DEF StoreOK
  <2>2. \/ promised' \subseteq promised
        \/ c.op = "insert_one" /\ promised' = promised \cup Promises(r)
    BY <1>1 DEF PoliciesMove
  <2>3. CASE c.op = "insert_one" /\ reqs[r].kind = "service_on_board"
    <3>1. c.label \in IDs
      <4> DEFINE n == Len(reqs[r].todo)
                 id == new_ID(reqs[r].svc)
      <4>1. /\ n \in 1..8 /\ id \in IDs
            /\ n = 8 => c.op = "get_onboarding_policy"
            /\ n = 7 => c.op = "onboarded"
            /\ n = 6 => c.op = "compile_egress"
            /\ n = 5 => c.op = "compile_ingress"
            /\ n = 4 => c.op = "service_present"
            /\ n = 3 => c.op = "service_insert"
            /\ n = 2 => c.op = "delete_many"
            /\ n = 1 => c.label = id
        BY <1>2, <2>3, OnboardAt, CallAt
      <4>2. QED  BY <2>3, <4>1
    <3>2. QED  BY <1>3, <2>1, <2>2, <3>1 DEF Promises
  <2>4. CASE c.op # "insert_one" \/ reqs[r].kind # "service_on_board"
    BY <2>1, <2>2, <2>4 DEF Promises
  <2>5. QED  BY <2>3, <2>4
<1>9. requests' \in 0..MaxRequests
  BY <1>2 DEF StoreOK
<1>10. QED  BY <1>2, <1>4, <1>5, <1>6, <1>7, <1>8, <1>9 DEF StoreOK

LEMMA CallIs ==
  ASSUME NEW c \in Calls
  PROVE  c = Call(c.op, c.label)
BY DEF Calls, Call

\* A host is inserted by a handler that looked for it and, alone, did not find it.
LEMMA HostsSerialMove ==
  ASSUME StoreOK, Watched, HostsSerial, NEW r \in Slots, Moves(r)
  PROVE  HostsSerial'
<1>1. HandlerMove(r) /\ HostsMove(r) /\ exposed \subseteq exposed' /\ reqs[r].todo # <<>>
  BY DEF Moves, HandlerMove
<1> SUFFICES ASSUME NEW h \in Hosts, <<"host_insert", h>> \notin exposed'
             PROVE  /\ hosts'[h] <= 1
                    /\ \A p \in Slots : Next1(reqs'[p], "host_insert", h) => hosts'[h] = 0
  BY DEF HostsSerial
<1>2. /\ <<"host_insert", h>> \notin exposed /\ hosts[h] <= 1 /\ hosts[h] \in Nat
      /\ \A p \in Slots : Next1(reqs[p], "host_insert", h) => hosts[h] = 0
  BY <1>1 DEF HostsSerial, StoreOK
<1>3. /\ First(r) \in Calls /\ First(r) = Call(First(r).op, First(r).label)
      /\ First(r).op \in HostOps => First(r).label \in Hosts
  BY <1>1, FirstAt, CallIs
<1>4. \A p \in Slots : p # r => reqs'[p] = reqs[p]
  BY <1>1 DEF HandlerMove
<1>5. ASSUME NEW p \in Slots, Next1(reqs'[p], "host_insert", h) PROVE hosts[h] = 0
  <2>1. CASE p # r
    BY <1>2, <1>4, <1>5, <2>1
  <2>2. CASE p = r
    <3>1. First(r) = Call("host_present", h) /\ reqs'[r].todo # <<>>
      BY <1>1, <1>5, <2>2, AfterMove
    <3>2. First(r).op = "host_present" /\ First(r).label = h
      BY <3>1, CallAt
    <3>3. QED  BY <1>1, <3>1, <3>2 DEF HostsMove
  <2>3. QED  BY <2>1, <2>2
<1>6. hosts \in [Hosts -> Nat]
  BY DEF StoreOK
<1>7. CASE hosts' = hosts
  BY <1>2, <1>5, <1>7
<1>8. CASE First(r).op = "host_insert" /\ hosts' = [hosts EXCEPT ![First(r).label] = @ + 1]
  <2>1. CASE First(r).label = h
    <3>1. Next1(reqs[r], "host_insert", h)
      BY <1>1, <1>3, <1>8, <2>1 DEF Next1, First
    <3>2. hosts[h] = 0 /\ hosts'[h] = 1
      BY <1>2, <1>6, <1>8, <2>1, <3>1
    <3>3. ASSUME NEW p \in Slots, Next1(reqs'[p], "host_insert", h) PROVE FALSE
      <4>1. p # r
        BY <1>1, <1>8, <3>3, AfterMove DEF Next1
      <4>2. Next1(reqs[p], "host_insert", h)
        BY <1>4, <3>3, <4>1
      <4>3. QED  BY <1>2, <3>1, <4>1, <4>2 DEF Watched
    <3>4. QED  BY <3>2, <3>3
  <2>2. CASE First(r).label # h
    <3>1. hosts'[h] = hosts[h]
      BY <1>6, <1>8, <2>2
    <3>2. QED  BY <1>2, <1>5, <3>1
  <2>3. QED  BY <2>1, <2>2
<1>9. CASE /\ First(r).op = "host_delete"
           /\ hosts' = [hosts EXCEPT ![First(r).label] = IF @ > 0 THEN @ - 1 ELSE 0]
  <2>1. hosts'[h] = hosts[h] \/ hosts'[h] = IF hosts[h] > 0 THEN hosts[h] - 1 ELSE 0
    BY <1>6, <1>9
  <2>2. hosts'[h] <= 1 /\ (hosts[h] = 0 => hosts'[h] = 0)
    BY <1>2, <2>1
  <2>3. QED  BY <1>5, <2>2
<1>10. QED  BY <1>1, <1>7, <1>8, <1>9 DEF HostsMove

\* The calls left to an on-boarding that has looked for the service.
LEMMA AdmittedBefore ==
  ASSUME StoreOK, NEW r \in Slots, HandlerMove(r), NEW id, Admitted(reqs'[r], id)
  PROVE  Admitted(reqs[r], id) \/ (First(r) = Call("onboarded", id) /\ reqs'[r].todo # <<>>)
<1>1. /\ reqs[r].kind = "service_on_board" /\ new_ID(reqs[r].svc) = id
      /\ Len(reqs'[r].todo) \in 3..6 /\ reqs[r].todo # <<>>
  BY DEF Admitted, HandlerMove
<1>2. reqs'[r].todo # <<>>
  <2>1. Len(<<>>) = 0 /\ 0 \notin 3..6
    OBVIOUS
  <2>2. QED  BY <1>1, <2>1, Zenon
<1>3. Len(reqs'[r].todo) = Len(reqs[r].todo) - 1
  BY <1>1, <1>2, AfterMove
<1>4. /\ Len(reqs[r].todo) \in 1..8
      /\ Len(reqs[r].todo) = 7 => First(r) = Call("onboarded", id)
  BY <1>1, OnboardAt
<1>5. Len(reqs[r].todo) \in 3..6 \/ Len(reqs[r].todo) = 7
  <2> DEFINE m == Len(reqs'[r].todo)
             n == Len(reqs[r].todo)
  <2>1. m \in 3..6 /\ n \in 1..8 /\ m = n - 1
    BY <1>1, <1>3, <1>4
  <2> HIDE DEF m, n
  <2>2. n \in 3..6 \/ n = 7
    BY <2>1
  <2>3. QED  BY <2>2 DEF n
<1>6. QED  BY <1>1, <1>2, <1>4, <1>5 DEF Admitted

\* service::on_board inserts a service that it did not find, if alone.
LEMMA ServicesSerialMove ==
  ASSUME StoreOK, Watched, ServicesSerial, NEW r \in Slots, Moves(r)
  PROVE  ServicesSerial'
<1>1. HandlerMove(r) /\ ServicesMove(r) /\ exposed \subseteq exposed' /\ reqs[r].todo # <<>>
  BY DEF Moves, HandlerMove
<1> SUFFICES ASSUME NEW id \in IDs, <<"service_insert", id>> \notin exposed'
             PROVE  /\ \A s, t \in ServiceDocs(id)' : s = t /\ services'[s] = 1
                    /\ \A p \in Slots : Admitted(reqs'[p], id) => ServiceDocs(id)' = {}
  BY DEF ServicesSerial
<1>2. /\ <<"service_insert", id>> \notin exposed
      /\ \A s, t \in ServiceDocs(id) : s = t /\ services[s] = 1
      /\ \A p \in Slots : Admitted(reqs[p], id) => ServiceDocs(id) = {}
  BY <1>1 DEF ServicesSerial
<1>3. \A p \in Slots : p # r => reqs'[p] = reqs[p]
  BY <1>1 DEF HandlerMove
<1>4. ASSUME NEW p \in Slots, Admitted(reqs'[p], id) PROVE ServiceDocs(id) = {}
  <2>1. CASE p # r
    BY <1>2, <1>3, <1>4, <2>1
  <2>2. CASE p = r
    <3>1. Admitted(reqs[r], id) \/ (First(r) = Call("onboarded", id) /\ reqs'[r].todo # <<>>)
      BY <1>1, <1>4, <2>2, AdmittedBefore
    <3>2. CASE Admitted(reqs[r], id)
      BY <1>2, <3>2
    <3>3. CASE First(r) = Call("onboarded", id) /\ reqs'[r].todo # <<>>
      <4>1. First(r).op = "onboarded" /\ First(r).label = id
        BY <3>3, CallAt
      <4>2. QED  BY <1>1, <3>3, <4>1 DEF ServicesMove
    <3>4. QED  BY <3>1, <3>2, <3>3
  <2>3. QED  BY <2>1, <2>2
<1>5. services \in [Services -> Nat]
  BY DEF StoreOK
<1>6. /\ ServiceDocs(id) = {s \in Services : services[s] > 0 /\ new_ID(s) = id}
      /\ ServiceDocs(id)' = {s \in Services : services'[s] > 0 /\ new_ID(s) = id}
  BY DEF ServiceDocs
<1>7. CASE services' = services
  BY <1>2, <1>4, <1>6, <1>7
<1>8. CASE First(r).op = "service_insert" /\ services' = [services EXCEPT ![reqs[r].svc] = @ + 1]
  <2> DEFINE s == reqs[r].svc
             n == Len(reqs[r].todo)
  <2>1. reqs[r].kind = "service_on_board"
    BY <1>1, <1>8, FirstAt DEF OnboardOps
  <2>2. /\ n \in 1..8 /\ s \in Services
        /\ n = 8 => First(r).op = "get_onboarding_policy"
        /\ n = 7 => First(r).op = "onboarded"
        /\ n = 6 => First(r).op = "compile_egress"
        /\ n = 5 => First(r).op = "compile_ingress"
        /\ n = 4 => First(r).op = "service_present"
        /\ n = 2 => First(r).op = "delete_many"
        /\ n = 1 => First(r).op = "insert_one"
    BY <1>1, <2>1, OnboardAt, CallAt
  <2>3. n = 3
    BY <1>8, <2>2
  <2>4. CASE new_ID(s) = id
    <3>1. Admitted(reqs[r], id)
      BY <2>1, <2>3, <2>4 DEF Admitted
    <3>2. \A t \in Services : new_ID(t) = id => services[t] = 0
      BY <1>2, <1>5, <1>6, <3>1
    <3>3. services'[s] = 1 /\ \A t \in Services : t # s => services'[t] = services[t]
      BY <1>5, <1>8, <2>2, <2>4, <3>2
    <3>4. \A t \in ServiceDocs(id)' : t = s
      BY <1>6, <3>2, <3>3
    <3>5. ASSUME NEW p \in Slots, Admitted(reqs'[p], id) PROVE FALSE
      <4>1. CASE p = r
        <5>1. Len(reqs'[r].todo) \in 3..6 /\ reqs'[r].todo # <<>>
          <6>1. Len(reqs'[r].todo) \in 3..6
            BY <3>5, <4>1 DEF Admitted
          <6>2. Len(<<>>) = 0 /\ 0 \notin 3..6
            OBVIOUS
          <6>3. QED  BY <6>1, <6>2, Zenon
        <5>2. Len(reqs'[r].todo) = n - 1
          BY <1>1, <2>1, <5>1, AfterMove
        <5>3. QED  BY <2>3, <5>1, <5>2
      <4>2. CASE p # r
        <5>1. Admitted(reqs[p], id)
          BY <1>3, <3>5, <4>2
        <5>2. id \in PolicyLabels
          BY DEF PolicyLabels
        <5>3. QED  BY <1>2, <3>1, <4>2, <5>1, <5>2 DEF Watched
      <4>3. QED  BY <4>1, <4>2
    <3>6. QED  BY <3>3, <3>4, <3>5
  <2>5. CASE new_ID(s) # id
    <3>1. \A t \in Services : new_ID(t) = id => services'[t] = services[t]
      BY <1>5, <1>8, <2>5
    <3>2. ServiceDocs(id)' = ServiceDocs(id) /\ \A t \in ServiceDocs(id) : services'[t] = services[t]
      BY <1>6, <3>1
    <3>3. QED  BY <1>2, <1>4, <3>2
  <2>6. QED  BY <2>4, <2>5
<1>9. CASE \E s \in Services : services[s] > 0 /\ services' = [services EXCEPT ![s] = @ - 1]
  <2>1. \A t \in Services : services'[t] \in Nat /\ services'[t] <= services[t]
    BY <1>5, <1>9
  <2>2. \A t \in ServiceDocs(id)' : t \in ServiceDocs(id) /\ services'[t] > 0 /\ services'[t] \in Nat
                                      /\ services'[t] <= services[t]
    BY <1>5, <1>6, <2>1
  <2>3. \A t \in ServiceDocs(id)' : services'[t] = 1
    BY <1>2, <2>2
  <2>4. QED  BY <1>2, <1>4, <2>2, <2>3
<1>10. QED  BY <1>1, <1>7, <1>8, <1>9 DEF ServicesMove

\* A policy is inserted by a handler that, alone, has deleted what was there.
LEMMA PoliciesSerialMove ==
  ASSUME StoreOK, Watched, PoliciesSerial, NEW r \in Slots, Moves(r)
  PROVE  PoliciesSerial'
<1> DEFINE c == First(r)
<1>1. HandlerMove(r) /\ PoliciesMove(r) /\ exposed \subseteq exposed' /\ reqs[r].todo # <<>>
  BY DEF Moves, HandlerMove
<1> SUFFICES ASSUME NEW l \in PolicyLabels, <<"insert_one", l>> \notin exposed', NEW d \in Content
             PROVE  /\ policies'[l][d] > 0 => policies'[l][d] = 1 /\ d = last'[l]
                    /\ \A p \in Slots : Next1(reqs'[p], "insert_one", l) => policies'[l][d] = 0
  BY DEF PoliciesSerial
<1>2. /\ <<"insert_one", l>> \notin exposed
      /\ policies[l][d] > 0 => policies[l][d] = 1 /\ d = last[l]
      /\ \A p \in Slots : Next1(reqs[p], "insert_one", l) => policies[l][d] = 0
  BY <1>1 DEF PoliciesSerial
<1>3. /\ policies \in [PolicyLabels -> [Content -> Nat]] /\ policies[l][d] \in Nat
      /\ last \in [PolicyLabels -> Content \cup {None}] /\ reqs[r].val \in Content
  BY <1>1, FirstAt DEF StoreOK
<1>4. c = Call(c.op, c.label)
  BY <1>1, FirstAt, CallIs
<1>5. \A p \in Slots : p # r => reqs'[p] = reqs[p]
  BY <1>1 DEF HandlerMove
<1>6. \A p \in Slots : Next1(reqs'[p], "insert_one", l) =>
        \/ p # r /\ policies[l][d] = 0 /\ Next1(reqs[p], "insert_one", l)
        \/ p = r /\ c = Call("delete_many", l) /\ reqs'[r].todo # <<>>
  BY <1>1, <1>2, <1>5, AfterMove, ZenonT(90)
<1>7. NoDocs[d] = 0
  BY DEF NoDocs
<1> HIDE DEF c
<1>8. CASE policies' = policies /\ last' = last /\ (c.op = "delete_many" => reqs'[r].todo = <<>>)
  <2>1. \A p \in Slots : Next1(reqs'[p], "insert_one", l) => policies[l][d] = 0
    BY <1>6, <1>8, CallAt
  <2>2. QED  BY <1>2, <1>8, <2>1
<1>9. CASE /\ c.op = "delete_many" /\ policies' = [policies EXCEPT ![c.label] = NoDocs]
           /\ last' = last
  <2>1. CASE c.label = l
    <3>1. policies'[l][d] = 0
      BY <1>3, <1>7, <1>9, <2>1
    <3>2. QED  BY <3>1
  <2>2. CASE c.label # l
    <3>1. policies'[l][d] = policies[l][d]
      BY <1>3, <1>9, <2>2
    <3>2. \A p \in Slots : Next1(reqs'[p], "insert_one", l) => policies[l][d] = 0
      BY <1>6, <2>2, CallAt
    <3>3. QED  BY <1>2, <1>9, <3>1, <3>2
  <2>3. QED  BY <2>1, <2>2
<1>10. CASE /\ c.op = "insert_one"
            /\ policies' = [policies EXCEPT ![c.label][reqs[r].val] = @ + 1]
            /\ last' = [last EXCEPT ![c.label] = reqs[r].val]
  <2>1. CASE c.label = l
    <3>1. Next1(reqs[r], "insert_one", l)
      BY <1>1, <1>4, <1>10, <2>1 DEF Next1, First, c
    <3>2. policies[l][d] = 0
      BY <1>2, <3>1
    <3>3. last'[l] = reqs[r].val
      BY <1>3, <1>10, <2>1
    <3>4. policies'[l][d] = IF d = reqs[r].val THEN 1 ELSE 0
      <4>1. policies' = [policies EXCEPT ![l] = [policies[l] EXCEPT ![reqs[r].val] = @ + 1]]
        BY <1>10, <2>1
      <4>2. policies'[l] = [policies[l] EXCEPT ![reqs[r].val] = @ + 1]
        BY <1>3, <4>1
      <4>3. QED  BY <1>3, <3>2, <4>2
    <3>5. ASSUME NEW p \in Slots, Next1(reqs'[p], "insert_one", l) PROVE FALSE
      <4>1. p # r /\ Next1(reqs[p], "insert_one", l)
        BY <1>6, <1>10, <3>5, CallAt
      <4>2. QED  BY <1>2, <3>1, <4>1 DEF Watched
    <3>6. QED  BY <3>3, <3>4, <3>5
  <2>2. CASE c.label # l
    <3>1. policies'[l][d] = policies[l][d] /\ last'[l] = last[l]
      BY <1>3, <1>10, <2>2
    <3>2. \A p \in Slots : Next1(reqs'[p], "insert_one", l) => policies[l][d] = 0
      BY <1>6, <2>2, CallAt
    <3>3. QED  BY <1>2, <3>1, <3>2
  <2>3. QED  BY <2>1, <2>2
<1>11. CASE /\ c.op = "delete_one" /\ last' = last
            /\ \E e \in Docs(c.label) : policies' = [policies EXCEPT ![c.label][e] = @ - 1]
  <2>1. PICK e \in Content : /\ policies[c.label][e] > 0
                             /\ policies' = [policies EXCEPT ![c.label][e] = @ - 1]
    BY <1>11 DEF Docs
  <2>2. \/ policies'[l][d] = policies[l][d]
        \/ policies'[l][d] = policies[l][d] - 1 /\ policies[l][d] > 0
    <3>1. CASE c.label = l
      <4>1. policies' = [policies EXCEPT ![l] = [policies[l] EXCEPT ![e] = @ - 1]]
        BY <2>1, <3>1
      <4>2. policies'[l] = [policies[l] EXCEPT ![e] = @ - 1]
        BY <1>3, <4>1
      <4>3. QED  BY <1>3, <2>1, <3>1, <4>2
    <3>2. CASE c.label # l
      BY <1>3, <2>1, <3>2
    <3>3. QED  BY <3>1, <3>2
  <2>3. \A p \in Slots : Next1(reqs'[p], "insert_one", l) => policies[l][d] = 0
    BY <1>6, <1>11, CallAt
  <2>4. QED  BY <1>2, <1>3, <1>11, <2>2, <2>3
<1>12. CASE policies' = [label \in PolicyLabels |-> NoDocs] /\ last' = last
  <2>1. policies'[l][d] = 0
    BY <1>7, <1>12
  <2>2. QED  BY <2>1
<1>13. QED  BY <1>1, <1>8, <1>9, <1>10, <1>11, <1>12 DEF PoliciesMove, c

\* A promised policy is deleted only by the handler that inserts the next one.
LEMMA AvailableMove ==
  ASSUME StoreOK, Available, NEW r \in Slots, Moves(r)
  PROVE  Available'
<1> DEFINE c == First(r)
<1>1. HandlerMove(r) /\ PoliciesMove(r) /\ reqs[r].todo # <<>>
  BY DEF Moves, HandlerMove
<1> SUFFICES ASSUME NEW id \in promised'
             PROVE  Docs(id)' # {} \/ \E p \in Slots : Next1(reqs'[p], "insert_one", id)
  BY DEF Available
<1>2. /\ c = Call(c.op, c.label) /\ LabelOf(r) = c.label /\ reqs[r].val \in Content
      /\ c.op \notin HostOps => c.label \in PolicyLabels
  BY <1>1, FirstAt, CallIs
<1>3. \A p \in Slots : p # r => reqs'[p] = reqs[p]
  BY <1>1 DEF HandlerMove
<1>4. /\ policies \in [PolicyLabels -> [Content -> Nat]] /\ promised \subseteq IDs
      /\ IDs \subseteq PolicyLabels
  BY DEF StoreOK, PolicyLabels
<1>5. /\ Docs(id) = {d \in Content : policies[id][d] > 0}
      /\ Docs(id)' = {d \in Content : policies'[id][d] > 0}
  BY DEF Docs
<1>6. ASSUME id \in promised, Docs(id)' = Docs(id), c # Call("insert_one", id)
      PROVE  Docs(id)' # {} \/ \E p \in Slots : Next1(reqs'[p], "insert_one", id)
  <2>1. Docs(id) # {} \/ \E p \in Slots : Next1(reqs[p], "insert_one", id)
    BY <1>6 DEF Available
  <2>2. ASSUME NEW p \in Slots, Next1(reqs[p], "insert_one", id) PROVE p # r
    BY <1>6, <2>2 DEF Next1, First
  <2>3. QED  BY <1>3, <1>6, <2>1, <2>2
<1>7. CASE /\ policies' = policies /\ promised' \subseteq promised
           /\ c.op = "insert_one" => c.label \notin promised'
  <2>1. c # Call("insert_one", id)
    BY <1>7, CallAt
  <2>2. Docs(id)' = Docs(id)
    BY <1>5, <1>7
  <2>3. QED  BY <1>6, <1>7, <2>1, <2>2
<1>8. CASE /\ c.op = "delete_many" /\ reqs'[r].todo = Tail(reqs[r].todo)
           /\ policies' = [policies EXCEPT ![c.label] = NoDocs] /\ promised' = promised
  <2>1. CASE c.label = id
    BY <1>1, <1>8, <2>1, AfterMove
  <2>2. CASE c.label # id
    <3>1. policies'[id] = policies[id]
      BY <1>4, <1>8, <2>2
    <3>2. c # Call("insert_one", id)
      BY <2>2, CallAt
    <3>3. QED  BY <1>5, <1>6, <1>8, <3>1, <3>2
  <2>3. QED  BY <2>1, <2>2
<1>9. CASE /\ c.op = "insert_one"
           /\ policies' = [policies EXCEPT ![c.label][reqs[r].val] = @ + 1]
           /\ promised' = promised \cup Promises(r)
  <2>1. CASE c.label = id
    <3>1. id \in PolicyLabels
      BY <1>2, <1>9, <2>1 DEF HostOps
    <3>2. policies' = [policies EXCEPT ![id] = [policies[id] EXCEPT ![reqs[r].val] = @ + 1]]
      BY <1>9, <2>1
    <3>3. policies'[id] = [policies[id] EXCEPT ![reqs[r].val] = @ + 1]
      BY <1>4, <3>1, <3>2
    <3>4. policies'[id][reqs[r].val] > 0
      BY <1>2, <1>4, <3>1, <3>3
    <3>5. QED  BY <1>2, <1>5, <3>4
  <2>2. CASE c.label # id
    <3>1. id \in promised
      BY <1>2, <1>9, <2>2 DEF Promises
    <3>2. policies'[id] = policies[id]
      BY <1>4, <1>9, <2>2, <3>1
    <3>3. c # Call("insert_one", id)
      BY <2>2, CallAt
    <3>4. QED  BY <1>5, <1>6, <3>1, <3>2, <3>3
  <2>3. QED  BY <2>1, <2>2
<1>10. CASE /\ c.op = "delete_one" /\ promised' = promised \ {c.label}
            /\ \E d \in Docs(c.label) : policies' = [policies EXCEPT ![c.label][d] = @ - 1]
  <2>1. id \in promised /\ id # c.label
    BY <1>10
  <2>2. policies'[id] = policies[id]
    BY <1>4, <1>10, <2>1
  <2>3. c # Call("insert_one", id)
    BY <2>1, CallAt
  <2>4. QED  BY <1>5, <1>6, <2>1, <2>2, <2>3
<1>11. CASE promised' = {}
  BY <1>11
<1>12. QED  BY <1>1, <1>7, <1>8, <1>9, <1>10, <1>11 DEF PoliciesMove

\* An on-boarding goes on only if a policy was read, which was inserted before.
LEMMA FailsClosedMove ==
  ASSUME StoreOK, FailsClosed, NEW r \in Slots, Moves(r)
  PROVE  FailsClosed'
<1> DEFINE c == First(r)
           o == onboarding_policy_label
<1>1. /\ HandlerMove(r) /\ PoliciesMove(r) /\ ServicesMove(r) /\ reqs[r].todo # <<>>
      /\ HandlerOK(reqs[r])
  BY FirstAt DEF Moves, HandlerMove
<1>2. /\ reqs[r].val \in Content /\ None \notin Content /\ o \in PolicyLabels
  BY <1>1, FirstAt, CPAssumption DEF PolicyLabels
<1>3. /\ policies \in [PolicyLabels -> [Content -> Nat]] /\ last \in [PolicyLabels -> Content \cup {None}]
      /\ services \in [Services -> Nat]
  BY DEF StoreOK
<1>4. /\ Docs(o) = {d \in Content : policies[o][d] > 0}
      /\ Docs(o)' = {d \in Content : policies'[o][d] > 0}
  BY DEF Docs
<1> HIDE DEF o
<1>5. Docs(o) # {} => last[o] # None
  BY DEF FailsClosed, o
<1>6. /\ Docs(o)' # {} => last'[o] # None
      /\ last'[o] = None => last[o] = None
  <2>1. CASE policies' = policies /\ last' = last
    BY <1>4, <1>5, <2>1
  <2>2. CASE policies' = [policies EXCEPT ![c.label] = NoDocs] /\ last' = last
    <3>1. policies'[o] = policies[o] \/ policies'[o] = NoDocs
      BY <1>2, <1>3, <2>2
    <3>2. Docs(o)' = Docs(o) \/ Docs(o)' = {}
      BY <1>4, <3>1 DEF NoDocs
    <3>3. QED  BY <1>5, <2>2, <3>2
  <2>3. CASE /\ policies' = [policies EXCEPT ![c.label][reqs[r].val] = @ + 1]
             /\ last' = [last EXCEPT ![c.label] = reqs[r].val]
    <3>1. CASE c.label = o
      <4>1. last'[o] = reqs[r].val
        BY <1>2, <1>3, <2>3, <3>1
      <4>2. QED  BY <1>2, <4>1
    <3>2. CASE c.label # o
      <4>1. policies'[o] = policies[o] /\ last'[o] = last[o]
        BY <1>2, <1>3, <2>3, <3>2
      <4>2. QED  BY <1>4, <1>5, <4>1
    <3>3. QED  BY <3>1, <3>2
  <2>4. CASE /\ \E d \in Docs(c.label) : policies' = [policies EXCEPT ![c.label][d] = @ - 1]
             /\ last' = last
    <3>1. CASE c.label = o
      <4>1. Docs(o) # {}
        BY <2>4, <3>1
      <4>2. QED  BY <1>5, <2>4, <4>1
    <3>2. CASE c.label # o
      <4>1. policies'[o] = policies[o]
        BY <1>2, <1>3, <2>4, <3>2
      <4>2. QED  BY <1>4, <1>5, <2>4, <4>1
    <3>3. QED  BY <3>1, <3>2
  <2>5. CASE policies' = [label \in PolicyLabels |-> NoDocs] /\ last' = last
    <3>1. Docs(o)' = {}
      BY <1>2, <1>4, <2>5 DEF NoDocs
    <3>2. QED  BY <2>5, <3>1
  <2>6. QED  BY <1>1, <2>1, <2>2, <2>3, <2>4, <2>5 DEF PoliciesMove
<1>7. ASSUME last'[o] = None
      PROVE  /\ \A s \in Services : services'[s] = 0
             /\ \A p \in Slots : reqs'[p].kind = "service_on_board" => Len(reqs'[p].todo) \in {0, 8}
  <2>1. /\ Docs(o) = {} /\ \A s \in Services : services[s] = 0
        /\ \A p \in Slots : reqs[p].kind = "service_on_board" => Len(reqs[p].todo) \in {0, 8}
    BY <1>5, <1>6, <1>7 DEF FailsClosed, o
  <2>2. ASSUME reqs[r].kind = "service_on_board"
        PROVE  c.op = "get_onboarding_policy" /\ c.label = o /\ reqs'[r].todo = <<>>
    <3>1. Len(reqs[r].todo) \in 1..8 /\ Len(reqs[r].todo) \in {0, 8}
      BY <1>1, <2>1, <2>2, FirstAt
    <3>2. Len(reqs[r].todo) = 8
      <4>1. \A n \in 1..8 : n \in {0, 8} => n = 8
        OBVIOUS
      <4>2. QED  BY <3>1, <4>1, Zenon
    <3>3. c = Call("get_onboarding_policy", o)
      BY <1>1, <2>2, <3>2, OnboardAt DEF o
    <3>4. c.op = "get_onboarding_policy" /\ c.label = o
      BY <3>3, CallAt
    <3>5. QED  BY <1>1, <2>1, <3>4 DEF ServicesMove
  <2>3. services' = services
    <3>1. c.op # "service_insert"
      BY <1>1, <2>2, FirstAt DEF OnboardOps
    <3>2. ~\E s \in Services : services[s] > 0
      BY <2>1
    <3>3. QED  BY <1>1, <3>1, <3>2 DEF ServicesMove
  <2>4. \A p \in Slots : reqs'[p].kind = "service_on_board" => Len(reqs'[p].todo) \in {0, 8}
    <3>1. TAKE p \in Slots
    <3>2. CASE p # r
      BY <1>1, <2>1, <3>2 DEF HandlerMove
    <3>3. CASE p = r
      BY <1>1, <2>2, <3>3, EmptyAt DEF HandlerMove
    <3>4. QED  BY <3>2, <3>3
  <2>5. QED  BY <2>1, <2>3, <2>4
<1>8. QED  BY <1>6, <1>7 DEF FailsClosed, o

\* After its first reading of the global policy, an on-boarding is compiling.
LEMMA CompilingAt ==
  ASSUME StoreOK, NEW p \in Slots, reqs[p].kind = "service_on_board",
         Len(reqs[p].todo) \in 1..5
  PROVE  Compiling(reqs[p])
<1> DEFINE t == reqs[p].todo
           n == Len(t)
<1>1. /\ reqs[p].svc \in Services /\ t \in Seq(Calls)
      /\ \A i \in 1..n : t[i] = Script(reqs[p].svc)[8 - n + i]
  BY DEF StoreOK, HandlerOK, HandlerType, Scripted
<1>2. n \in 1..5 /\ t # <<>> /\ DOMAIN t = 1..n
  <2>1. Len(<<>>) = 0 /\ 0 \notin 1..5
    OBVIOUS
  <2>2. t # <<>>
    BY <2>1, Zenon
  <2>3. DOMAIN t = 1..n
    BY <1>1
  <2>4. QED  BY <2>2, <2>3
<1>3. \A k \in 4..8 : Script(reqs[p].svc)[k].op # "compile_egress"
  <2>1. \A k \in 4..8 : k = 4 \/ k = 5 \/ k = 6 \/ k = 7 \/ k = 8
    OBVIOUS
  <2>2. QED  BY <1>1, <2>1, ScriptAt, CallAt, SMTT(30)
<1>4. ASSUME NEW i \in 1..n PROVE t[i].op # "compile_egress"
  <2>1. \A m \in 1..5 : \A j \in 1..m : 8 - m + j \in 4..8
    OBVIOUS
  <2>2. 8 - n + i \in 4..8
    BY <1>2, <2>1, Zenon
  <2>3. QED  BY <1>1, <1>3, <2>2
<1>5. \A c \in Range(t) : c.op # "compile_egress"
  BY <1>2, <1>4 DEF Range
<1>6. QED  BY <1>2, <1>5 DEF Compiling

\* Who writes the global policy overtakes the on-boardings that compiled from it.
LEMMA Overtaking ==
  ASSUME StoreOK, NEW r \in Slots, Moves(r), policies' # policies, WritesGlobal(First(r)),
         NEW p \in Slots, reqs[p].kind = "service_on_board", Len(reqs[p].todo) \in 1..5
  PROVE  <<"compile", new_ID(reqs[p].svc)>> \in exposed'
<1>1. Overtaken(r) \subseteq exposed' /\ reqs[r].todo # <<>>
  BY DEF Moves, PoliciesMove, HandlerMove
<1>2. WritesGlobal(Head(reqs[r].todo))
  BY <1>1, FirstAt
<1>3. Overtaken(r) = {<<"compile", new_ID(reqs[q].svc)>> : q \in {x \in Slots : Compiling(reqs[x])}}
  BY <1>1, <1>2 DEF Overtaken
<1>4. Compiling(reqs[p])
  BY CompilingAt
<1>5. QED  BY <1>1, <1>3, <1>4

\* Nothing else changes the global policy.
LEMMA GlobalKept ==
  ASSUME StoreOK, NEW r \in Slots, Moves(r), policies' = policies \/ ~WritesGlobal(First(r))
  PROVE  GlobalPolicyRead' = GlobalPolicyRead
<1> DEFINE g == global_policy_label
           c == First(r)
<1>1. PoliciesMove(r) /\ g \in PolicyLabels /\ policies \in [PolicyLabels -> [Content -> Nat]]
  BY DEF Moves, StoreOK, PolicyLabels
<1>2. policies' = policies \/ (c.op # "drop_collection"
        /\ (c.op \in {"delete_many", "insert_one", "delete_one"} => c.label # g))
  BY DEF WritesGlobal
<1>3. policies'[g] = policies[g]
  <2>1. CASE policies' = policies
    BY <2>1
  <2>2. CASE policies' = [policies EXCEPT ![c.label] = NoDocs] /\ c.label # g
    BY <1>1, <2>2
  <2>3. CASE policies' = [policies EXCEPT ![c.label][reqs[r].val] = @ + 1] /\ c.label # g
    BY <1>1, <2>3
  <2>4. CASE /\ \E d \in Docs(c.label) : policies' = [policies EXCEPT ![c.label][d] = @ - 1]
             /\ c.label # g
    BY <1>1, <2>4
  <2>5. QED  BY <1>1, <1>2, <2>1, <2>2, <2>3, <2>4 DEF PoliciesMove
<1>4. Docs(g)' = Docs(g)
  BY <1>3 DEF Docs
<1>5. QED  BY <1>4 DEF GlobalPolicyRead

\* Unless saves of the global policy overlapped, there is one version of it.
LEMMA OneGlobal ==
  ASSUME StoreOK, PoliciesSerial, <<"insert_one", global_policy_label>> \notin exposed,
         NEW v \in GlobalPolicyRead, NEW w \in GlobalPolicyRead
  PROVE  v = w
<1>1. \A c, d \in Docs(global_policy_label) : c = d
  BY DEF PoliciesSerial, PolicyLabels, Docs
<1>2. QED  BY <1>1 DEF GlobalPolicyRead

\* A step adds at most the policy of its handler.
LEMMA DocsMove ==
  ASSUME StoreOK, NEW r \in Slots, Moves(r), NEW id \in PolicyLabels, NEW d \in Docs(id)'
  PROVE  d \in Docs(id) \/ (First(r) = Call("insert_one", id) /\ d = reqs[r].val)
<1> DEFINE c == First(r)
<1>1. PoliciesMove(r) /\ reqs[r].todo # <<>> /\ policies \in [PolicyLabels -> [Content -> Nat]]
  BY DEF Moves, StoreOK, HandlerMove
<1>2. d \in Content /\ policies'[id][d] > 0
  BY DEF Docs
<1>3. policies[id][d] > 0 => d \in Docs(id)
  BY <1>2 DEF Docs
<1>4. c = Call(c.op, c.label) /\ reqs[r].val \in Content
  BY <1>1, FirstAt, CallIs
<1>5. CASE policies' = policies
  BY <1>2, <1>3, <1>5
<1>6. CASE policies' = [policies EXCEPT ![c.label] = NoDocs]
  <2>1. policies'[id] = policies[id] \/ policies'[id] = NoDocs
    BY <1>1, <1>6
  <2>2. NoDocs[d] = 0
    BY <1>2 DEF NoDocs
  <2>3. QED  BY <1>2, <1>3, <2>1, <2>2
<1>7. CASE c.op = "insert_one" /\ policies' = [policies EXCEPT ![c.label][reqs[r].val] = @ + 1]
  <2>1. CASE c.label # id
    BY <1>1, <1>2, <1>3, <1>7, <2>1
  <2>2. CASE c.label = id
    <3>1. policies' = [policies EXCEPT ![id] = [policies[id] EXCEPT ![reqs[r].val] = @ + 1]]
      BY <1>7, <2>2
    <3>2. policies'[id] = [policies[id] EXCEPT ![reqs[r].val] = @ + 1]
      BY <1>1, <3>1
    <3>3. d # reqs[r].val => policies'[id][d] = policies[id][d]
      BY <1>1, <1>2, <1>4, <3>2
    <3>4. QED  BY <1>2, <1>3, <1>4, <1>7, <2>2, <3>3
  <2>3. QED  BY <2>1, <2>2
<1>8. CASE \E e \in Docs(c.label) : policies' = [policies EXCEPT ![c.label][e] = @ - 1]
  <2>1. PICK e \in Content : policies' = [policies EXCEPT ![c.label][e] = @ - 1]
    BY <1>8 DEF Docs
  <2>2. CASE c.label # id
    BY <1>1, <1>2, <1>3, <2>1, <2>2
  <2>3. CASE c.label = id
    <3>1. policies' = [policies EXCEPT ![id] = [policies[id] EXCEPT ![e] = @ - 1]]
      BY <2>1, <2>3
    <3>2. policies'[id] = [policies[id] EXCEPT ![e] = @ - 1]
      BY <1>1, <3>1
    <3>3. policies[id][d] \in Nat /\ (policies'[id][d] = policies[id][d] \/ policies'[id][d] = policies[id][d] - 1)
      BY <1>1, <1>2, <3>2
    <3>4. policies[id][d] > 0
      BY <1>2, <3>3
    <3>5. QED  BY <1>3, <3>4
  <2>4. QED  BY <2>2, <2>3
<1>9. CASE policies' = [label \in PolicyLabels |-> NoDocs]
  BY <1>2, <1>9 DEF NoDocs
<1>10. QED  BY <1>1, <1>5, <1>6, <1>7, <1>8, <1>9 DEF PoliciesMove

\* What is compiled and saved stays of one version.
LEMMA VersionedMove ==
  ASSUME StoreOK, PoliciesSerial, Versioned, NEW r \in Slots, Moves(r)
  PROVE  Versioned'
<1>1. /\ HandlerMove(r) /\ ValMove(r) /\ exposed \subseteq exposed' /\ reqs[r].todo # <<>>
      /\ reqs'[r].kind = reqs[r].kind /\ reqs'[r].svc = reqs[r].svc
  BY DEF Moves, HandlerMove
<1> SUFFICES ASSUME NEW id \in IDs, <<"compile", id>> \notin exposed'
             PROVE  /\ \A p \in Slots : reqs'[p].kind = "service_on_board" /\ new_ID(reqs'[p].svc) = id =>
                         /\ Len(reqs'[p].todo) \in 1..5 => reqs'[p].val.egress \in GlobalPolicyRead'
                         /\ Len(reqs'[p].todo) \in 1..4 => reqs'[p].val.ingress \in GlobalPolicyRead'
                    /\ <<"insert_one", global_policy_label>> \notin exposed' =>
                         \A c \in Docs(id)' : c.egress = c.ingress
  BY DEF Versioned
<1>2. /\ \A p \in Slots : reqs[p].kind = "service_on_board" /\ new_ID(reqs[p].svc) = id =>
           /\ Len(reqs[p].todo) \in 1..5 => reqs[p].val.egress \in GlobalPolicyRead
           /\ Len(reqs[p].todo) \in 1..4 => reqs[p].val.ingress \in GlobalPolicyRead
      /\ <<"insert_one", global_policy_label>> \notin exposed =>
           \A c \in Docs(id) : c.egress = c.ingress
  BY <1>1 DEF Versioned
<1>3. ASSUME NEW p \in Slots, reqs[p].kind = "service_on_board", new_ID(reqs[p].svc) = id,
             Len(reqs[p].todo) \in 1..5
      PROVE  GlobalPolicyRead' = GlobalPolicyRead
  <2>1. policies' = policies \/ ~WritesGlobal(First(r))
    BY <1>3, Overtaking
  <2>2. QED  BY <2>1, GlobalKept
<1>4. ASSUME NEW p \in Slots, reqs'[p].kind = "service_on_board", new_ID(reqs'[p].svc) = id
      PROVE  /\ Len(reqs'[p].todo) \in 1..5 => reqs'[p].val.egress \in GlobalPolicyRead'
             /\ Len(reqs'[p].todo) \in 1..4 => reqs'[p].val.ingress \in GlobalPolicyRead'
  <2>1. CASE p # r
    <3>1. reqs'[p] = reqs[p]
      BY <1>1, <2>1 DEF HandlerMove
    <3>2. \A n : n \in 1..4 => n \in 1..5
      OBVIOUS
    <3>3. Len(reqs[p].todo) \in 1..5 => GlobalPolicyRead' = GlobalPolicyRead
      BY <1>3, <1>4, <3>1
    <3>4. QED  BY <1>2, <1>4, <3>1, <3>2, <3>3
  <2>2. CASE p = r
    <3> DEFINE m == Len(reqs'[r].todo)
               n == Len(reqs[r].todo)
    <3>1. reqs[r].kind = "service_on_board" /\ new_ID(reqs[r].svc) = id
      BY <1>1, <1>4, <2>2
    <3>2. /\ n \in 1..8
          /\ n = 6 => First(r) = Call("compile_egress", global_policy_label)
          /\ n = 5 => First(r) = Call("compile_ingress", global_policy_label)
          /\ n = 4 => First(r) = Call("service_present", id)
          /\ n = 3 => First(r) = Call("service_insert", id)
          /\ n = 2 => First(r) = Call("delete_many", id)
      BY <1>1, <3>1, OnboardAt
    <3> SUFFICES ASSUME m \in 1..5
                 PROVE  /\ reqs'[r].val.egress \in GlobalPolicyRead'
                        /\ m \in 1..4 => reqs'[r].val.ingress \in GlobalPolicyRead'
      <4>1. \A i : i \in 1..4 => i \in 1..5
        OBVIOUS
      <4>2. QED  BY <2>2, <4>1
    <3>3. reqs'[r].todo # <<>>
      <4>1. Len(<<>>) = 0 /\ 0 \notin 1..5
        OBVIOUS
      <4>2. QED  BY <4>1, Zenon
    <3>4. m = n - 1
      BY <1>1, <3>1, <3>3, AfterMove
    <3> HIDE DEF m, n
    <3>5. n = 6 \/ n = 5 \/ n = 4 \/ n = 3 \/ n = 2
      BY <3>2, <3>4
    <3>6. CASE n = 6
      <4>1. First(r).op = "compile_egress"
        BY <3>2, <3>6, CallAt
      <4>2. ~WritesGlobal(First(r))
        BY <4>1 DEF WritesGlobal
      <4>3. GlobalPolicyRead' = GlobalPolicyRead
        BY <4>2, GlobalKept
      <4>4. reqs'[r].val.egress \in GlobalPolicyRead
        BY <1>1, <3>1, <3>3, <4>1 DEF ValMove
      <4>5. m \notin 1..4
        BY <3>4, <3>6
      <4>6. QED  BY <4>3, <4>4, <4>5
    <3>7. CASE n = 5
      <4>1. First(r).op = "compile_ingress"
        BY <3>2, <3>7, CallAt
      <4>2. n \in 1..5
        BY <3>7
      <4>3. GlobalPolicyRead' = GlobalPolicyRead /\ reqs[r].val.egress \in GlobalPolicyRead
        BY <1>2, <1>3, <3>1, <4>2 DEF n
      <4>4. reqs'[r].val.egress = reqs[r].val.egress /\ reqs'[r].val.ingress \in GlobalPolicyRead
        BY <1>1, <3>1, <3>3, <4>1 DEF ValMove
      <4>5. QED  BY <4>3, <4>4
    <3>8. CASE n \in {2, 3, 4}
      <4>1. First(r).op \notin {"compile_egress", "compile_ingress"}
        BY <3>2, <3>8, CallAt
      <4>2. n \in 1..5 /\ n \in 1..4
        BY <3>8
      <4>3. /\ GlobalPolicyRead' = GlobalPolicyRead /\ reqs[r].val.egress \in GlobalPolicyRead
            /\ reqs[r].val.ingress \in GlobalPolicyRead
        BY <1>2, <1>3, <3>1, <4>2 DEF n
      <4>4. reqs'[r].val = reqs[r].val
        BY <1>1, <4>1 DEF ValMove
      <4>5. QED  BY <4>3, <4>4
    <3>9. QED  BY <3>5, <3>6, <3>7, <3>8
  <2>3. QED  BY <2>1, <2>2
<1>5. ASSUME <<"insert_one", global_policy_label>> \notin exposed', NEW d \in Docs(id)'
      PROVE  d.egress = d.ingress
  <2>1. CASE d \in Docs(id)
    BY <1>1, <1>2, <1>5, <2>1
  <2>2. CASE First(r) = Call("insert_one", id) /\ d = reqs[r].val
    <3>1. CASE reqs[r].kind # "service_on_board"
      BY <2>2, <3>1 DEF StoreOK, HandlerOK, Scripted
    <3>2. CASE reqs[r].kind = "service_on_board"
      <4> DEFINE n == Len(reqs[r].todo)
      <4>1. First(r).op = "insert_one" /\ First(r).label = id
        BY <2>2, CallAt
      <4>2. n = 1 /\ new_ID(reqs[r].svc) = id
        <5>1. \A k \in 1..8 : k = 1 \/ k = 2 \/ k = 3 \/ k = 4 \/ k = 5 \/ k = 6 \/ k = 7 \/ k = 8
          OBVIOUS
        <5>2. n \in 1..8
          BY <1>1, <3>2, OnboardAt
        <5>3. /\ n = 8 => First(r).op = "get_onboarding_policy"
              /\ n = 7 => First(r).op = "onboarded"
              /\ n = 6 => First(r).op = "compile_egress"
              /\ n = 5 => First(r).op = "compile_ingress"
              /\ n = 4 => First(r).op = "service_present"
              /\ n = 3 => First(r).op = "service_insert"
              /\ n = 2 => First(r).op = "delete_many"
              /\ n = 1 => First(r).label = new_ID(reqs[r].svc)
          BY <1>1, <3>2, OnboardAt, CallAt
        <5> HIDE DEF n
        <5>4. n = 1
          BY <4>1, <5>1, <5>2, <5>3
        <5>5. QED  BY <4>1, <5>3, <5>4
      <4>3. n \in 1..5 /\ n \in 1..4
        BY <4>2
      <4>4. reqs[r].val.egress \in GlobalPolicyRead /\ reqs[r].val.ingress \in GlobalPolicyRead
        BY <1>2, <3>2, <4>2, <4>3
      <4>5. QED  BY <1>1, <1>5, <2>2, <4>4, OneGlobal
    <3>3. QED  BY <3>1, <3>2
  <2>3. QED  BY <2>1, <2>2, DocsMove DEF PolicyLabels
<1>6. QED  BY <1>4, <1>5

-----------------------------------------------------------------------------
\* Counting handlers.
LEMMA PendingAt ==
  ASSUME NEW P \in SUBSET Slots, NEW Q, NEW r \in Slots
  PROVE  /\ Cardinality(P) \in Nat
         /\ Q \subseteq P =>
              /\ Cardinality(Q) \in Nat /\ Cardinality(Q) <= Cardinality(P)
              /\ r \in P /\ r \notin Q => Cardinality(Q) + 1 <= Cardinality(P)
         /\ Q \subseteq P \cup {r} =>
              Cardinality(Q) \in Nat /\ Cardinality(Q) <= Cardinality(P) + 1
<1>1. IsFiniteSet(P) /\ Cardinality(P) \in Nat
  BY CPAssumption, FS_Subset, FS_CardinalityType
<1>2. ASSUME Q \subseteq P
      PROVE  Cardinality(Q) \in Nat /\ Cardinality(Q) <= Cardinality(P)
  BY <1>1, <1>2, FS_Subset, FS_CardinalityType
<1>3. ASSUME Q \subseteq P, r \in P, r \notin Q
      PROVE  Cardinality(Q) + 1 <= Cardinality(P)
  <2>1. IsFiniteSet(P \ {r}) /\ Cardinality(P \ {r}) = Cardinality(P) - 1
    BY <1>1, <1>3, FS_RemoveElement
  <2>2. Q \subseteq P \ {r}
    BY <1>3
  <2>3. Cardinality(Q) <= Cardinality(P \ {r}) /\ Cardinality(Q) \in Nat
    BY <2>1, <2>2, FS_Subset, FS_CardinalityType
  <2>4. QED  BY <1>1, <2>1, <2>3
<1>4. ASSUME Q \subseteq P \cup {r}
      PROVE  Cardinality(Q) \in Nat /\ Cardinality(Q) <= Cardinality(P) + 1
  <2>1. /\ IsFiniteSet(P \cup {r})
        /\ Cardinality(P \cup {r}) = Cardinality(P) \/ Cardinality(P \cup {r}) = Cardinality(P) + 1
    BY <1>1, FS_AddElement
  <2>2. Cardinality(Q) <= Cardinality(P \cup {r}) /\ Cardinality(Q) \in Nat
    BY <1>4, <2>1, FS_Subset, FS_CardinalityType
  <2>3. QED  BY <1>1, <2>1, <2>2
<1>5. QED  BY <1>1, <1>2, <1>3, <1>4

LEMMA CountedMove ==
  ASSUME StoreOK, Counted, NEW r \in Slots, Moves(r)
  PROVE  Counted'
<1>1. /\ HandlerMove(r) /\ HostsMove(r) /\ ServicesMove(r) /\ reqs[r].todo # <<>>
      /\ requests' = requests /\ reqs'[r].kind = reqs[r].kind /\ reqs'[r].svc = reqs[r].svc
      /\ \A p \in Slots : p # r => reqs'[p] = reqs[p]
  BY DEF Moves, HandlerMove
<1>2. requests \in Nat /\ hosts \in [Hosts -> Nat] /\ services \in [Services -> Nat]
  BY CPAssumption DEF StoreOK
<1>3. First(r) = Call(First(r).op, First(r).label)
  BY <1>1, FirstAt, CallIs
<1>4. ASSUME NEW h \in Hosts PROVE hosts'[h] + Cardinality(HostsPending(h)') <= requests
  <2> DEFINE P == HostsPending(h)
             Q == HostsPending(h)'
  <2>1. P \in SUBSET Slots /\ Q \in SUBSET Slots
    BY DEF HostsPending
  <2>2. ASSUME NEW p \in Q PROVE p \in P
    <3>1. CASE p # r
      BY <1>1, <2>2, <3>1 DEF HostsPending
    <3>2. CASE p = r
      <4>1. \E i \in 1..Len(reqs'[r].todo) : reqs'[r].todo[i] = Call("host_insert", h)
        BY <2>2, <3>2 DEF HostsPending
      <4>2. \E i \in 1..Len(reqs[r].todo) : reqs[r].todo[i] = Call("host_insert", h)
        BY <1>1, <4>1, AfterMove, CallAt
      <4>3. QED  BY <3>2, <4>2 DEF HostsPending
    <3>3. QED  BY <3>1, <3>2
  <2>3. \/ hosts'[h] \in Nat /\ hosts'[h] <= hosts[h]
        \/ hosts'[h] = hosts[h] + 1 /\ r \in P /\ r \notin Q
    <3>1. CASE hosts' = hosts
      BY <1>2, <3>1
    <3>2. CASE First(r).op = "host_insert" /\ hosts' = [hosts EXCEPT ![First(r).label] = @ + 1]
      <4>1. CASE First(r).label # h
        BY <1>2, <3>2, <4>1
      <4>2. CASE First(r).label = h
        <5>1. reqs[r].todo[1] = Call("host_insert", h)
          BY <1>3, <3>2, <4>2 DEF First
        <5>2. 1 \in 1..Len(reqs[r].todo)
          <6>1. reqs[r].todo \in Seq(Calls)
            BY DEF StoreOK, HandlerType
          <6>2. QED  BY <1>1, <6>1
        <5>3. r \in P
          BY <5>1, <5>2 DEF HostsPending
        <5>4. reqs'[r].todo = <<>>
          BY <1>1, <3>2, AfterMove
        <5>5. r \notin Q
          <6>1. ~\E i \in 1..Len(reqs'[r].todo) : TRUE
            BY <5>4, EmptyAt
          <6>2. QED  BY <6>1 DEF HostsPending
        <5>6. QED  BY <1>2, <3>2, <4>2, <5>3, <5>5
      <4>3. QED  BY <4>1, <4>2
    <3>3. CASE hosts' = [hosts EXCEPT ![First(r).label] = IF @ > 0 THEN @ - 1 ELSE 0]
      BY <1>2, <3>3
    <3>4. QED  BY <1>1, <3>1, <3>2, <3>3 DEF HostsMove
  <2>4. hosts[h] + Cardinality(P) <= requests
    BY DEF Counted
  <2>5. /\ Cardinality(P) \in Nat /\ Cardinality(Q) \in Nat /\ Cardinality(Q) <= Cardinality(P)
        /\ r \in P /\ r \notin Q => Cardinality(Q) + 1 <= Cardinality(P)
    <3> HIDE DEF P, Q
    <3>1. QED  BY <2>1, <2>2, PendingAt
  <2> HIDE DEF P, Q
  <2>6. hosts'[h] + Cardinality(Q) <= requests
    BY <1>2, <2>3, <2>4, <2>5
  <2>7. QED  BY <2>6 DEF Q
<1>5. ASSUME NEW s \in Services PROVE services'[s] + Cardinality(ServicesPending(s)') <= requests
  <2> DEFINE P == ServicesPending(s)
             Q == ServicesPending(s)'
             m == Len(reqs'[r].todo)
             n == Len(reqs[r].todo)
  <2>1. P \in SUBSET Slots /\ Q \in SUBSET Slots
    BY DEF ServicesPending
  <2>2. ASSUME reqs[r].kind = "service_on_board" PROVE n \in 1..8 /\ (m = 0 \/ m = n - 1)
    BY <1>1, <2>2, OnboardAt, AfterMove, EmptyAt
  <2>3. \A i \in 1..8 : \A j : j >= 3 /\ (j = 0 \/ j = i - 1) => i >= 3 /\ i # 3
    OBVIOUS
  <2>4. ASSUME NEW p \in Q PROVE p \in P /\ (p = r => n # 3)
    <3>1. CASE p # r
      BY <1>1, <2>4, <3>1 DEF ServicesPending
    <3>2. CASE p = r
      <4>1. reqs[r].kind = "service_on_board" /\ reqs[r].svc = s /\ m >= 3
        BY <1>1, <2>4, <3>2 DEF ServicesPending
      <4>2. n >= 3 /\ n # 3
        BY <2>2, <2>3, <4>1, Zenon
      <4>3. QED  BY <3>2, <4>1, <4>2 DEF ServicesPending
    <3>3. QED  BY <3>1, <3>2
  <2>5. \/ services'[s] \in Nat /\ services'[s] <= services[s]
        \/ services'[s] = services[s] + 1 /\ r \in P /\ r \notin Q
    <3>1. CASE services' = services
      BY <1>2, <3>1
    <3>2. CASE First(r).op = "service_insert" /\ services' = [services EXCEPT ![reqs[r].svc] = @ + 1]
      <4>1. CASE reqs[r].svc # s
        BY <1>2, <3>2, <4>1
      <4>2. CASE reqs[r].svc = s
        <5>1. reqs[r].kind = "service_on_board"
          BY <1>1, <3>2, FirstAt DEF OnboardOps
        <5>2. n = 3
          <6>1. \A k \in 1..8 : k = 1 \/ k = 2 \/ k = 3 \/ k = 4 \/ k = 5 \/ k = 6 \/ k = 7 \/ k = 8
            OBVIOUS
          <6>2. /\ n = 8 => First(r).op = "get_onboarding_policy"
                /\ n = 7 => First(r).op = "onboarded"
                /\ n = 6 => First(r).op = "compile_egress"
                /\ n = 5 => First(r).op = "compile_ingress"
                /\ n = 4 => First(r).op = "service_present"
                /\ n = 2 => First(r).op = "delete_many"
                /\ n = 1 => First(r).op = "insert_one"
            BY <1>1, <5>1, OnboardAt, CallAt
          <6>3. n \in 1..8
            BY <2>2, <5>1
          <6> HIDE DEF n
          <6>4. QED  BY <3>2, <6>1, <6>2, <6>3
        <5>3. n >= 3
          BY <5>2
        <5>4. r \in P /\ r \notin Q
          BY <2>4, <4>2, <5>1, <5>2, <5>3 DEF ServicesPending
        <5>5. QED  BY <1>2, <3>2, <4>2, <5>4
      <4>3. QED  BY <4>1, <4>2
    <3>3. CASE \E t \in Services : services[t] > 0 /\ services' = [services EXCEPT ![t] = @ - 1]
      BY <1>2, <3>3
    <3>4. QED  BY <1>1, <3>1, <3>2, <3>3 DEF ServicesMove
  <2>6. services[s] + Cardinality(P) <= requests
    BY DEF Counted
  <2>7. /\ Cardinality(P) \in Nat /\ Cardinality(Q) \in Nat /\ Cardinality(Q) <= Cardinality(P)
        /\ r \in P /\ r \notin Q => Cardinality(Q) + 1 <= Cardinality(P)
    <3> HIDE DEF P, Q
    <3>1. QED  BY <2>1, <2>4, PendingAt
  <2> HIDE DEF P, Q
  <2>8. services'[s] + Cardinality(Q) <= requests
    BY <1>2, <2>5, <2>6, <2>7
  <2>9. QED  BY <2>8 DEF Q
<1>6. QED  BY <1>1, <1>4, <1>5 DEF Counted

\* A database call, done or failed, keeps the invariant.
LEMMA MovesKeep ==
  ASSUME CPInv, NEW r \in Slots, Moves(r)
  PROVE  CPInv'
<1>1. /\ StoreOK /\ Watched /\ HostsSerial /\ ServicesSerial /\ PoliciesSerial /\ Available
      /\ FailsClosed /\ Versioned /\ Counted
  BY DEF CPInv
<1>2. StoreOK'
  BY <1>1, StoreMove
<1>3. Watched'
  <2>1. HandlerMove(r) /\ Overlaps(reqs') \subseteq exposed'
    BY DEF Moves, HandlerMove
  <2>2. QED  BY <1>1, <2>1, AfterMove, WatchedStep
<1>4. HostsSerial' /\ ServicesSerial' /\ PoliciesSerial'
  BY <1>1, HostsSerialMove, ServicesSerialMove, PoliciesSerialMove
<1>5. Available' /\ FailsClosed' /\ Versioned' /\ Counted'
  BY <1>1, AvailableMove, FailsClosedMove, VersionedMove, CountedMove
<1>6. QED  BY <1>2, <1>3, <1>4, <1>5 DEF CPInv

\* A request that arrives has looked for nothing yet and changes no document.
LEMMA ReceiveKeeps ==
  ASSUME CPInv, NEW r \in Slots, Receive(r)
  PROVE  CPInv'
<1>1. /\ StoreOK /\ Watched /\ HostsSerial /\ ServicesSerial /\ PoliciesSerial /\ Available
      /\ FailsClosed /\ Versioned /\ Counted
  BY DEF CPInv
<1>2. PICK q \in Handlers : Becomes(r, q)
  BY DEF Receive
<1>3. /\ HandlerOK(q) /\ q \in HandlerType /\ q.todo \in Seq(Calls) /\ q.todo # <<>>
      /\ q.todo[1].op \notin {"host_insert", "insert_one"}
      /\ q.kind = "service_on_board" => Len(q.todo) = 8
  BY <1>2, HandlersArrive DEF Arrived, HandlerOK, HandlerType
<1>4. /\ reqs \in [Slots -> HandlerType] /\ reqs' = [reqs EXCEPT ![r] = q]
      /\ exposed \subseteq exposed' /\ Overlaps(reqs') \subseteq exposed'
  BY <1>1, <1>2 DEF Becomes, StoreOK
<1>5. reqs'[r] = q /\ \A p \in Slots : p # r => reqs'[p] = reqs[p]
  BY <1>4
<1>6. /\ reqs[r].todo = <<>> /\ requests < MaxRequests /\ requests' = requests + 1
      /\ hosts' = hosts /\ services' = services /\ policies' = policies /\ last' = last
      /\ promised' = promised
  BY DEF Receive
<1>7. /\ \A l : ~Next1(reqs'[r], "host_insert", l) /\ ~Next1(reqs'[r], "insert_one", l)
      /\ \A l : ~Admitted(reqs'[r], l)
  <2>1. \A l : ~Next1(q, "host_insert", l) /\ ~Next1(q, "insert_one", l)
    BY <1>3, CallAt DEF Next1
  <2>2. \A l : ~Admitted(q, l)
    <3>1. 8 \notin 3..6
      OBVIOUS
    <3>2. QED  BY <1>3, <3>1, Zenon DEF Admitted
  <2>3. QED  BY <1>5, <2>1, <2>2
<1>8. \A l : Docs(l)' = Docs(l) /\ ServiceDocs(l)' = ServiceDocs(l)
  BY <1>6 DEF Docs, ServiceDocs
<1>9. GlobalPolicyRead' = GlobalPolicyRead
  BY <1>8 DEF GlobalPolicyRead
<1>10. \A p \in Slots : HandlerOK(reqs'[p])
  BY <1>1, <1>3, <1>5 DEF StoreOK
<1>11. StoreOK'
  <2>1. reqs' \in [Slots -> HandlerType]
    BY <1>3, <1>4
  <2>2. requests' \in 0..MaxRequests
    BY <1>1, <1>6, CPAssumption DEF StoreOK
  <2>3. QED  BY <1>1, <1>6, <1>10, <2>1, <2>2 DEF StoreOK
<1>12. Watched'
  BY <1>4, <1>10, WatchedStep
<1>13. HostsSerial'
  BY <1>1, <1>4, <1>5, <1>6, <1>7 DEF HostsSerial
<1>14. ServicesSerial'
  BY <1>1, <1>4, <1>5, <1>6, <1>7, <1>8 DEF ServicesSerial
<1>15. PoliciesSerial'
  BY <1>1, <1>4, <1>5, <1>6, <1>7 DEF PoliciesSerial
<1>16. Available'
  <2> SUFFICES ASSUME NEW id \in promised
               PROVE  Docs(id)' # {} \/ \E p \in Slots : Next1(reqs'[p], "insert_one", id)
    BY <1>6 DEF Available
  <2>1. Docs(id) # {} \/ \E p \in Slots : Next1(reqs[p], "insert_one", id)
    BY <1>1 DEF Available
  <2>2. ~Next1(reqs[r], "insert_one", id)
    BY <1>6 DEF Next1
  <2>3. QED  BY <1>5, <1>8, <2>1, <2>2
<1>17. FailsClosed'
  <2>1. ASSUME last[onboarding_policy_label] = None, NEW p \in Slots,
               reqs'[p].kind = "service_on_board"
        PROVE  Len(reqs'[p].todo) \in {0, 8}
    <3>1. CASE p = r
      BY <1>3, <1>5, <2>1, <3>1
    <3>2. CASE p # r
      BY <1>1, <1>5, <2>1, <3>2 DEF FailsClosed
    <3>3. QED  BY <3>1, <3>2
  <2>2. QED  BY <1>1, <1>6, <1>8, <2>1 DEF FailsClosed
<1>18. Versioned'
  <2> SUFFICES ASSUME NEW id \in IDs, <<"compile", id>> \notin exposed'
               PROVE  /\ \A p \in Slots : reqs'[p].kind = "service_on_board" /\ new_ID(reqs'[p].svc) = id =>
                           /\ Len(reqs'[p].todo) \in 1..5 => reqs'[p].val.egress \in GlobalPolicyRead'
                           /\ Len(reqs'[p].todo) \in 1..4 => reqs'[p].val.ingress \in GlobalPolicyRead'
                      /\ <<"insert_one", global_policy_label>> \notin exposed' =>
                           \A c \in Docs(id)' : c.egress = c.ingress
    BY DEF Versioned
  <2>1. /\ \A p \in Slots : reqs[p].kind = "service_on_board" /\ new_ID(reqs[p].svc) = id =>
             /\ Len(reqs[p].todo) \in 1..5 => reqs[p].val.egress \in GlobalPolicyRead
             /\ Len(reqs[p].todo) \in 1..4 => reqs[p].val.ingress \in GlobalPolicyRead
        /\ <<"insert_one", global_policy_label>> \notin exposed =>
             \A c \in Docs(id) : c.egress = c.ingress
    BY <1>1, <1>4 DEF Versioned
  <2>2. 8 \notin 1..5 /\ 8 \notin 1..4
    OBVIOUS
  <2>3. reqs'[r].kind = "service_on_board" => Len(reqs'[r].todo) = 8
    BY <1>3, <1>5
  <2>4. QED  BY <1>4, <1>5, <1>8, <1>9, <2>1, <2>2, <2>3
<1>19. Counted'
  <2>1. requests \in Nat /\ hosts \in [Hosts -> Nat] /\ services \in [Services -> Nat]
    BY <1>1, CPAssumption DEF StoreOK
  <2>2. ASSUME NEW h \in Hosts PROVE hosts'[h] + Cardinality(HostsPending(h)') <= requests'
    <3> DEFINE P == HostsPending(h)
               Q == HostsPending(h)'
    <3>1. P \in SUBSET Slots /\ Q \subseteq P \cup {r}
      BY <1>5 DEF HostsPending
    <3>2. hosts[h] + Cardinality(P) <= requests
      BY <1>1 DEF Counted
    <3> HIDE DEF P, Q
    <3>3. Cardinality(P) \in Nat /\ Cardinality(Q) \in Nat /\ Cardinality(Q) <= Cardinality(P) + 1
      BY <3>1, PendingAt
    <3>4. hosts'[h] + Cardinality(Q) <= requests'
      BY <1>6, <2>1, <3>2, <3>3
    <3>5. QED  BY <3>4 DEF Q
  <2>3. ASSUME NEW s \in Services PROVE services'[s] + Cardinality(ServicesPending(s)') <= requests'
    <3> DEFINE P == ServicesPending(s)
               Q == ServicesPending(s)'
    <3>1. P \in SUBSET Slots /\ Q \subseteq P \cup {r}
      BY <1>5 DEF ServicesPending
    <3>2. services[s] + Cardinality(P) <= requests
      BY <1>1 DEF Counted
    <3> HIDE DEF P, Q
    <3>3. Cardinality(P) \in Nat /\ Cardinality(Q) \in Nat /\ Cardinality(Q) <= Cardinality(P) + 1
      BY <3>1, PendingAt
    <3>4. services'[s] + Cardinality(Q) <= requests'
      BY <1>6, <2>1, <3>2, <3>3
    <3>5. QED  BY <3>4 DEF Q
  <2>4. QED  BY <2>2, <2>3 DEF Counted
<1>20. QED  BY <1>11, <1>12, <1>13, <1>14, <1>15, <1>16, <1>17, <1>18, <1>19 DEF CPInv

\* The control plane has just started: nothing is stored and no handler runs.
Started ==
  /\ hosts = [h \in Hosts |-> 0] /\ services = [s \in Services |-> 0]
  /\ policies = [label \in PolicyLabels |-> NoDocs]
  /\ reqs = [r \in Slots |-> Idle] /\ requests \in 0..MaxRequests
  /\ last = [label \in PolicyLabels |-> None] /\ exposed = {} /\ promised = {}

LEMMA StartedOK == Started => CPInv
<1> SUFFICES ASSUME Started PROVE CPInv
  OBVIOUS
<1>1. /\ Idle \in HandlerType /\ Idle.kind = "none" /\ Idle.todo = <<>> /\ Idle.res = None
      /\ Idle.val.egress = Idle.val.ingress
  <2>1. /\ "none" \in Kinds /\ None \in Services \cup {None} /\ NoPolicy \in Versions
        /\ <<>> \in Seq(Calls)
    BY CPAssumption, EmptyAt DEF Kinds
  <2>2. Idle = Handler("none", None, Whole(NoPolicy), <<>>)
    BY DEF Idle
  <2> DEFINE e == <<>>
             n == "none"
  <2>3. n \in Kinds /\ None \in Services \cup {None} /\ NoPolicy \in Versions /\ e \in Seq(Calls)
    BY <2>1
  <2>4. Idle = Handler(n, None, Whole(NoPolicy), e)
    BY <2>2
  <2> HIDE DEF e, n
  <2>5. /\ Idle \in HandlerType /\ Idle.kind = n /\ Idle.todo = e /\ Idle.res = None
        /\ Idle.val.egress = Idle.val.ingress
    BY <2>3, <2>4, HandlersAt
  <2>6. QED  BY <2>5 DEF e, n
<1>2. Len(Idle.todo) = 0
  BY <1>1, EmptyAt
<1>3. HandlerOK(Idle)
  <2>1. \A i : i \notin 1..Len(Idle.todo)
    BY <1>2
  <2>2. Paired(Idle.todo) /\ Scripted(Idle)
    BY <1>1, <2>1 DEF Paired, Scripted
  <2>3. QED  BY <1>1, <2>2 DEF HandlerOK
<1>4. \A r \in Slots : reqs[r] = Idle
  BY DEF Started
<1>5. /\ \A op, l : \A r \in Slots : ~Next1(reqs[r], op, l)
      /\ \A l : \A r \in Slots : ~Admitted(reqs[r], l)
      /\ \A r \in Slots : reqs[r].kind # "service_on_board"
  BY <1>1, <1>4 DEF Next1, Admitted
<1>6. /\ \A l \in PolicyLabels, c \in Content : policies[l][c] = 0
      /\ \A s \in Services : services[s] = 0
      /\ \A h \in Hosts : hosts[h] = 0
  BY DEF Started, NoDocs
<1>7. /\ \A l \in PolicyLabels : Docs(l) = {}
      /\ \A l : ServiceDocs(l) = {}
  BY <1>6 DEF Docs, ServiceDocs
<1>8. StoreOK
  <2>1. NoDocs \in [Content -> Nat]
    BY DEF NoDocs
  <2>2. /\ hosts \in [Hosts -> Nat] /\ services \in [Services -> Nat]
        /\ policies \in [PolicyLabels -> [Content -> Nat]]
        /\ last \in [PolicyLabels -> Content \cup {None}]
    BY <2>1 DEF Started
  <2>3. reqs \in [Slots -> HandlerType] /\ \A r \in Slots : HandlerOK(reqs[r])
    BY <1>1, <1>3, <1>4 DEF Started
  <2>4. QED  BY <2>2, <2>3 DEF StoreOK, Started
<1>9. Watched /\ HostsSerial /\ ServicesSerial /\ PoliciesSerial
  BY <1>5, <1>6, <1>7 DEF Watched, HostsSerial, ServicesSerial, PoliciesSerial
<1>10. Available /\ FailsClosed /\ Versioned
  <2>1. /\ onboarding_policy_label \in PolicyLabels /\ IDs \subseteq PolicyLabels
    BY DEF PolicyLabels
  <2>2. QED  BY <1>5, <1>6, <1>7, <2>1 DEF Available, FailsClosed, Versioned, Started
<1>11. Counted
  <2>1. \A h : HostsPending(h) = {}
    BY <1>2, <1>4 DEF HostsPending
  <2>2. \A s : ServicesPending(s) = {}
    BY <1>5 DEF ServicesPending
  <2>3. requests \in Nat /\ Cardinality({}) = 0
    BY FS_EmptySet, CPAssumption DEF Started
  <2>4. QED  BY <1>6, <2>1, <2>2, <2>3 DEF Counted
<1>12. QED  BY <1>8, <1>9, <1>10, <1>11 DEF CPInv

LEMMA StartedNext == Started' => CPInv'
BY StartedOK, PTL

LEMMA CPInvInit == CPInit => CPInv
<1>1. CPInit => Started
  BY CPAssumption DEF CPInit, Started
<1>2. QED  BY <1>1, StartedOK

LEMMA CPInvNext ==
  ASSUME CPInv, [CPNext]_cpVars
  PROVE  CPInv'
<1>1. CASE Restart
  <2>1. Started'
    BY <1>1, CPAssumption DEF Restart, Started, CPInv, StoreOK
  <2>2. QED  BY <2>1, StartedNext
<1>2. ASSUME NEW r \in Slots, Receive(r) \/ DbCall(r) \/ DbFails(r) PROVE CPInv'
  <2>1. StoreOK
    BY DEF CPInv
  <2>2. QED  BY <1>2, <2>1, ReceiveKeeps, DbCallMoves, DbFailsMoves, MovesKeep
<1>3. CASE UNCHANGED cpVars
  <2>1. /\ hosts' = hosts /\ services' = services /\ policies' = policies /\ reqs' = reqs
        /\ requests' = requests /\ last' = last /\ exposed' = exposed /\ promised' = promised
    BY <1>3 DEF cpVars
  <2>2. \A l : Docs(l)' = Docs(l) /\ ServiceDocs(l)' = ServiceDocs(l)
    BY <2>1 DEF Docs, ServiceDocs
  <2>3. GlobalPolicyRead' = GlobalPolicyRead
    BY <2>2 DEF GlobalPolicyRead
  <2>4. StoreOK' /\ Watched'
    BY <2>1 DEF CPInv, StoreOK, Watched
  <2>5. HostsSerial' /\ ServicesSerial' /\ PoliciesSerial'
    BY <2>1, <2>2 DEF CPInv, HostsSerial, ServicesSerial, PoliciesSerial
  <2>6. Available' /\ FailsClosed' /\ Versioned'
    BY <2>1, <2>2, <2>3 DEF CPInv, Available, FailsClosed, Versioned
  <2>7. Counted'
    BY <2>1 DEF CPInv, Counted, HostsPending, ServicesPending
  <2>8. QED  BY <2>4, <2>5, <2>6, <2>7 DEF CPInv
<1>4. QED  BY <1>1, <1>2, <1>3 DEF CPNext

-----------------------------------------------------------------------------
(***************************************************************************)
(* The invariant implies what the runs check.                              *)
(***************************************************************************)
LEMMA InvType ==
  ASSUME CPInv
  PROVE  CPTypeOK
<1>1. /\ StoreOK /\ Counted
      /\ hosts \in [Hosts -> Nat] /\ services \in [Services -> Nat]
      /\ policies \in [PolicyLabels -> [Content -> Nat]]
      /\ last \in [PolicyLabels -> Content \cup {None}]
      /\ requests \in 0..MaxRequests /\ promised \subseteq IDs
      /\ reqs \in [Slots -> HandlerType] /\ \A r \in Slots : HandlerOK(reqs[r])
  BY DEF CPInv, StoreOK
<1>2. hosts \in [Hosts -> 0..MaxRequests]
  <2>1. ASSUME NEW h \in Hosts PROVE hosts[h] \in 0..MaxRequests
    <3> DEFINE P == HostsPending(h)
    <3>1. P \subseteq Slots /\ hosts[h] + Cardinality(P) <= requests /\ hosts[h] \in Nat
      BY <1>1 DEF Counted, HostsPending
    <3> HIDE DEF P
    <3>2. Cardinality(P) \in Nat
      BY <3>1, CPAssumption, FS_Subset, FS_CardinalityType
    <3>3. QED  BY <1>1, <3>1, <3>2, CPAssumption
  <2>2. QED  BY <1>1, <2>1
<1>3. services \in [Services -> 0..MaxRequests]
  <2>1. ASSUME NEW s \in Services PROVE services[s] \in 0..MaxRequests
    <3> DEFINE P == ServicesPending(s)
    <3>1. P \subseteq Slots /\ services[s] + Cardinality(P) <= requests /\ services[s] \in Nat
      BY <1>1 DEF Counted, ServicesPending
    <3> HIDE DEF P
    <3>2. Cardinality(P) \in Nat
      BY <3>1, CPAssumption, FS_Subset, FS_CardinalityType
    <3>3. QED  BY <1>1, <3>1, <3>2, CPAssumption
  <2>2. QED  BY <1>1, <2>1
<1>4. /\ DOMAIN policies = PolicyLabels
      /\ \A label \in PolicyLabels :
           /\ DOMAIN policies[label] = Content
           /\ \A c \in Content : policies[label][c] \in Nat
           /\ last[label] \in Content \cup {None}
  BY <1>1
<1>5. ASSUME NEW r \in Slots
      PROVE  /\ reqs[r].val \in Content
             /\ reqs[r].sent \subseteq Services /\ reqs[r].sel \subseteq IDs
             /\ \A c \in Range(reqs[r].todo) : c.op \in CallOps /\ c.label \in PolicyLabels \cup Hosts
             /\ reqs[r].res = None <=> reqs[r].todo # <<>> \/ reqs[r].kind = "none"
  <2>1. /\ reqs[r].val \in Content /\ reqs[r].sent \subseteq Services /\ reqs[r].sel \subseteq IDs
        /\ reqs[r].todo \in Seq(Calls)
    BY <1>1 DEF HandlerType
  <2>2. \A t \in Seq(Calls) : \A c \in Range(t) : c \in Calls
    BY DEF Range
  <2>3. \A c \in Calls : c.op \in CallOps /\ c.label \in PolicyLabels \cup Hosts
    BY DEF Calls, HostOps, CallOps
  <2>4. reqs[r].res = None <=> reqs[r].todo # <<>> \/ reqs[r].kind = "none"
    BY <1>1 DEF HandlerOK
  <2>5. QED  BY <2>1, <2>2, <2>3, <2>4
<1>6. QED  BY <1>1, <1>2, <1>3, <1>4, <1>5 DEF CPTypeOK

LEMMA InvSerial ==
  ASSUME CPInv
  PROVE  SerialExact
<1>1. /\ HostsSerial /\ ServicesSerial /\ PoliciesSerial
      /\ hosts \in [Hosts -> Nat] /\ services \in [Services -> Nat]
  BY DEF CPInv, StoreOK
<1>2. \A h \in Hosts : hosts[h] > 1 => <<"host_insert", h>> \in exposed
  BY <1>1 DEF HostsSerial
<1>3. ASSUME NEW id \in IDs, <<"service_insert", id>> \notin exposed PROVE ~Duplicated(id)
  <2> DEFINE D == ServiceDocs(id)
  <2>1. \A s, t \in D : s = t /\ services[s] = 1
    BY <1>1, <1>3 DEF ServicesSerial
  <2>2. ~\E s \in D : services[s] > 1
    BY <2>1
  <2>3. D = {} \/ \E x : D = {x}
    BY <2>1
  <2>4. Cardinality(D) = 0 \/ Cardinality(D) = 1
    <3> HIDE DEF D
    <3>1. QED  BY <2>3, FS_EmptySet, FS_Singleton
  <2>5. ~(Cardinality(D) > 1)
    <3> HIDE DEF D
    <3>1. QED  BY <2>4
  <2>6. QED  BY <2>2, <2>5 DEF Duplicated
<1>4. QED  BY <1>1, <1>2, <1>3 DEF SerialExact, PoliciesSerial

LEMMA InvAvailable ==
  ASSUME CPInv
  PROVE  PolicyAvailable
<1>1. Available /\ \A r \in Slots : HandlerOK(reqs[r])
  BY DEF CPInv, StoreOK
<1>2. QED  BY <1>1, WindowsAt DEF Available, PolicyAvailable

LEMMA InvOneVersion ==
  ASSUME CPInv
  PROVE  OneVersion
<1>1. StoreOK /\ PoliciesSerial /\ Versioned
  BY DEF CPInv
<1> SUFFICES ASSUME NEW id \in IDs, <<"compile", id>> \notin exposed,
                    <<"insert_one", global_policy_label>> \notin exposed
             PROVE  /\ \A c \in Docs(id) : c.egress = c.ingress
                    /\ \A r \in Slots :
                         Compiling(reqs[r]) /\ new_ID(reqs[r].svc) = id
                           /\ Head(reqs[r].todo).op = "insert_one"
                           => \E v \in GlobalPolicyRead : reqs[r].val = Whole(v)
  BY DEF OneVersion
<1>2. \A c \in Docs(id) : c.egress = c.ingress
  BY <1>1 DEF Versioned
<1>3. ASSUME NEW r \in Slots, Compiling(reqs[r]), new_ID(reqs[r].svc) = id,
             Head(reqs[r].todo).op = "insert_one"
      PROVE  \E v \in GlobalPolicyRead : reqs[r].val = Whole(v)
  <2> DEFINE n == Len(reqs[r].todo)
  <2>1. reqs[r].kind = "service_on_board" /\ reqs[r].todo # <<>>
    BY <1>3 DEF Compiling
  <2>2. First(r).op = "insert_one" /\ reqs[r].val \in Content
    BY <1>1, <1>3, <2>1, FirstAt
  <2>3. n = 1
    <3>1. \A k \in 1..8 : k = 1 \/ k = 2 \/ k = 3 \/ k = 4 \/ k = 5 \/ k = 6 \/ k = 7 \/ k = 8
      OBVIOUS
    <3>2. /\ n = 8 => First(r).op = "get_onboarding_policy"
          /\ n = 7 => First(r).op = "onboarded"
          /\ n = 6 => First(r).op = "compile_egress"
          /\ n = 5 => First(r).op = "compile_ingress"
          /\ n = 4 => First(r).op = "service_present"
          /\ n = 3 => First(r).op = "service_insert"
          /\ n = 2 => First(r).op = "delete_many"
      BY <1>1, <2>1, OnboardAt, CallAt
    <3>3. n \in 1..8
      BY <1>1, <2>1, OnboardAt
    <3> HIDE DEF n
    <3>4. QED  BY <2>2, <3>1, <3>2, <3>3
  <2>4. n \in 1..5 /\ n \in 1..4
    BY <2>3
  <2>5. reqs[r].val.egress \in GlobalPolicyRead /\ reqs[r].val.ingress \in GlobalPolicyRead
    BY <1>1, <1>3, <2>1, <2>4 DEF Versioned
  <2>6. reqs[r].val.egress = reqs[r].val.ingress
    BY <1>1, <2>5, OneGlobal
  <2>7. reqs[r].val = Whole(reqs[r].val.egress)
    BY <2>2, <2>6 DEF Content, Whole
  <2>8. QED  BY <2>5, <2>7
<1>4. QED  BY <1>2, <1>3

-----------------------------------------------------------------------------
\* The inductive invariant holds in every state of the control plane.
THEOREM ControlInvariant == CPSpec => []CPInv
<1>1. CPInv /\ [CPNext]_cpVars => CPInv'
  BY CPInvNext
<1>2. QED  BY <1>1, CPInvInit, PTL DEF CPSpec

(***************************************************************************)
(* Type correctness of the collections and the handlers, with the counts   *)
(* of documents that the number of requests bounds.                        *)
(***************************************************************************)
THEOREM ControlTypeCorrect == CPSpec => []CPTypeOK
<1>1. CPInv => CPTypeOK
  BY InvType
<1>2. QED  BY <1>1, ControlInvariant, PTL

(***************************************************************************)
(* The collections are as after a serial execution wherever no windows     *)
(* between a look (or a deletion) and an insertion overlapped: save_policy *)
(* and its callers, host::on_board and helper_onboard.                     *)
(***************************************************************************)
THEOREM ControlSerial == CPSpec => []SerialExact
<1>1. CPInv => SerialExact
  BY InvSerial
<1>2. QED  BY <1>1, ControlInvariant, PTL

(***************************************************************************)
(* A host that was told a GlobalID by service::on_board finds the policy,  *)
(* except while a handler is between deleting and inserting it.            *)
(***************************************************************************)
THEOREM ControlPolicyAvailable == CPSpec => []PolicyAvailable
<1>1. CPInv => PolicyAvailable
  BY InvAvailable
<1>2. QED  BY <1>1, ControlInvariant, PTL

(***************************************************************************)
(* Without a stored on-boarding policy no service is on-boarded, whatever  *)
(* database calls fail (get_onboarding_policy, OnboardingPolicy::default). *)
(***************************************************************************)
THEOREM ControlFailsClosed == CPSpec => []OnboardingFailsClosed
<1>1. CPInv => OnboardingFailsClosed
  BY DEF CPInv, FailsClosed, OnboardingFailsClosed
<1>2. QED  BY <1>1, ControlInvariant, PTL

(***************************************************************************)
(* What service::on_board compiles with two reads of the global policy and *)
(* saves is one version of it, unless it was overtaken or a read failed.   *)
(***************************************************************************)
THEOREM ControlOneVersion == CPSpec => []OneVersion
<1>1. CPInv => OneVersion
  BY InvOneVersion
<1>2. QED  BY <1>1, ControlInvariant, PTL
-----------------------------------------------------------------------------
(***************************************************************************)
(* A control plane that handles one request at a time.                     *)
(***************************************************************************)
OneHandler == \A p, q \in Slots : p = q

\* Each key has at most one document, the one that was saved last.
OneDocument ==
  /\ \A h \in Hosts : hosts[h] <= 1
  /\ \A label \in PolicyLabels, c \in Content :
       policies[label][c] > 0 => policies[label][c] = 1 /\ c = last[label]

\* No saves and no insertions of hosts have overlapped.
Alone ==
  \A label : <<"host_insert", label>> \notin exposed /\ <<"insert_one", label>> \notin exposed

LEMMA CallBecomes ==
  ASSUME NEW r \in Slots, DbCall(r)
  PROVE  exposed' = exposed \cup Overlaps(reqs') \cup Overtaken(r)
<1>1. CASE host_present(r) \/ host_insert(r) \/ host_delete(r) \/ services_delete(r)
           \/ get_onboarding_policy(r) \/ onboarded(r) \/ service_present(r)
           \/ service_insert(r) \/ service_delete(r)
  BY <1>1 DEF host_present, host_insert, host_delete, services_delete, get_onboarding_policy,
              onboarded, service_present, service_insert, service_delete, Continue, Refuse, Becomes
<1>2. CASE helper_compile_egress(r) \/ helper_compile_ingress(r)
  BY <1>2 DEF helper_compile_egress, helper_compile_ingress, Becomes
<1>3. CASE delete_many(r) \/ insert_one(r) \/ get_local_service_label(r) \/ delete_one(r)
           \/ drop_collection(r)
  BY <1>3 DEF delete_many, insert_one, get_local_service_label, delete_one, drop_collection,
              Continue, Refuse, Becomes
<1>4. CASE update_hosts(r)
  BY <1>4 DEF update_hosts, Refuse, Becomes
<1>5. CASE services_full(r)
  BY <1>5 DEF services_full, Becomes
<1>6. CASE services_of_policies(r)
  BY <1>6 DEF services_of_policies, Refuse, Becomes
<1>7. CASE Uncompiled(r)
  BY <1>7 DEF Uncompiled, Refuse, Becomes
<1>8. QED  BY <1>1, <1>2, <1>3, <1>4, <1>5, <1>6, <1>7 DEF DbCall

LEMMA AloneNext ==
  ASSUME OneHandler, Alone, [CPNext]_cpVars
  PROVE  Alone'
<1>1. Overlaps(reqs') = {}
  BY DEF OneHandler, Overlaps
<1>2. ASSUME NEW r \in Slots, exposed' = exposed \cup Overlaps(reqs') \cup Overtaken(r)
      PROVE  Alone'
  <2>1. \A e \in Overtaken(r) : \E id : e = <<"compile", id>>
    BY DEF Overtaken
  <2>2. QED  BY <1>1, <1>2, <2>1 DEF Alone
<1>3. CASE Restart
  BY <1>3 DEF Restart, Alone
<1>4. ASSUME NEW r \in Slots, Receive(r) PROVE Alone'
  <2>1. exposed' = exposed \cup Overlaps(reqs') \cup Overtaken(r)
    BY <1>4 DEF Receive, Becomes
  <2>2. QED  BY <1>2, <2>1
<1>5. ASSUME NEW r \in Slots, DbCall(r) PROVE Alone'
  BY <1>2, <1>5, CallBecomes
<1>6. ASSUME NEW r \in Slots, DbFails(r) PROVE Alone'
  <2> DEFINE op == Head(reqs[r].todo).op
             label == LabelOf(r)
             more == CASE op = "onboarded" -> {<<"service_insert", label>>}
                       [] op \in {"compile_egress", "compile_ingress"} ->
                            {<<"compile", new_ID(reqs[r].svc)>>}
                       [] OTHER -> {}
  <2>1. exposed' = exposed \cup Overlaps(reqs') \cup more
    BY <1>6 DEF DbFails
  <2>2. \A e \in more : \E id : e = <<"compile", id>> \/ e = <<"service_insert", id>>
    <3>1. CASE op = "onboarded"
      BY <3>1
    <3>2. CASE op \in {"compile_egress", "compile_ingress"}
      <4>1. op # "onboarded"
        BY <3>2
      <4>2. more = {<<"compile", new_ID(reqs[r].svc)>>}
        BY <3>2, <4>1
      <4>3. QED  BY <4>2
    <3>3. CASE op # "onboarded" /\ op \notin {"compile_egress", "compile_ingress"}
      BY <3>3
    <3>4. QED  BY <3>1, <3>2, <3>3
  <2> HIDE DEF more
  <2>3. QED  BY <1>1, <2>1, <2>2 DEF Alone
<1>7. CASE UNCHANGED cpVars
  BY <1>7 DEF cpVars, Alone
<1>8. QED  BY <1>3, <1>4, <1>5, <1>6, <1>7 DEF CPNext

(***************************************************************************)
(* Duplicates and lost updates come from handlers that run at the same     *)
(* time and from nothing else: if requests are handled one at a time, then *)
(* whatever calls fail, whichever handlers end halfway and however often   *)
(* the control plane starts again, a host has at most one document and a   *)
(* policy is the one that was saved last (host::on_board, save_policy).    *)
(***************************************************************************)
THEOREM ControlOneByOne ==
  ASSUME OneHandler
  PROVE  CPSpec => []OneDocument
<1>1. CPInit => Alone
  BY DEF CPInit, Alone
<1>2. Alone /\ [CPNext]_cpVars => Alone'
  BY AloneNext
<1>3. CPTypeOK /\ SerialExact /\ Alone => OneDocument
  <2>1. SUFFICES ASSUME CPTypeOK, SerialExact, Alone PROVE OneDocument
    OBVIOUS
  <2>2. ASSUME NEW h \in Hosts PROVE hosts[h] <= 1
    <3>1. hosts[h] \in Nat
      BY <2>1 DEF CPTypeOK
    <3>2. ~(hosts[h] > 1)
      BY <2>1 DEF SerialExact, Alone
    <3>3. QED  BY <3>1, <3>2
  <2>3. QED  BY <2>1, <2>2 DEF SerialExact, Alone, OneDocument
<1>4. QED  BY <1>1, <1>2, <1>3, ControlTypeCorrect, ControlSerial, PTL DEF CPSpec
=============================================================================
