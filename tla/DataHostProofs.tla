---------------------------- MODULE DataHostProofs ----------------------------
(***************************************************************************)
(* The invariants of the data-plane host hold for any processes, labels,   *)
(* policies, on-board requests and number of commands.                     *)
(***************************************************************************)
EXTENDS DataHost, FiniteSetTheorems, TLAPS

OnboardOps == {"Label", "CPOnboard", "StartHttp"}

\* Retries are on-board commands for a label, and only a handler that has begun
\* has a label.  What the host waits for concerns a process that was spawned.
ShapeOK ==
  /\ \A i \in DOMAIN delayed : /\ delayed[i].sel \in Labels
                               /\ \E op \in OnboardOps : delayed[i].req = Req(op)
  /\ \A t \in Tasks : tasks[t].step # "new" => tasks[t].label \in Labels
  /\ waiting # None => proc[waiting.proc].state # "none"

\* A process that has not connected is unknown to the host; the label of a
\* process is fixed when it is spawned, and the host only knows that one.
LabelsOK(p) ==
  /\ proc[p].state \in {"none", "spawned"} =>
       /\ instances[p] = None /\ up[p] = <<>>
       /\ proc[p].hash = DefaultHash /\ ~proc[p].lost
  /\ proc[p].state = "none" =>
       proc[p].label = None /\ \A op \in OnboardOps : delivered[p][op] = 0
  /\ proc[p].state # "none" => proc[p].label \in Labels
  /\ Registered(p) => instances[p].label = proc[p].label

\* What a stream of messages holds: the announcement of a connection, the end, a
\* hash; and the newest hash, if it holds one.
Opening(m) == m.msg \in {"UdsConnect", "Connect"}
Ending(m) == m.msg \in {"ShuttingDown", "Closed"}
Telling(m) == m.msg \in {"Connect", "Updated"}

Opens(u) == \E i \in DOMAIN u : Opening(u[i])
Ends(u) == \E i \in DOMAIN u : Ending(u[i])
NoneTells(u) == \A i \in DOMAIN u : ~Telling(u[i])
NewestIs(u, h) == \E i \in DOMAIN u : /\ Telling(u[i]) /\ u[i].hash = h
                                     /\ \A j \in DOMAIN u : j > i => ~Telling(u[j])

HashesIn(u, R) == \A i \in DOMAIN u : Telling(u[i]) => u[i].hash \in R

\* Nothing but Closed follows ShuttingDown or Closed.
EndsLast(u) ==
  \A i \in DOMAIN u : Ending(u[i]) => \A j \in DOMAIN u : j > i => u[j].msg = "Closed"

\* A process that announced its end is about to exit or has exited.
Leaving == {"stopping", "exited"}

StreamOK(p) == EndsLast(up[p]) /\ (Ends(up[p]) => proc[p].state \in Leaving)

\* A process leaves the map of children with its instance, and at most once.
ChildrenOK(p) ==
  /\ \/ proc[p].state = "spawned"
     \/ instances[p] # None
     \/ Opens(up[p])
     => p \in children
  /\ drops[p] <= 1
  /\ drops[p] = 1 => proc[p].state = "exited" /\ p \notin children
  /\ (waiting # None /\ waiting.for = "child" /\ waiting.proc = p) =>
       proc[p].state \in Leaving /\ p \notin children /\ drops[p] = 0

\* HashesConverge, of processes whose Connect the host has not read as well.
HashOK(p) ==
  /\ DefaultHash \in proc[p].ran /\ proc[p].hash \in proc[p].ran
  /\ HashesIn(up[p], proc[p].ran)
  /\ Registered(p) => instances[p].hash \in proc[p].ran
  /\ \/ proc[p].lost
     \/ NewestIs(up[p], proc[p].hash)
     \/ /\ NoneTells(up[p])
        /\ Registered(p) => instances[p].hash = proc[p].hash

\* AtMostOnce, and of labels that no process has yet.
CountsOK ==
  /\ \A l \in Labels, op \in OnboardOps :
       /\ IsFiniteSet(Issued(l, op))
       /\ IsFiniteSet(Pending(l, op))
       /\ Cardinality(Pending(l, op)) <= Cardinality(Issued(l, op))
  /\ \A p \in Procs, op \in OnboardOps : proc[p].label # None =>
       delivered[p][op] + Cardinality(Pending(proc[p].label, op))
         <= Cardinality(Issued(proc[p].label, op))

ProcInv(p) == LabelsOK(p) /\ StreamOK(p) /\ ChildrenOK(p) /\ HashOK(p)

(***************************************************************************)
(* The inductive invariant.                                                *)
(***************************************************************************)
HostInv ==
  /\ HostTypeOK
  /\ ShapeOK
  /\ \A p \in Procs : ProcInv(p)
  /\ CountsOK

-----------------------------------------------------------------------------
LEMMA Steps ==
  /\ DOMAIN NextStep = OnboardOps
  /\ NextStep["Label"] = "CPOnboard"
  /\ NextStep["CPOnboard"] = "StartHttp"
  /\ NextStep["StartHttp"] = "done"
BY DEF NextStep, OnboardOps

\* What a sequence loses with its head, and what it gains at its end.
LEMMA TailAt ==
  ASSUME NEW S, NEW s \in Seq(S), s # <<>>
  PROVE  /\ Tail(s) \in Seq(S)
         /\ Head(s) = s[1] /\ s[1] \in S /\ 1 \in DOMAIN s
         /\ \A i \in DOMAIN Tail(s) : i + 1 \in DOMAIN s /\ Tail(s)[i] = s[i + 1]
         /\ \A i \in DOMAIN s : i \in Nat /\ (i # 1 => i - 1 \in DOMAIN Tail(s))
OBVIOUS

LEMMA ConcatAt ==
  ASSUME NEW S, NEW s \in Seq(S), NEW t \in Seq(S)
  PROVE  /\ s \o t \in Seq(S)
         /\ \A i \in DOMAIN s : i \in DOMAIN (s \o t) /\ (s \o t)[i] = s[i]
         /\ \A i \in DOMAIN t : i + Len(s) \in DOMAIN (s \o t) /\ (s \o t)[i + Len(s)] = t[i]
         /\ \A i \in DOMAIN (s \o t) : i \in DOMAIN s \/ (i > Len(s) /\ i - Len(s) \in DOMAIN t)
OBVIOUS

LEMMA AppendAt ==
  ASSUME NEW S, NEW s \in Seq(S), NEW z \in S
  PROVE  /\ Append(s, z) \in Seq(S)
         /\ Len(s) + 1 \notin DOMAIN s
         /\ Len(s) + 1 \in DOMAIN Append(s, z) /\ Append(s, z)[Len(s) + 1] = z
         /\ \A i \in DOMAIN s : i \in DOMAIN Append(s, z) /\ Append(s, z)[i] = s[i]
         /\ \A i \in DOMAIN Append(s, z) :
              \/ i \in DOMAIN s /\ Append(s, z)[i] = s[i]
              \/ i = Len(s) + 1 /\ Append(s, z)[i] = z
OBVIOUS

\* A message is added to a stream.
LEMMA AppendMessage ==
  ASSUME NEW u \in Seq(Response), NEW m \in Response
  PROVE  /\ Append(u, m) \in Seq(Response)
         /\ Opens(Append(u, m)) <=> Opens(u) \/ Opening(m)
         /\ Ends(Append(u, m)) <=> Ends(u) \/ Ending(m)
         /\ EndsLast(u) /\ (m.msg = "Closed" \/ ~Ends(u)) => EndsLast(Append(u, m))
         /\ Telling(m) => NewestIs(Append(u, m), m.hash)
         /\ ~Telling(m) /\ NoneTells(u) => NoneTells(Append(u, m))
         /\ \A h : ~Telling(m) /\ NewestIs(u, h) => NewestIs(Append(u, m), h)
         /\ \A R : HashesIn(u, R) /\ (Telling(m) => m.hash \in R) => HashesIn(Append(u, m), R)
<1> DEFINE v == Append(u, m)
           n == Len(u)
<1>1. /\ v \in Seq(Response) /\ n + 1 \in DOMAIN v /\ v[n + 1] = m
      /\ \A i \in DOMAIN u : i \in DOMAIN v /\ v[i] = u[i]
      /\ \A i \in DOMAIN v : (i \in DOMAIN u /\ v[i] = u[i]) \/ (i = n + 1 /\ v[i] = m)
  BY AppendAt
<1>2. /\ \A i \in DOMAIN u : i \in Nat /\ i < n + 1
      /\ n \in Nat
  OBVIOUS
<1> HIDE DEF v, n
<1>3. Opens(v) <=> Opens(u) \/ Opening(m)
  BY <1>1 DEF Opens
<1>4. Ends(v) <=> Ends(u) \/ Ending(m)
  BY <1>1 DEF Ends
<1>5. EndsLast(u) /\ (m.msg = "Closed" \/ ~Ends(u)) => EndsLast(v)
  BY <1>1, <1>2 DEF EndsLast, Ends
<1>6. Telling(m) => NewestIs(v, m.hash)
  BY <1>1, <1>2 DEF NewestIs
<1>7. ~Telling(m) /\ NoneTells(u) => NoneTells(v)
  BY <1>1 DEF NoneTells
<1>8. \A h : ~Telling(m) /\ NewestIs(u, h) => NewestIs(v, h)
  BY <1>1, <1>2 DEF NewestIs
<1>9. \A R : HashesIn(u, R) /\ (Telling(m) => m.hash \in R) => HashesIn(v, R)
  BY <1>1 DEF HashesIn
<1>10. QED BY <1>1, <1>3, <1>4, <1>5, <1>6, <1>7, <1>8, <1>9 DEF v

\* The first message is taken from a stream.
LEMMA TailMessage ==
  ASSUME NEW u \in Seq(Response), u # <<>>
  PROVE  /\ Opens(Tail(u)) => Opens(u)
         /\ Opening(u[1]) => Opens(u)
         /\ Ends(Tail(u)) => Ends(u)
         /\ Ending(u[1]) => Ends(u)
         /\ EndsLast(u) => EndsLast(Tail(u))
         /\ EndsLast(u) /\ Ending(u[1]) => ~Opens(Tail(u)) /\ NoneTells(u)
         /\ NoneTells(u) => NoneTells(Tail(u)) /\ ~Telling(u[1])
         /\ \A h : NewestIs(u, h) =>
               \/ NewestIs(Tail(u), h)
               \/ NoneTells(Tail(u)) /\ Telling(u[1]) /\ u[1].hash = h
         /\ \A R : HashesIn(u, R) => HashesIn(Tail(u), R) /\ (Telling(u[1]) => u[1].hash \in R)
<1> DEFINE v == Tail(u)
<1>1. /\ 1 \in DOMAIN u
      /\ \A i \in DOMAIN v : i + 1 \in DOMAIN u /\ v[i] = u[i + 1] /\ i \in Nat /\ i + 1 > 1
      /\ \A i \in DOMAIN u : i \in Nat /\ (i # 1 => i - 1 \in DOMAIN v /\ v[i - 1] = u[i])
  BY TailAt
<1> HIDE DEF v
<1>2. (Opens(v) => Opens(u)) /\ (Opening(u[1]) => Opens(u))
  BY <1>1 DEF Opens
<1>3. (Ends(v) => Ends(u)) /\ (Ending(u[1]) => Ends(u))
  BY <1>1 DEF Ends
<1>4. EndsLast(u) => EndsLast(v)
  BY <1>1 DEF EndsLast
<1>5. EndsLast(u) /\ Ending(u[1]) => ~Opens(v) /\ NoneTells(u)
  BY <1>1 DEF EndsLast, Opens, NoneTells, Ending, Opening, Telling
<1>6. NoneTells(u) => NoneTells(v) /\ ~Telling(u[1])
  BY <1>1 DEF NoneTells
<1>7. ASSUME NEW h, NewestIs(u, h)
      PROVE  NewestIs(v, h) \/ (NoneTells(v) /\ Telling(u[1]) /\ u[1].hash = h)
  <2>1. PICK i \in DOMAIN u : /\ Telling(u[i]) /\ u[i].hash = h
                              /\ \A j \in DOMAIN u : j > i => ~Telling(u[j])
    BY <1>7 DEF NewestIs
  <2>2. CASE i = 1
    BY <1>1, <2>1, <2>2 DEF NoneTells
  <2>3. CASE i # 1
    <3>1. i - 1 \in DOMAIN v /\ v[i - 1] = u[i] /\ i \in Nat
      BY <1>1, <2>3
    <3>2. \A j \in DOMAIN v : j > i - 1 => ~Telling(v[j])
      BY <1>1, <2>1, <3>1
    <3>3. QED BY <2>1, <3>1, <3>2 DEF NewestIs
  <2>4. QED BY <2>2, <2>3
<1>8. \A R : HashesIn(u, R) => HashesIn(v, R) /\ (Telling(u[1]) => u[1].hash \in R)
  BY <1>1 DEF HashesIn
<1>9. QED BY <1>2, <1>3, <1>4, <1>5, <1>6, <1>7, <1>8 DEF v

LEMMA HostInitInv == HostInit => HostInv
<1> SUFFICES ASSUME HostInit PROVE HostInv
  OBVIOUS
<1>1. HostTypeOK
  <2>1. delivered \in [Procs -> [DOMAIN NextStep -> Nat]]
    BY DEF HostInit
  <2>2. tasks \in [Tasks -> [label : Labels \cup {None},
                            step : {"new", "launch", "done"} \cup DOMAIN NextStep]]
    BY DEF HostInit
  <2>3. QED BY <2>1, <2>2, HostConstants DEF HostInit, HostTypeOK, ProcState
<1>2. ShapeOK
  BY DEF HostInit, ShapeOK
<1>3. ASSUME NEW p \in Procs PROVE ProcInv(p)
  BY HostConstants, Steps
     DEF HostInit, ProcInv, LabelsOK, StreamOK, ChildrenOK, HashOK, Registered, OnboardOps,
         Opens, Ends, EndsLast, NoneTells, HashesIn
<1>4. ASSUME NEW l \in Labels, NEW op \in OnboardOps
      PROVE  Issued(l, op) = {} /\ Pending(l, op) = {}
  BY HostConstants DEF HostInit, Issued, Pending
<1>5. CountsOK
  <2>1. IsFiniteSet({}) /\ Cardinality({}) = 0
    BY FS_EmptySet
  <2>2. ASSUME NEW l \in Labels, NEW op \in OnboardOps
        PROVE  /\ IsFiniteSet(Issued(l, op)) /\ IsFiniteSet(Pending(l, op))
               /\ Cardinality(Pending(l, op)) <= Cardinality(Issued(l, op))
    BY <1>4, <2>1
  <2>3. \A p \in Procs : proc[p].label = None
    BY DEF HostInit
  <2>4. QED BY <2>2, <2>3 DEF CountsOK
<1>6. QED BY <1>1, <1>2, <1>3, <1>5 DEF HostInv

-----------------------------------------------------------------------------
(* Types. *)

ProcRec == [state : ProcState, label : Labels \cup {None}, hash : Hashes \ Oversized,
            garbled : BOOLEAN, lost : BOOLEAN, ran : SUBSET (Hashes \ Oversized)]

TaskRec == [label : Labels \cup {None}, step : {"new", "launch", "done"} \cup OnboardOps]

Typed ==
  /\ instances \in [Procs -> Instance \cup {None}]
  /\ children \subseteq Procs
  /\ waiting \in Waiting \cup {None}
  /\ notified \in Seq(Notification)
  /\ delayed \in Seq(Notification)
  /\ hostUp \in BOOLEAN
  /\ proc \in [Procs -> ProcRec]
  /\ up \in [Procs -> Seq(Response)]
  /\ down \in [Procs -> Seq(Request)]
  /\ tasks \in [Tasks -> TaskRec]
  /\ commands \in 0..MaxCommands
  /\ drops \in [Procs -> Nat]
  /\ delivered \in [Procs -> [OnboardOps -> Nat]]

LEMMA TypedIs == HostTypeOK <=> Typed
BY Steps DEF HostTypeOK, Typed, ProcRec, TaskRec

LEMMA ReqTyped ==
  /\ \A op \in {"Label", "CPOnboard", "StartHttp", "Status", "Shutdown"} : Req(op) \in Request
  /\ \A h \in Hashes : SetPolicyReq(h) \in Request
  /\ \A op1, op2 : Req(op1) = Req(op2) => op1 = op2
BY DEF Req, SetPolicyReq, Request

LEMMA CommandCounted ==
  ASSUME commands \in 0..MaxCommands, commands < MaxCommands, commands' = commands + 1
  PROVE  commands' \in 0..MaxCommands
<1>1. MaxCommands \in Nat
  BY HostConstants
<1>2. QED BY <1>1

\* A command for the selected instances is appended to their streams.
LEMMA CommandTyped ==
  ASSUME HostInv, NEW retry \in BOOLEAN, NEW sel \in Selector, NEW req \in Request,
         PolicyCommand(retry, sel, req)
  PROVE  down' \in [Procs -> Seq(Request)] /\ delayed' \in Seq(Notification)
<1>1. [kind |-> "command", sel |-> sel, req |-> req] \in Notification
  BY DEF Notification
<1>2. Typed
  BY TypedIs DEF HostInv
<1>3. QED BY <1>1, <1>2 DEF Typed, PolicyCommand

LEMMA DeliversTyped ==
  ASSUME HostInv, NEW sel, NEW op \in OnboardOps, Delivers(sel, op)
  PROVE  /\ delivered' \in [Procs -> [OnboardOps -> Nat]]
         /\ \A p \in Procs : p \notin get_instances(sel) => delivered'[p] = delivered[p]
         /\ \A p \in get_instances(sel) :
              /\ delivered'[p][op] = delivered[p][op] + 1
              /\ \A o \in OnboardOps \ {op} : delivered'[p][o] = delivered[p][o]
<1>1. Typed
  BY TypedIs DEF HostInv
<1>2. ASSUME NEW p \in Procs
      PROVE  [delivered[p] EXCEPT ![op] = @ + 1] \in [OnboardOps -> Nat]
  BY <1>1 DEF Typed
<1>3. delivered' \in [Procs -> [OnboardOps -> Nat]]
  BY <1>1, <1>2 DEF Typed, Delivers
<1>4. QED BY <1>1, <1>3 DEF Typed, Delivers, get_instances

LEMMA SecondAttemptTyped ==
  ASSUME HostInv, SecondAttempt
  PROVE  Typed' /\ ShapeOK'
<1> DEFINE c == delayed[1]
<1>1. Typed /\ ShapeOK /\ delayed # <<>>
  BY TypedIs DEF HostInv, SecondAttempt
<1>2. /\ Head(delayed) = c /\ c.sel \in Labels /\ c.sel \in Selector
      /\ \E op \in OnboardOps : c.req = Req(op)
  BY <1>1, TailAt DEF Typed, ShapeOK, Selector
<1>3. c.req \in Request /\ c.req.op \in OnboardOps
  BY <1>2, ReqTyped DEF Req, OnboardOps
<1>4. delivered' \in [Procs -> [OnboardOps -> Nat]]
  BY <1>2, <1>3, DeliversTyped DEF SecondAttempt
<1>5. down' \in [Procs -> Seq(Request)]
  BY <1>1, <1>2, <1>3 DEF Typed, SecondAttempt
<1>6. delayed' \in Seq(Notification)
  BY <1>1, TailAt DEF Typed, SecondAttempt
<1>7. Typed'
  BY <1>1, <1>4, <1>5, <1>6 DEF Typed, SecondAttempt
<1>8. \A i \in DOMAIN delayed' : i + 1 \in DOMAIN delayed /\ delayed'[i] = delayed[i + 1]
  BY <1>1, TailAt DEF Typed, SecondAttempt
<1>9. ShapeOK'
  BY <1>1, <1>8 DEF ShapeOK, SecondAttempt
<1>10. QED BY <1>7, <1>9

LEMMA HandleNotifiedTyped ==
  ASSUME HostInv, HandleNotified
  PROVE  Typed' /\ ShapeOK'
<1> DEFINE n == notified[1]
<1>1. Typed /\ ShapeOK /\ notified # <<>>
  BY TypedIs DEF HostInv, HandleNotified
<1>2. Head(notified) = n /\ n \in Notification /\ notified' \in Seq(Notification)
  BY <1>1, TailAt DEF Typed, HandleNotified
<1>3. CASE n.kind = "command"
  <2>1. n.sel \in Selector /\ n.req \in Request
    BY <1>2, <1>3 DEF Notification, Selector
  <2>2. PolicyCommand(FALSE, n.sel, n.req) /\ UNCHANGED instances
    BY <1>2, <1>3 DEF HandleNotified
  <2>3. down' \in [Procs -> Seq(Request)] /\ delayed' = delayed
    BY <2>1, <2>2, CommandTyped DEF PolicyCommand
  <2>4. QED BY <1>1, <1>2, <2>2, <2>3 DEF Typed, ShapeOK, HandleNotified
<1>4. CASE n.kind # "command"
  <2>1. ASSUME NEW p \in Procs, instances[p] # None
        PROVE  [instances[p] EXCEPT !.global = TRUE] \in Instance
    BY <1>1, <2>1 DEF Typed, Instance
  <2>2. /\ instances' = [p \in Procs |-> IF p \in get_instances(n.sel)
                            THEN [instances[p] EXCEPT !.global = TRUE] ELSE instances[p]]
        /\ UNCHANGED <<down, delayed>>
    BY <1>2, <1>4 DEF HandleNotified
  <2>3. instances' \in [Procs -> Instance \cup {None}]
    BY <1>1, <2>1, <2>2 DEF Typed, get_instances
  <2>4. QED BY <1>1, <1>2, <2>2, <2>3 DEF Typed, ShapeOK, HandleNotified
<1>5. QED BY <1>3, <1>4

LEMMA HostWaitTyped ==
  ASSUME HostInv, HostWait
  PROVE  Typed' /\ ShapeOK'
<1>1. /\ Typed /\ ShapeOK /\ waiting # None /\ waiting \in Waiting
      /\ waiting.proc \in Procs /\ proc[waiting.proc].state # "none"
      /\ proc[waiting.proc].label \in Labels
  BY TypedIs DEF HostInv, HostWait, ChildExited, DropAnswered, OnboardAnswered, QueryAnswered,
                 Typed, ShapeOK, Waiting, ProcInv, LabelsOK
<1>2. \A f \in {"drop", "query"}, ok \in BOOLEAN :
         /\ [waiting EXCEPT !.for = f, !.ok = ok] \in Waiting
         /\ [waiting EXCEPT !.for = f, !.ok = ok].proc = waiting.proc
         /\ [waiting EXCEPT !.for = f] \in Waiting
         /\ [waiting EXCEPT !.for = f].proc = waiting.proc
  BY <1>1 DEF Waiting
<1>3. CASE ChildExited
  <2>1. /\ waiting' \in Waiting \cup {None}
        /\ waiting' # None => waiting'.proc = waiting.proc
    <3>1. waiting' = None \/ waiting' = [waiting EXCEPT !.for = "drop"]
      BY <1>3 DEF ChildExited
    <3>2. /\ [waiting EXCEPT !.for = "drop"] \in Waiting
          /\ [waiting EXCEPT !.for = "drop"].proc = waiting.proc
      BY <1>2
    <3>3. QED BY <3>1, <3>2
  <2>2. drops' \in [Procs -> Nat]
    <3>1. drops' = drops \/ drops' = [drops EXCEPT ![waiting.proc] = @ + 1]
      BY <1>3 DEF ChildExited
    <3>2. drops \in [Procs -> Nat]
      BY <1>1 DEF Typed
    <3>3. \A p \in Procs : drops[p] + 1 \in Nat
      BY <3>2
    <3> DEFINE w == waiting.proc
    <3>4. w \in Procs /\ (drops' = drops \/ drops' = [drops EXCEPT ![w] = @ + 1])
      BY <1>1, <3>1
    <3> HIDE DEF w
    <3>5. QED BY <3>2, <3>3, <3>4
  <2>3. QED BY <1>1, <1>3, <2>1, <2>2 DEF ChildExited, Typed, ShapeOK
<1>4. CASE DropAnswered
  BY <1>1, <1>4 DEF DropAnswered, Typed, ShapeOK
<1>5. CASE OnboardAnswered
  BY <1>1, <1>2, <1>5 DEF OnboardAnswered, Typed, ShapeOK
<1>6. CASE QueryAnswered
  <2> DEFINE l == proc[waiting.proc].label
  <2>1. ASSUME NEW h \in Hashes
        PROVE  << [kind |-> "command", sel |-> l, req |-> Req("Label")],
                  [kind |-> "command", sel |-> l, req |-> SetPolicyReq(h)],
                  [kind |-> "global", sel |-> l, req |-> None] >> \in Seq(Notification)
    <3>1. Req("Label") \in Request /\ SetPolicyReq(h) \in Request
      BY ReqTyped
    <3>2. /\ [kind |-> "command", sel |-> l, req |-> Req("Label")] \in Notification
          /\ [kind |-> "command", sel |-> l, req |-> SetPolicyReq(h)] \in Notification
          /\ [kind |-> "global", sel |-> l, req |-> None] \in Notification
      BY <1>1, <3>1 DEF Notification, Selector
    <3>3. QED BY <3>2
  <2>2. notified' \in Seq(Notification)
    <3>1. CASE UNCHANGED notified
      BY <1>1, <3>1 DEF Typed
    <3>2. ASSUME NEW h \in Hashes, Notify(l, h) PROVE notified' \in Seq(Notification)
      <4> DEFINE ms == << [kind |-> "command", sel |-> l, req |-> Req("Label")],
                          [kind |-> "command", sel |-> l, req |-> SetPolicyReq(h)],
                          [kind |-> "global", sel |-> l, req |-> None] >>
      <4>1. notified' = notified \o ms
        BY <3>2 DEF Notify
      <4>2. ms \in Seq(Notification) /\ notified \in Seq(Notification)
        BY <1>1, <2>1 DEF Typed
      <4> HIDE DEF ms
      <4>3. QED BY <4>1, <4>2
    <3>3. QED BY <1>6, <3>1, <3>2 DEF QueryAnswered
  <2>3. QED BY <1>1, <1>6, <2>2 DEF QueryAnswered, Typed, ShapeOK
<1>7. QED BY <1>3, <1>4, <1>5, <1>6 DEF HostWait

\* A process is spawned with the label, or nothing happens.
LEMMA LaunchTyped ==
  ASSUME HostInv, NEW l \in Labels, NEW force, Launch(l, force)
  PROVE  /\ proc' \in [Procs -> ProcRec] /\ children' \subseteq Procs
         /\ \/ UNCHANGED <<proc, children>>
            \/ \E p \in Procs :
                 /\ proc[p].state = "none" /\ children' = children \cup {p}
                 /\ proc'[p].state = "spawned" /\ proc'[p].label = l
                 /\ proc'[p].hash = proc[p].hash /\ proc'[p].lost = proc[p].lost
                 /\ proc'[p].ran = proc[p].ran
                 /\ \A q \in Procs \ {p} : proc'[q] = proc[q]
<1>1. proc \in [Procs -> ProcRec] /\ children \subseteq Procs
  BY TypedIs DEF HostInv, Typed
<1>2. CASE UNCHANGED <<proc, children>>
  BY <1>1, <1>2
<1>3. ASSUME NEW p \in Procs, proc[p].state = "none", children' = children \cup {p},
             proc' = [proc EXCEPT ![p].state = "spawned", ![p].label = l]
      PROVE  /\ proc' \in [Procs -> ProcRec] /\ children' \subseteq Procs
             /\ proc'[p].state = "spawned" /\ proc'[p].label = l
             /\ proc'[p].hash = proc[p].hash /\ proc'[p].lost = proc[p].lost
             /\ proc'[p].ran = proc[p].ran
             /\ \A q \in Procs \ {p} : proc'[q] = proc[q]
  BY <1>1, <1>3 DEF ProcRec, ProcState
<1>4. QED BY <1>2, <1>3 DEF Launch

LEMMA LaunchKeepsSpawned ==
  ASSUME HostInv, NEW l \in Labels, NEW force, Launch(l, force)
  PROVE  \A p : (p \in Procs /\ proc[p].state # "none") => proc'[p].state # "none"
BY LaunchTyped

\* What the actor waits for is a process.
LEMMA WaitingProc == (Typed /\ waiting # None) => waiting \in Waiting /\ waiting.proc \in Procs
BY DEF Typed, Waiting

LEMMA CommandLineTyped ==
  ASSUME HostInv, CommandLine
  PROVE  Typed' /\ ShapeOK'
<1>1. Typed /\ ShapeOK
  BY TypedIs DEF HostInv
<1>2. CASE Quit
  <2>1. commands' \in 0..MaxCommands
    BY <1>1, <1>2, CommandCounted DEF Quit, Typed
  <2>2. QED BY <1>1, <1>2, <2>1 DEF Quit, Typed, ShapeOK
<1>3. ASSUME NEW l \in Labels, LaunchCommand(l)
      PROVE  Typed' /\ ShapeOK'
  <2>1. commands' \in 0..MaxCommands /\ Launch(l, TRUE)
    BY <1>1, <1>3, CommandCounted DEF LaunchCommand, Typed
  <2>2. Typed'
    BY <1>1, <1>3, <2>1, LaunchTyped DEF LaunchCommand, Typed
  <2>3. ShapeOK'
    BY <1>1, <1>3, <2>1, LaunchKeepsSpawned, WaitingProc DEF LaunchCommand, ShapeOK, Typed
  <2>4. QED BY <2>2, <2>3
<1>4. ASSUME NEW sel \in Selector, NEW req \in Request, Command(sel, req)
      PROVE  Typed' /\ ShapeOK'
  <2>1. commands' \in 0..MaxCommands /\ PolicyCommand(FALSE, sel, req)
    BY <1>1, <1>4, CommandCounted DEF Command, Typed
  <2>2. down' \in [Procs -> Seq(Request)] /\ delayed' = delayed
    BY <2>1, CommandTyped DEF PolicyCommand
  <2>3. QED BY <1>1, <1>4, <2>1, <2>2 DEF Command, Typed, ShapeOK
<1>5. QED BY <1>2, <1>3, <1>4, ReqTyped DEF CommandLine

LEMMA OnBoardTyped ==
  ASSUME HostInv, NEW t \in Tasks, NEW l \in Labels,
         OnBoardBegin(t, l) \/ OnBoardLaunch(t) \/ OnBoardCommand(t)
  PROVE  Typed' /\ ShapeOK'
<1>1. Typed /\ ShapeOK /\ tasks[t] \in TaskRec
  BY TypedIs DEF HostInv, Typed
<1>2. CASE OnBoardBegin(t, l)
  BY <1>1, <1>2 DEF OnBoardBegin, hostState, Typed, ShapeOK, TaskRec
<1>3. CASE OnBoardLaunch(t)
  <2>1. tasks[t].label \in Labels /\ Launch(tasks[t].label, FALSE)
    BY <1>1, <1>3 DEF OnBoardLaunch, ShapeOK
  <2>2. tasks' \in [Tasks -> TaskRec] /\ tasks'[t].label = tasks[t].label
    BY <1>1, <1>3 DEF OnBoardLaunch, Typed, TaskRec, OnboardOps
  <2>3. Typed'
    BY <1>1, <1>3, <2>1, <2>2, LaunchTyped DEF OnBoardLaunch, Typed
  <2>4. \A u \in Tasks : tasks'[u].step # "new" => tasks'[u].label \in Labels
    BY <1>1, <1>3, <2>1, <2>2 DEF OnBoardLaunch, Typed, ShapeOK
  <2>5. ShapeOK'
    BY <1>1, <1>3, <2>1, <2>4, LaunchKeepsSpawned, WaitingProc DEF OnBoardLaunch, ShapeOK, Typed
  <2>6. QED BY <2>3, <2>5
<1>4. CASE OnBoardCommand(t)
  <2> DEFINE lab == tasks[t].label
             op == tasks[t].step
  <2>1. /\ lab \in Labels /\ lab \in Selector /\ op \in OnboardOps /\ Req(op) \in Request
        /\ PolicyCommand(TRUE, lab, Req(op)) /\ Delivers(lab, op)
    BY <1>1, <1>4, Steps, ReqTyped DEF OnBoardCommand, ShapeOK, OnboardOps, Selector
  <2>2. /\ tasks' \in [Tasks -> TaskRec] /\ tasks'[t].label = lab
        /\ \A u \in Tasks \ {t} : tasks'[u] = tasks[u]
    BY <1>1, <1>4, <2>1, Steps DEF OnBoardCommand, Typed, TaskRec, OnboardOps
  <2> HIDE DEF lab, op
  <2>3. /\ down' \in [Procs -> Seq(Request)] /\ delayed' \in Seq(Notification)
        /\ delivered' \in [Procs -> [OnboardOps -> Nat]]
    BY <2>1, CommandTyped, DeliversTyped
  <2>4. Typed'
    BY <1>1, <1>4, <2>2, <2>3 DEF OnBoardCommand, Typed
  <2>5. \A i \in DOMAIN delayed' : \/ i \in DOMAIN delayed /\ delayed'[i] = delayed[i]
                                   \/ delayed'[i].sel = lab /\ delayed'[i].req = Req(op)
    <3> DEFINE z == [kind |-> "command", sel |-> lab, req |-> Req(op)]
    <3>1. delayed' = delayed \/ delayed' = Append(delayed, z)
      BY <2>1 DEF PolicyCommand
    <3>2. z.sel = lab /\ z.req = Req(op) /\ z \in Notification
      BY <2>1 DEF Notification
    <3> HIDE DEF z
    <3>3. delayed \in Seq(Notification)
      BY <1>1 DEF Typed
    <3>4. CASE delayed' = Append(delayed, z)
      <4>1. \A i \in DOMAIN Append(delayed, z) :
               \/ i \in DOMAIN delayed /\ Append(delayed, z)[i] = delayed[i]
               \/ Append(delayed, z)[i] = z
        BY <3>2, <3>3, AppendAt
      <4>2. QED BY <3>2, <3>4, <4>1
    <3>5. QED BY <3>1, <3>4
  <2>6. \A i \in DOMAIN delayed' : /\ delayed'[i].sel \in Labels
                                   /\ \E o \in OnboardOps : delayed'[i].req = Req(o)
    BY <1>1, <2>1, <2>5 DEF ShapeOK
  <2>7. \A u \in Tasks : tasks'[u].step # "new" => tasks'[u].label \in Labels
    BY <1>1, <2>1, <2>2 DEF ShapeOK
  <2>8. ShapeOK'
    BY <1>1, <1>4, <2>6, <2>7 DEF OnBoardCommand, ShapeOK
  <2>9. QED BY <2>4, <2>8
<1>5. QED BY <1>2, <1>3, <1>4

-----------------------------------------------------------------------------
(* What the steps of a process and the messages it sends do. *)

\* The next message of a process, and what is left of its stream.
LEMMA ReceiveHead ==
  ASSUME HostInv, NEW p \in Procs, Receive(p)
  PROVE  /\ up[p] \in Seq(Response) /\ up[p] # <<>> /\ 1 \in DOMAIN up[p]
         /\ Head(up[p]) = up[p][1] /\ up[p][1] \in Response
         /\ up' \in [Procs -> Seq(Response)] /\ up'[p] = Tail(up[p])
         /\ \A q \in Procs \ {p} : up'[q] = up[q]
         /\ UNCHANGED <<proc, down, tasks, commands>>
         /\ HostReady
BY TypedIs, TailAt DEF HostInv, Typed, Receive, Pop

\* Whatever a message does, it is one of these five.
LEMMA ReceiveCases ==
  ASSUME HostInv, NEW p \in Procs, Receive(p)
  PROVE  \/ up[p][1].msg = "UdsConnect" /\ Connect(p)
         \/ up[p][1].msg = "Connect" /\ up[p][1].hash \in Hashes /\ RegisterProxy(p, up[p][1].hash)
         \/ up[p][1].msg = "Updated" /\ up[p][1].hash \in Hashes /\ RegisterHash(p, up[p][1].hash)
         \/ up[p][1].msg = "CPOnboarding" /\ CPOnboardProxy(p)
         \/ up[p][1].msg \in {"ShuttingDown", "Closed"} /\ Disconnect(p)
<1> DEFINE m == up[p][1]
<1>1. Head(up[p]) = m /\ m \in Response
  BY ReceiveHead
<1>2. \/ m.msg \in {"Connect", "Updated"} /\ m.hash \in Hashes
      \/ m.msg \in {"UdsConnect", "CPOnboarding", "ShuttingDown", "Closed"}
  BY <1>1 DEF Response
<1>3. CASE m.msg = "UdsConnect"
  BY <1>1, <1>3 DEF Receive
<1>4. CASE m.msg = "Connect"
  BY <1>1, <1>2, <1>4 DEF Receive
<1>5. CASE m.msg = "Updated"
  BY <1>1, <1>2, <1>5 DEF Receive
<1>6. CASE m.msg = "CPOnboarding"
  BY <1>1, <1>6 DEF Receive
<1>7. CASE m.msg \in {"ShuttingDown", "Closed"}
  BY <1>1, <1>7 DEF Receive
<1>8. QED BY <1>2, <1>3, <1>4, <1>5, <1>6, <1>7

\* The instance of p is inserted, replaced, changed or removed.
LEMMA ReceiveTyped ==
  ASSUME HostInv, NEW p \in Procs, Receive(p)
  PROVE  Typed' /\ ShapeOK'
<1>1. Typed /\ ShapeOK /\ LabelsOK(p) /\ HostReady /\ UNCHANGED <<proc, down, tasks, commands>>
  BY TypedIs, ReceiveHead DEF HostInv, ProcInv
<1>2. up' \in [Procs -> Seq(Response)]
  BY ReceiveHead
<1>3. ASSUME NEW i \in Instance \cup {None}, instances' = [instances EXCEPT ![p] = i]
      PROVE  instances' \in [Procs -> Instance \cup {None}]
  BY <1>1, <1>3 DEF Typed
<1>4. instances[p] \in Instance \cup {None} /\ proc[p].label \in Labels \cup {None}
  BY <1>1 DEF Typed, ProcRec
<1>5. CASE Connect(p)
  <2>1. [label |-> None, hash |-> DefaultHash, global |-> FALSE] \in Instance
    BY HostConstants DEF Instance
  <2>2. instances' \in [Procs -> Instance \cup {None}]
    BY <1>3, <1>5, <2>1 DEF Connect
  <2>3. QED BY <1>1, <1>2, <1>5, <2>2 DEF Connect, Typed, ShapeOK
<1>6. ASSUME NEW h \in Hashes, RegisterProxy(p, h) PROVE Typed' /\ ShapeOK'
  <2>1. [label |-> proc[p].label, hash |-> h, global |-> FALSE] \in Instance
    BY <1>4 DEF Instance
  <2>2. instances' \in [Procs -> Instance \cup {None}]
    BY <1>1, <1>6, <2>1 DEF RegisterProxy, Typed
  <2>3. QED BY <1>1, <1>2, <1>6, <2>2 DEF RegisterProxy, Typed, ShapeOK
<1>7. ASSUME NEW h \in Hashes, RegisterHash(p, h) PROVE Typed' /\ ShapeOK'
  <2>1. instances[p] # None => [instances[p] EXCEPT !.hash = h] \in Instance
    BY <1>4 DEF Instance
  <2>2. instances' \in [Procs -> Instance \cup {None}]
    BY <1>1, <1>7, <2>1 DEF RegisterHash, Typed
  <2>3. QED BY <1>1, <1>2, <1>7, <2>2 DEF RegisterHash, Typed, ShapeOK
<1>8. \A f \in {"child", "onboard"} :
         /\ [for |-> f, proc |-> p, ok |-> FALSE] \in Waiting
         /\ [for |-> f, proc |-> p, ok |-> FALSE].proc = p
  BY DEF Waiting
<1>9. CASE CPOnboardProxy(p)
  <2>1. \/ waiting' = None
        \/ proc[p].state # "none" /\ waiting' \in Waiting /\ waiting'.proc = p
    BY <1>1, <1>8, <1>9 DEF CPOnboardProxy, LabelsOK
  <2>2. QED BY <1>1, <1>2, <1>9, <2>1 DEF CPOnboardProxy, Typed, ShapeOK
<1>10. CASE Disconnect(p)
  <2>1. \/ waiting' = None
        \/ proc[p].state # "none" /\ waiting' \in Waiting /\ waiting'.proc = p
    BY <1>1, <1>8, <1>10 DEF Disconnect, LabelsOK, Reaps
  <2>2. instances' \in [Procs -> Instance \cup {None}] /\ children' \subseteq Procs
    BY <1>1, <1>3, <1>10 DEF Disconnect, Typed
  <2>3. QED BY <1>1, <1>2, <1>10, <2>1, <2>2 DEF Disconnect, Typed, ShapeOK
<1>11. QED BY <1>5, <1>6, <1>7, <1>9, <1>10, ReceiveCases

\* Process p keeps its label and what it ran, and may send messages; nobody else is
\* concerned.
ProcMoves(p) ==
  /\ proc' \in [Procs -> ProcRec]
  /\ proc'[p].label = proc[p].label
  /\ proc[p].ran \subseteq proc'[p].ran
  /\ proc[p].lost => proc'[p].lost
  /\ \A q \in Procs \ {p} : proc'[q] = proc[q] /\ up'[q] = up[q]
  /\ UNCHANGED <<hostState, tasks, commands>>

Sends1(p, a) == up'[p] = Append(up[p], a)
Sends2(p, a, b) == up'[p] = Append(Append(up[p], a), b)

\* What a process does: it connects; does something the host sees nothing of, its
\* end included; installs a policy and cannot tell; tells its hash; asks to
\* on-board; announces its end; ends.
ProcDoes(p) ==
  \/ /\ proc[p].state = "spawned" /\ proc'[p].state = "running"
     /\ proc'[p].hash = proc[p].hash
     /\ Sends2(p, Res("UdsConnect"), [msg |-> "Connect", hash |-> DefaultHash])
  \/ /\ proc[p].state \in {"spawned", "running", "stopping"}
     /\ proc'[p].state \in Leaving \/ (proc[p].state = "running" /\ proc'[p].state = "running")
     /\ proc'[p].hash = proc[p].hash /\ up'[p] = up[p]
  \/ /\ proc[p].state = "running" /\ proc'[p].state = "running"
     /\ proc[p].lost /\ proc'[p].hash \in proc'[p].ran /\ up'[p] = up[p]
  \/ /\ proc[p].state = "running" /\ proc'[p].state = "running"
     /\ proc'[p].hash \in proc'[p].ran
     /\ Sends1(p, [msg |-> "Updated", hash |-> proc'[p].hash])
  \/ /\ proc[p].state = "running" /\ proc'[p].state = "running"
     /\ proc'[p].hash = proc[p].hash /\ Sends1(p, Res("CPOnboarding"))
  \/ /\ proc[p].state = "running" /\ proc'[p].state = "stopping"
     /\ proc'[p].hash = proc[p].hash /\ Sends1(p, Res("ShuttingDown"))
  \/ /\ proc[p].state \in {"running", "stopping"} /\ proc'[p].state = "exited"
     /\ proc'[p].hash = proc[p].hash /\ Sends1(p, Res("Closed"))

\* Messages get through or, once the stream is lost, do not.
UpKept(p) == up' \in [Procs -> Seq(Response)] /\ \A q \in Procs \ {p} : up'[q] = up[q]

LEMMA SendIs ==
  ASSUME Typed, NEW p \in Procs
  PROVE  /\ \A a \in Response : Send(p, <<a>>) =>
              UpKept(p) /\ IF proc[p].lost THEN up'[p] = up[p] ELSE Sends1(p, a)
         /\ \A a, b \in Response : Send(p, <<a, b>>) =>
              UpKept(p) /\ IF proc[p].lost THEN up'[p] = up[p] ELSE Sends2(p, a, b)
         /\ up' = up => UpKept(p) /\ up'[p] = up[p]
<1>1. up \in [Procs -> Seq(Response)]
  BY DEF Typed
<1>2. ASSUME NEW a \in Response, Send(p, <<a>>)
      PROVE  UpKept(p) /\ IF proc[p].lost THEN up'[p] = up[p] ELSE Sends1(p, a)
  BY <1>1, <1>2 DEF Send, Sends1, UpKept
<1>3. ASSUME NEW a \in Response, NEW b \in Response, Send(p, <<a, b>>)
      PROVE  UpKept(p) /\ IF proc[p].lost THEN up'[p] = up[p] ELSE Sends2(p, a, b)
  BY <1>1, <1>3 DEF Send, Sends2, UpKept
<1>4. QED BY <1>1, <1>2, <1>3 DEF UpKept

LEMMA ResTyped ==
  /\ \A m \in {"UdsConnect", "CPOnboarding", "ShuttingDown", "Closed"} :
       Res(m) \in Response /\ Res(m).msg = m
  /\ \A h \in Hashes : /\ [msg |-> "Connect", hash |-> h] \in Response
                       /\ [msg |-> "Updated", hash |-> h] \in Response
BY DEF Res, Response

LEMMA SendEndIs ==
  ASSUME Typed, NEW p \in Procs, SendEnd(p)
  PROVE  UpKept(p) /\ (up'[p] = up[p] \/ Sends1(p, Res("Closed")))
<1>1. up \in [Procs -> Seq(Response)] /\ Res("Closed") \in Response
  BY ResTyped DEF Typed
<1>2. CASE up' = [up EXCEPT ![p] = Append(@, Res("Closed"))]
  BY <1>1, <1>2 DEF UpKept, Sends1
<1>3. CASE up' = up
  BY <1>1, <1>3 DEF UpKept
<1>4. QED BY <1>2, <1>3 DEF SendEnd

\* A process changes its state, its policy or what gets through, and keeps the rest.
ProcKept(p) ==
  /\ proc' \in [Procs -> ProcRec] /\ proc'[p].label = proc[p].label
  /\ proc[p].ran \subseteq proc'[p].ran /\ (proc[p].lost => proc'[p].lost)
  /\ \A q \in Procs \ {p} : proc'[q] = proc[q]

LEMMA ProcChange ==
  ASSUME Typed, NEW p \in Procs
  PROVE  /\ \A st \in ProcState : proc' = [proc EXCEPT ![p].state = st] =>
              ProcKept(p) /\ proc'[p].state = st /\ proc'[p].hash = proc[p].hash
         /\ \A h \in Hashes \ Oversized :
              proc' = [proc EXCEPT ![p].hash = h, ![p].ran = @ \cup {h}] =>
              /\ ProcKept(p) /\ proc'[p].state = proc[p].state
              /\ proc'[p].hash = h /\ h \in proc'[p].ran
         /\ proc' = [proc EXCEPT ![p].garbled = TRUE] =>
              ProcKept(p) /\ proc'[p].state = proc[p].state /\ proc'[p].hash = proc[p].hash
         /\ proc' = [proc EXCEPT ![p].lost = TRUE] =>
              ProcKept(p) /\ proc'[p].state = proc[p].state /\ proc'[p].hash = proc[p].hash
         /\ proc' = proc =>
              ProcKept(p) /\ proc'[p].state = proc[p].state /\ proc'[p].hash = proc[p].hash
<1>1. proc \in [Procs -> ProcRec] /\ proc[p] \in ProcRec
  BY DEF Typed
<1>2. ASSUME NEW r \in ProcRec, proc' = [proc EXCEPT ![p] = r],
             r.label = proc[p].label, proc[p].ran \subseteq r.ran, proc[p].lost => r.lost
      PROVE  ProcKept(p) /\ proc'[p] = r
  BY <1>1, <1>2 DEF ProcKept
<1>3. ASSUME NEW st \in ProcState, proc' = [proc EXCEPT ![p].state = st]
      PROVE  ProcKept(p) /\ proc'[p].state = st /\ proc'[p].hash = proc[p].hash
  <2> DEFINE r == [proc[p] EXCEPT !.state = st]
  <2>1. /\ r \in ProcRec /\ r.label = proc[p].label /\ r.ran = proc[p].ran
        /\ r.lost = proc[p].lost /\ r.state = st /\ r.hash = proc[p].hash
    BY <1>1 DEF ProcRec
  <2>2. proc' = [proc EXCEPT ![p] = r]
    BY <1>3
  <2> HIDE DEF r
  <2>3. QED BY <1>2, <2>1, <2>2
<1>4. ASSUME NEW h \in Hashes \ Oversized,
             proc' = [proc EXCEPT ![p].hash = h, ![p].ran = @ \cup {h}]
      PROVE  /\ ProcKept(p) /\ proc'[p].state = proc[p].state
             /\ proc'[p].hash = h /\ h \in proc'[p].ran
  <2> DEFINE r == [proc[p] EXCEPT !.hash = h, !.ran = @ \cup {h}]
  <2>1. /\ r \in ProcRec /\ r.label = proc[p].label /\ r.ran = proc[p].ran \cup {h}
        /\ r.lost = proc[p].lost /\ r.state = proc[p].state /\ r.hash = h
    BY <1>1 DEF ProcRec
  <2>2. proc' = [proc EXCEPT ![p] = r]
    BY <1>1, <1>4
  <2> HIDE DEF r
  <2>3. ProcKept(p) /\ proc'[p] = r
    BY <1>2, <2>1, <2>2
  <2>4. QED BY <2>1, <2>3
<1>5. ASSUME proc' = [proc EXCEPT ![p].garbled = TRUE]
      PROVE  ProcKept(p) /\ proc'[p].state = proc[p].state /\ proc'[p].hash = proc[p].hash
  <2> DEFINE r == [proc[p] EXCEPT !.garbled = TRUE]
  <2>1. /\ r \in ProcRec /\ r.label = proc[p].label /\ r.ran = proc[p].ran
        /\ r.lost = proc[p].lost /\ r.state = proc[p].state /\ r.hash = proc[p].hash
    BY <1>1 DEF ProcRec
  <2>2. proc' = [proc EXCEPT ![p] = r]
    BY <1>5
  <2> HIDE DEF r
  <2>3. QED BY <1>2, <2>1, <2>2
<1>6. ASSUME proc' = [proc EXCEPT ![p].lost = TRUE]
      PROVE  ProcKept(p) /\ proc'[p].state = proc[p].state /\ proc'[p].hash = proc[p].hash
  <2> DEFINE r == [proc[p] EXCEPT !.lost = TRUE]
  <2>1. /\ r \in ProcRec /\ r.label = proc[p].label /\ r.ran = proc[p].ran
        /\ r.lost /\ r.state = proc[p].state /\ r.hash = proc[p].hash
    BY <1>1 DEF ProcRec
  <2>2. proc' = [proc EXCEPT ![p] = r]
    BY <1>6
  <2> HIDE DEF r
  <2>3. QED BY <1>2, <2>1, <2>2
<1>7. QED BY <1>1, <1>3, <1>4, <1>5, <1>6 DEF ProcKept

LEMMA ProcHandleDoes ==
  ASSUME HostInv, NEW p \in Procs, ProcHandle(p)
  PROVE  ProcMoves(p) /\ ProcDoes(p) /\ Typed'
<1> DEFINE m == down[p][1]
<1>1. /\ Typed /\ down[p] \in Seq(Request) /\ down[p] # <<>>
      /\ proc[p].state = "running" /\ proc[p].hash \in Hashes \ Oversized
      /\ proc[p].hash \in proc[p].ran
      /\ UNCHANGED <<hostState, tasks, commands>>
  BY TypedIs DEF HostInv, Typed, ProcHandle, ProcRec, ProcInv, HashOK
<1>2. Head(down[p]) = m /\ m \in Request /\ down' \in [Procs -> Seq(Request)]
  <2>1. /\ Head(down[p]) = m /\ m \in Request /\ Tail(down[p]) \in Seq(Request)
    BY <1>1, TailAt
  <2>2. QED BY <1>1, <2>1 DEF Typed, ProcHandle
<1>3. ASSUME ProcKept(p), UpKept(p), ProcDoes(p)
      PROVE  ProcMoves(p) /\ ProcDoes(p) /\ Typed'
  BY <1>1, <1>2, <1>3 DEF ProcMoves, ProcKept, UpKept, hostState, Typed
<1>4. ASSUME ProcKept(p), proc'[p].state = proc[p].state, proc'[p].hash = proc[p].hash,
             UpKept(p), up'[p] = up[p]
      PROVE  ProcMoves(p) /\ ProcDoes(p) /\ Typed'
  BY <1>1, <1>3, <1>4 DEF ProcDoes
<1>5. CASE Garbled(p, m)
  <2>1. proc' = [proc EXCEPT ![p].garbled = TRUE] /\ up' = up
    BY <1>2, <1>5 DEF ProcHandle
  <2>2. QED BY <1>1, <1>4, <2>1, ProcChange, SendIs
<1>6. CASE ~Garbled(p, m) /\ m.op = "SetPolicy"
  <2>1. m.hash \in Hashes \ Oversized
    BY <1>2, <1>6 DEF Garbled, Request
  <2>2. SetPolicy(p, m.hash)
    BY <1>2, <1>6 DEF ProcHandle
  <2>3. /\ UpKept(p)
        /\ IF proc[p].lost THEN up'[p] = up[p]
           ELSE Sends1(p, [msg |-> "Updated", hash |-> m.hash])
    BY <1>1, <2>1, <2>2, ResTyped, SendIs DEF SetPolicy
  <2>4. /\ ProcKept(p) /\ proc'[p].state = proc[p].state
        /\ proc'[p].hash = m.hash /\ m.hash \in proc'[p].ran
    BY <1>1, <2>1, <2>2, ProcChange DEF SetPolicy
  <2>5. ProcDoes(p)
    BY <1>1, <2>3, <2>4 DEF ProcDoes
  <2>6. QED BY <1>3, <2>3, <2>4, <2>5
<1>7. CASE ~Garbled(p, m) /\ m.op = "Status"
  <2>1. Status(p)
    BY <1>2, <1>7 DEF ProcHandle
  <2>2. CASE proc' = [proc EXCEPT ![p].lost = TRUE] /\ up' = up
    BY <1>1, <1>4, <2>2, ProcChange, SendIs
  <2>3. CASE proc' = proc /\ Send(p, <<[msg |-> "Updated", hash |-> proc[p].hash]>>)
    <3>1. /\ UpKept(p)
          /\ IF proc[p].lost THEN up'[p] = up[p]
             ELSE Sends1(p, [msg |-> "Updated", hash |-> proc[p].hash])
      BY <1>1, <2>3, ResTyped, SendIs
    <3>2. ProcKept(p)
      BY <1>1, <2>3, ProcChange
    <3>3. ProcDoes(p)
      BY <1>1, <2>3, <3>1 DEF ProcDoes
    <3>4. QED BY <1>3, <3>1, <3>2, <3>3
  <2>4. QED BY <2>1, <2>2, <2>3 DEF Status
<1>8. CASE ~Garbled(p, m) /\ m.op = "CPOnboard"
  <2>1. proc' = proc /\ Send(p, <<Res("CPOnboarding")>>)
    BY <1>2, <1>8 DEF ProcHandle
  <2>2. UpKept(p) /\ IF proc[p].lost THEN up'[p] = up[p] ELSE Sends1(p, Res("CPOnboarding"))
    BY <1>1, <2>1, ResTyped, SendIs
  <2>3. ProcKept(p)
    BY <1>1, <2>1, ProcChange
  <2>4. ProcDoes(p)
    BY <1>1, <2>1, <2>2 DEF ProcDoes
  <2>5. QED BY <1>3, <2>2, <2>3, <2>4
<1>9. CASE ~Garbled(p, m) /\ m.op = "Shutdown"
  <2>1. Shutdown(p)
    BY <1>2, <1>9 DEF ProcHandle
  <2>2. ProcKept(p) /\ proc'[p].state = "stopping" /\ proc'[p].hash = proc[p].hash
    BY <1>1, <2>1, ProcChange DEF Shutdown, ProcState
  <2>3. UpKept(p) /\ (up'[p] = up[p] \/ Sends1(p, Res("ShuttingDown")))
    BY <1>1, <2>1, ResTyped, SendIs DEF Shutdown
  <2>4. ProcDoes(p)
    BY <1>1, <2>2, <2>3 DEF ProcDoes, Leaving
  <2>5. QED BY <1>3, <2>2, <2>3, <2>4
<1>10. CASE ~Garbled(p, m) /\ m.op \notin {"SetPolicy", "Status", "CPOnboard", "Shutdown"}
  <2>1. proc' = proc /\ up' = up
    BY <1>2, <1>10 DEF ProcHandle
  <2>2. QED BY <1>1, <1>4, <2>1, ProcChange, SendIs
<1>11. QED BY <1>5, <1>6, <1>7, <1>8, <1>9, <1>10

ProcStep(p) ==
  ProcConnect(p) \/ ProcHandle(p) \/ ProcExit(p) \/ ProcCrash(p) \/ ProcNoHost(p)

LEMMA ProcStepDoes ==
  ASSUME HostInv, NEW p \in Procs, ProcStep(p)
  PROVE  ProcMoves(p) /\ ProcDoes(p) /\ Typed'
<1>1. Typed /\ LabelsOK(p)
  BY TypedIs DEF HostInv, ProcInv
<1>2. ASSUME ProcKept(p), UpKept(p), ProcDoes(p), UNCHANGED <<hostState, down, tasks, commands>>
      PROVE  ProcMoves(p) /\ ProcDoes(p) /\ Typed'
  BY <1>1, <1>2 DEF ProcMoves, ProcKept, UpKept, hostState, Typed
<1>3. "running" \in ProcState /\ "exited" \in ProcState
  BY DEF ProcState
<1>4. CASE ProcConnect(p)
  <2>1. /\ proc[p].state = "spawned" /\ proc' = [proc EXCEPT ![p].state = "running"]
        /\ Send(p, <<Res("UdsConnect"), [msg |-> "Connect", hash |-> DefaultHash]>>)
        /\ UNCHANGED <<hostState, down, tasks, commands>>
    BY <1>4 DEF ProcConnect
  <2>2. UpKept(p) /\ Sends2(p, Res("UdsConnect"), [msg |-> "Connect", hash |-> DefaultHash])
    BY <1>1, <2>1, ResTyped, SendIs, HostConstants DEF LabelsOK
  <2>3. ProcKept(p) /\ proc'[p].state = "running" /\ proc'[p].hash = proc[p].hash
    BY <1>1, <1>3, <2>1, ProcChange
  <2>4. ProcDoes(p)
    BY <2>1, <2>2, <2>3 DEF ProcDoes
  <2>5. QED BY <1>2, <2>1, <2>2, <2>3, <2>4
<1>5. CASE ProcExit(p) \/ ProcCrash(p) \/ ProcNoHost(p)
  <2>1. /\ proc[p].state \in {"spawned", "running", "stopping"}
        /\ proc' = [proc EXCEPT ![p].state = "exited"]
        /\ up' = up \/ (SendEnd(p) /\ proc[p].state # "spawned")
        /\ UNCHANGED <<hostState, down, tasks, commands>>
    BY <1>5 DEF ProcExit, ProcCrash, ProcNoHost
  <2>2. ProcKept(p) /\ proc'[p].state = "exited" /\ proc'[p].hash = proc[p].hash
    BY <1>1, <1>3, <2>1, ProcChange
  <2>3. /\ UpKept(p)
        /\ up'[p] = up[p] \/ (proc[p].state # "spawned" /\ Sends1(p, Res("Closed")))
    BY <1>1, <2>1, SendIs, SendEndIs
  <2>4. ProcDoes(p)
    BY <2>1, <2>2, <2>3 DEF ProcDoes, Leaving
  <2>5. QED BY <1>2, <2>1, <2>2, <2>3, <2>4
<1>6. CASE ProcHandle(p)
  BY <1>6, ProcHandleDoes
<1>7. QED BY <1>4, <1>5, <1>6 DEF ProcStep

-----------------------------------------------------------------------------
(* The life cycle of a process. *)

\* The host keeps what it knows of p, and p stays where it is.
LEMMA SameProc ==
  ASSUME HostInv, NEW p \in Procs,
         proc'[p] = proc[p], up'[p] = up[p], drops'[p] = drops[p],
         p \in children' <=> p \in children,
         \/ instances'[p] = instances[p]
         \/ /\ instances[p] # None /\ instances'[p] # None
            /\ instances'[p].label = instances[p].label /\ instances'[p].hash = instances[p].hash,
         delivered'[p] = delivered[p] \/ proc[p].state # "none",
         waiting' = None \/ waiting'.for # "child" \/ waiting'.proc # p \/ waiting' = waiting
  PROVE  ProcInv(p)'
<1>1. ProcInv(p)
  BY DEF HostInv
<1>2. LabelsOK(p)'
  BY <1>1 DEF ProcInv, LabelsOK, Registered
<1>3. StreamOK(p)'
  BY <1>1 DEF ProcInv, StreamOK
<1>4. ChildrenOK(p)'
  BY <1>1 DEF ProcInv, ChildrenOK
<1>5. HashOK(p)'
  BY <1>1 DEF ProcInv, HashOK, Registered
<1>6. QED BY <1>2, <1>3, <1>4, <1>5 DEF ProcInv

\* The messages processes send do not announce a connection twice or after the end.
LEMMA ProcDoesInv ==
  ASSUME HostInv, NEW p \in Procs, ProcMoves(p), ProcDoes(p)
  PROVE  ProcInv(p)'
<1> DEFINE u == up[p]
           cn == [msg |-> "Connect", hash |-> DefaultHash]
<1>1. /\ ProcInv(p) /\ LabelsOK(p) /\ StreamOK(p) /\ ChildrenOK(p) /\ HashOK(p)
      /\ u \in Seq(Response) /\ drops[p] \in Nat
      /\ proc[p].hash \in Hashes /\ proc'[p].hash \in Hashes
  BY TypedIs DEF HostInv, Typed, ProcMoves, ProcRec, ProcInv
<1>2. /\ proc'[p].label = proc[p].label /\ instances' = instances /\ children' = children
      /\ drops' = drops /\ delivered' = delivered /\ waiting' = waiting
      /\ proc[p].ran \subseteq proc'[p].ran /\ (proc[p].lost => proc'[p].lost)
  BY DEF ProcMoves, hostState
<1>3. proc[p].state \in {"spawned", "running", "stopping"}
  BY DEF ProcDoes
<1>4. EndsLast(u) /\ (proc[p].state # "stopping" => ~Ends(u)) /\ drops[p] = 0
  BY <1>1, <1>3 DEF StreamOK, ChildrenOK, Leaving
<1>5. Registered(p)' <=> Registered(p)
  BY <1>2 DEF Registered
<1>6. /\ DefaultHash \in proc'[p].ran /\ HashesIn(u, proc'[p].ran)
      /\ proc[p].hash \in proc'[p].ran
      /\ Registered(p)' => instances'[p].hash \in proc'[p].ran
  BY <1>1, <1>2, <1>5 DEF HashOK, HashesIn
<1>7. CASE proc[p].state = "spawned" /\ proc'[p].state = "running"
  <2>1. /\ Sends2(p, Res("UdsConnect"), cn) /\ u = <<>> /\ instances[p] = None
        /\ proc[p].hash = DefaultHash /\ proc'[p].hash = DefaultHash
        /\ proc[p].label \in Labels
    BY <1>1, <1>7 DEF LabelsOK, ProcDoes, Leaving
  <2>2. Res("UdsConnect") \in Response /\ cn \in Response /\ cn.hash = DefaultHash
    BY ResTyped, HostConstants
  <2>3. /\ ~Ending(Res("UdsConnect")) /\ ~Telling(Res("UdsConnect"))
        /\ ~Ending(cn) /\ Telling(cn)
    BY DEF Res, Ending, Telling
  <2> DEFINE v == Append(u, Res("UdsConnect"))
  <2>4. v \in Seq(Response) /\ ~Ends(v) /\ EndsLast(v) /\ HashesIn(v, proc'[p].ran)
    BY <1>1, <1>4, <1>6, <1>7, <2>2, <2>3, AppendMessage
  <2> HIDE DEF cn, v
  <2>5. /\ ~Ends(up'[p]) /\ EndsLast(up'[p]) /\ NewestIs(up'[p], DefaultHash)
        /\ HashesIn(up'[p], proc'[p].ran)
    <3>1. up'[p] = Append(v, cn)
      BY <2>1 DEF Sends2, v
    <3>2. QED BY <1>6, <2>2, <2>3, <2>4, <3>1, AppendMessage
  <2>6. LabelsOK(p)'
    BY <1>2, <1>7, <2>1 DEF LabelsOK, Registered
  <2>7. StreamOK(p)'
    BY <2>5 DEF StreamOK
  <2>8. ChildrenOK(p)'
    BY <1>1, <1>2, <1>4, <1>7 DEF ChildrenOK, Leaving
  <2>9. HashOK(p)'
    BY <1>6, <2>1, <2>5 DEF HashOK
  <2>10. QED BY <2>6, <2>7, <2>8, <2>9 DEF ProcInv
<1>8. CASE /\ up'[p] = up[p]
           /\ proc'[p].state \in Leaving \/ (proc[p].state = "running" /\ proc'[p].state = "running")
           /\ \/ proc'[p].hash = proc[p].hash
              \/ proc[p].lost /\ proc'[p].hash \in proc'[p].ran
  <2>1. LabelsOK(p)'
    BY <1>1, <1>2, <1>3, <1>5, <1>8 DEF LabelsOK, Leaving
  <2>2. StreamOK(p)'
    BY <1>3, <1>4, <1>8 DEF StreamOK
  <2>3. ChildrenOK(p)'
    BY <1>1, <1>2, <1>3, <1>4, <1>8 DEF ChildrenOK, Leaving
  <2>4. HashOK(p)'
    BY <1>1, <1>2, <1>5, <1>6, <1>8 DEF HashOK
  <2>5. QED BY <2>1, <2>2, <2>3, <2>4 DEF ProcInv
<1>9. ASSUME NEW a \in Response, Sends1(p, a), proc[p].state # "spawned",
             \/ proc[p].state = "running" /\ proc'[p].state = "running" /\ ~Ending(a)
             \/ proc[p].state = "running" /\ proc'[p].state = "stopping"
             \/ proc'[p].state = "exited" /\ a.msg = "Closed",
             \/ Telling(a) /\ a.hash = proc'[p].hash /\ proc'[p].hash \in proc'[p].ran
             \/ ~Telling(a) /\ proc'[p].hash = proc[p].hash,
             ~Opening(a)
      PROVE  ProcInv(p)'
  <2>1. up'[p] = Append(u, a)
    BY <1>9 DEF Sends1
  <2>2. a.msg = "Closed" \/ ~Ends(u)
    BY <1>4, <1>9
  <2>3. /\ EndsLast(up'[p]) /\ (Ends(up'[p]) => Ends(u) \/ Ending(a))
        /\ Opens(up'[p]) => Opens(u)
        /\ Telling(a) => NewestIs(up'[p], a.hash)
        /\ ~Telling(a) /\ NoneTells(u) => NoneTells(up'[p])
        /\ \A h : ~Telling(a) /\ NewestIs(u, h) => NewestIs(up'[p], h)
        /\ HashesIn(up'[p], proc'[p].ran)
    BY <1>1, <1>4, <1>6, <1>9, <2>1, <2>2, AppendMessage
  <2>4. LabelsOK(p)'
    BY <1>1, <1>2, <1>3, <1>5, <1>9 DEF LabelsOK
  <2>5. StreamOK(p)'
    BY <1>4, <1>9, <2>3 DEF StreamOK, Leaving
  <2>6. ChildrenOK(p)'
    BY <1>1, <1>2, <1>3, <1>4, <1>9, <2>3 DEF ChildrenOK, Leaving
  <2>7. HashOK(p)'
    BY <1>1, <1>2, <1>5, <1>6, <1>9, <2>3 DEF HashOK
  <2>8. QED BY <2>4, <2>5, <2>6, <2>7 DEF ProcInv
<1>10. CASE /\ proc[p].state = "running" /\ proc'[p].state = "running"
            /\ proc'[p].hash \in proc'[p].ran
            /\ Sends1(p, [msg |-> "Updated", hash |-> proc'[p].hash])
  <2> DEFINE a == [msg |-> "Updated", hash |-> proc'[p].hash]
  <2>1. a \in Response /\ ~Ending(a) /\ ~Opening(a) /\ Telling(a) /\ a.hash = proc'[p].hash
    BY <1>1, ResTyped DEF Ending, Opening, Telling
  <2>2. Sends1(p, a)
    BY <1>10
  <2> HIDE DEF a
  <2>3. QED BY <1>9, <1>10, <2>1, <2>2
<1>11. \A k \in {"CPOnboarding", "ShuttingDown", "Closed"} :
         /\ Res(k) \in Response /\ ~Opening(Res(k)) /\ ~Telling(Res(k))
         /\ Res(k).msg = k /\ (k = "CPOnboarding" => ~Ending(Res(k)))
  BY ResTyped DEF Res, Opening, Telling, Ending
<1>12. CASE /\ proc[p].state = "running" /\ proc'[p].state = "running"
            /\ proc'[p].hash = proc[p].hash /\ Sends1(p, Res("CPOnboarding"))
  BY <1>9, <1>11, <1>12
<1>13. CASE /\ proc[p].state = "running" /\ proc'[p].state = "stopping"
            /\ proc'[p].hash = proc[p].hash /\ Sends1(p, Res("ShuttingDown"))
  BY <1>9, <1>11, <1>13
<1>14. CASE /\ proc[p].state \in {"running", "stopping"} /\ proc'[p].state = "exited"
            /\ proc'[p].hash = proc[p].hash /\ Sends1(p, Res("Closed"))
  BY <1>9, <1>11, <1>14
<1>15. QED BY <1>7, <1>8, <1>10, <1>12, <1>13, <1>14 DEF ProcDoes

\* The host reads a message of p.
LEMMA ReceiveInv ==
  ASSUME HostInv, NEW p \in Procs, Receive(p)
  PROVE  ProcInv(p)'
<1> DEFINE u == up[p]
           m == up[p][1]
<1>1. /\ ProcInv(p) /\ LabelsOK(p) /\ StreamOK(p) /\ ChildrenOK(p) /\ HashOK(p)
      /\ u \in Seq(Response) /\ u # <<>> /\ drops[p] \in Nat /\ up'[p] = Tail(u)
      /\ proc' = proc /\ waiting = None
      /\ instances[p] \in Instance \cup {None} /\ instances \in [Procs -> Instance \cup {None}]
  BY TypedIs, ReceiveHead DEF HostInv, Typed, ProcInv, HostReady
<1>2. /\ Opens(up'[p]) => Opens(u)
      /\ Opening(m) => Opens(u)
      /\ Ends(up'[p]) => Ends(u)
      /\ Ending(m) => Ends(u) /\ ~Opens(up'[p]) /\ NoneTells(u)
      /\ EndsLast(up'[p])
      /\ NoneTells(u) => NoneTells(up'[p]) /\ ~Telling(m)
      /\ \A h : NewestIs(u, h) =>
             \/ NewestIs(up'[p], h)
             \/ NoneTells(up'[p]) /\ Telling(m) /\ m.hash = h
      /\ HashesIn(up'[p], proc[p].ran) /\ (Telling(m) => m.hash \in proc[p].ran)
  BY <1>1, TailMessage DEF StreamOK, HashOK
<1>3. StreamOK(p)'
  BY <1>1, <1>2 DEF StreamOK
<1>4. proc[p].state \notin {"none", "spawned"} /\ proc[p].label \in Labels /\ proc[p].label # None
  BY <1>1, HostConstants DEF LabelsOK
<1>5. CASE m.msg = "UdsConnect" /\ Connect(p)
  <2> DEFINE i == [label |-> None, hash |-> DefaultHash, global |-> FALSE]
  <2>1. instances'[p] = i /\ i.label = None
    BY <1>1, <1>5 DEF Connect
  <2>2. ~Registered(p)' /\ instances'[p] # None
    <3>1. i \in Instance
      BY HostConstants DEF Instance
    <3>2. QED BY <2>1, <3>1, NoneNotRecord DEF Registered
  <2>3. UNCHANGED <<children, waiting, drops, delivered>>
    BY <1>5 DEF Connect
  <2>4. LabelsOK(p)'
    BY <1>1, <1>4, <2>2, <2>3 DEF LabelsOK
  <2>5. ChildrenOK(p)'
    BY <1>1, <1>2, <1>4, <1>5, <2>3 DEF ChildrenOK, Opening
  <2>6. HashOK(p)'
    BY <1>1, <1>2, <1>5, <2>2 DEF HashOK, Telling
  <2>7. QED BY <1>3, <2>4, <2>5, <2>6 DEF ProcInv
<1>6. CASE m.msg = "Connect" /\ m.hash \in Hashes /\ RegisterProxy(p, m.hash)
  <2>1. \/ instances[p] = None /\ instances'[p] = None
        \/ /\ instances[p] # None
           /\ instances'[p] = [label |-> proc[p].label, hash |-> m.hash, global |-> FALSE]
    BY <1>1, <1>6 DEF RegisterProxy
  <2>2. \/ instances[p] = None /\ instances'[p] = None
        \/ /\ instances[p] # None
           /\ instances'[p].label = proc[p].label /\ instances'[p].hash = m.hash
    BY <2>1
  <2>3. UNCHANGED <<children, waiting, drops, delivered>>
    BY <1>6 DEF RegisterProxy
  <2>4. LabelsOK(p)'
    BY <1>1, <1>4, <2>2, <2>3 DEF LabelsOK, Registered
  <2>5. ChildrenOK(p)'
    BY <1>1, <1>2, <1>4, <2>2, <2>3 DEF ChildrenOK
  <2>6. HashOK(p)'
    BY <1>1, <1>2, <1>6, <2>2 DEF HashOK, Telling, Registered
  <2>7. QED BY <1>3, <2>4, <2>5, <2>6 DEF ProcInv
<1>7. CASE m.msg = "Updated" /\ m.hash \in Hashes /\ RegisterHash(p, m.hash)
  <2>1. \/ ~Registered(p) /\ instances'[p] = instances[p]
        \/ Registered(p) /\ instances'[p] = [instances[p] EXCEPT !.hash = m.hash]
    BY <1>1, <1>7 DEF RegisterHash, Registered
  <2>2. \/ ~Registered(p) /\ instances'[p] = instances[p]
        \/ /\ Registered(p)
           /\ instances'[p].label = instances[p].label /\ instances'[p].hash = m.hash
    BY <1>1, <2>1 DEF Registered, Instance
  <2>3. UNCHANGED <<children, waiting, drops, delivered>>
    BY <1>7 DEF RegisterHash
  <2>4. LabelsOK(p)'
    BY <1>1, <1>4, <2>2, <2>3 DEF LabelsOK, Registered
  <2>5. ChildrenOK(p)'
    BY <1>1, <1>2, <1>4, <2>2, <2>3 DEF ChildrenOK, Registered
  <2>6. HashOK(p)'
    BY <1>1, <1>2, <1>7, <2>2 DEF HashOK, Telling, Registered
  <2>7. QED BY <1>3, <2>4, <2>5, <2>6 DEF ProcInv
<1>8. CASE m.msg = "CPOnboarding" /\ CPOnboardProxy(p)
  <2>1. UNCHANGED <<instances, children, drops, delivered>>
    BY <1>8 DEF CPOnboardProxy
  <2>2. waiting' = None \/ waiting'.for = "onboard"
    BY <1>8 DEF CPOnboardProxy
  <2>3. LabelsOK(p)'
    BY <1>1, <1>4, <2>1 DEF LabelsOK, Registered
  <2>4. ChildrenOK(p)'
    BY <1>1, <1>2, <1>4, <2>1, <2>2 DEF ChildrenOK
  <2>5. HashOK(p)'
    BY <1>1, <1>2, <1>8, <2>1 DEF HashOK, Telling, Registered
  <2>6. QED BY <1>3, <2>3, <2>4, <2>5 DEF ProcInv
<1>9. CASE m.msg \in {"ShuttingDown", "Closed"} /\ Disconnect(p)
  <2>1. /\ Ending(m) /\ proc[p].state \in Leaving /\ instances'[p] = None
        /\ UNCHANGED <<drops, delivered>>
    BY <1>1, <1>2, <1>9 DEF Ending, StreamOK, Disconnect
  <2>2. LabelsOK(p)'
    BY <1>1, <1>4, <2>1 DEF LabelsOK, Registered
  <2>3. ChildrenOK(p)'
    <3>1. CASE Reaps(p)
      <4>1. p \notin children' /\ drops[p] = 0
        BY <1>1, <1>9, <3>1 DEF Disconnect, ChildrenOK, Reaps
      <4>2. QED BY <1>1, <1>2, <2>1, <4>1 DEF ChildrenOK, Leaving
    <3>2. CASE ~Reaps(p)
      <4>1. children' = children /\ waiting' = None
        BY <1>9, <3>2 DEF Disconnect
      <4>2. QED BY <1>1, <1>2, <2>1, <4>1 DEF ChildrenOK, Leaving
    <3>3. QED BY <3>1, <3>2
  <2>4. HashOK(p)'
    BY <1>1, <1>2, <2>1 DEF HashOK, Registered
  <2>5. QED BY <1>3, <2>2, <2>3, <2>4 DEF ProcInv
<1>10. QED BY <1>5, <1>6, <1>7, <1>8, <1>9, ReceiveCases

\* Reading a message of p concerns no other process.
LEMMA ReceiveOthers ==
  ASSUME HostInv, NEW p \in Procs, Receive(p), NEW q \in Procs \ {p}
  PROVE  ProcInv(q)'
<1>1. /\ proc' = proc /\ up'[q] = up[q] /\ waiting = None
      /\ instances \in [Procs -> Instance \cup {None}]
  BY TypedIs, ReceiveHead DEF HostInv, Typed, HostReady
<1>2. /\ drops' = drops /\ delivered' = delivered /\ instances'[q] = instances[q]
      /\ q \in children' <=> q \in children
  BY <1>1, ReceiveCases DEF Connect, RegisterProxy, RegisterHash, CPOnboardProxy, Disconnect
<1>3. waiting' = None \/ waiting' = waiting \/ waiting'.proc = p
  BY ReceiveCases DEF Connect, RegisterProxy, RegisterHash, CPOnboardProxy, Disconnect
<1>4. QED BY <1>1, <1>2, <1>3, SameProc

\* The process that is spawned is one the host never heard of.
LEMMA LaunchInv ==
  ASSUME HostInv, NEW l \in Labels, NEW force, Launch(l, force),
         UNCHANGED <<instances, up, drops, delivered, waiting>>, NEW q \in Procs
  PROVE  ProcInv(q)'
<1>1. CASE UNCHANGED <<proc, children>>
  BY <1>1, SameProc
<1>2. ASSUME NEW p \in Procs, proc[p].state = "none", children' = children \cup {p},
             proc'[p].state = "spawned", proc'[p].label = l, proc'[p].hash = proc[p].hash,
             proc'[p].lost = proc[p].lost, proc'[p].ran = proc[p].ran,
             \A r \in Procs \ {p} : proc'[r] = proc[r]
      PROVE  ProcInv(q)'
  <2>1. CASE q # p
    <3>1. proc'[q] = proc[q] /\ (q \in children' <=> q \in children)
      BY <1>2, <2>1
    <3>2. QED BY <3>1, SameProc
  <2>2. CASE q = p
    <3>1. ProcInv(p)
      BY DEF HostInv
    <3>2. /\ instances[p] = None /\ up[p] = <<>>
          /\ proc[p].hash = DefaultHash /\ ~proc[p].lost
          /\ drops[p] <= 1 /\ drops[p] # 1
          /\ EndsLast(up[p]) /\ ~Ends(up[p])
      BY <1>2, <3>1 DEF ProcInv, LabelsOK, ChildrenOK, StreamOK, Leaving
    <3>3. LabelsOK(p)'
      BY <1>2, <3>2 DEF LabelsOK, Registered
    <3>4. StreamOK(p)'
      BY <3>2 DEF StreamOK
    <3>5. ChildrenOK(p)'
      <4>1. ~(waiting # None /\ waiting.for = "child" /\ waiting.proc = p)
        BY <1>2 DEF HostInv, ShapeOK
      <4>2. QED BY <1>2, <3>2, <4>1 DEF ChildrenOK
    <3>6. HashOK(p)'
      BY <1>2, <3>1, <3>2 DEF ProcInv, HashOK, Registered
    <3>7. QED BY <2>2, <3>3, <3>4, <3>5, <3>6 DEF ProcInv
  <2>3. QED BY <2>1, <2>2
<1>3. QED BY <1>1, <1>2, LaunchTyped

\* The service of a process is dropped after it was collected, and then it is not
\* collected again.
LEMMA HostWaitInv ==
  ASSUME HostInv, HostWait, NEW q \in Procs
  PROVE  ProcInv(q)'
<1>1. /\ UNCHANGED <<instances, children, delivered, proc, up>>
      /\ waiting # None /\ waiting \in Waiting /\ waiting.proc \in Procs
      /\ drops \in [Procs -> Nat]
  BY TypedIs DEF HostInv, HostWait, ChildExited, DropAnswered, OnboardAnswered, QueryAnswered,
                 Typed, Waiting
<1>2. \A f \in {"drop", "query"}, ok \in BOOLEAN :
         /\ [waiting EXCEPT !.for = f, !.ok = ok].for = f
         /\ [waiting EXCEPT !.for = f].for = f
  BY <1>1 DEF Waiting
<1>3. CASE DropAnswered \/ OnboardAnswered \/ QueryAnswered
  <2>1. drops' = drops
    BY <1>3 DEF DropAnswered, OnboardAnswered, QueryAnswered
  <2>2. waiting' = None \/ waiting'.for = "query"
    BY <1>2, <1>3 DEF DropAnswered, OnboardAnswered, QueryAnswered
  <2>3. QED BY <1>1, <2>1, <2>2, SameProc
<1>4. CASE ChildExited
  <2> DEFINE w == waiting.proc
  <2>1. \/ waiting' = None /\ drops' = drops
        \/ waiting'.for = "drop" /\ drops' = [drops EXCEPT ![w] = @ + 1]
    <3>1. \/ waiting' = None /\ drops' = drops
          \/ /\ waiting' = [waiting EXCEPT !.for = "drop"]
             /\ drops' = [drops EXCEPT ![waiting.proc] = @ + 1]
      BY <1>4 DEF ChildExited
    <3>2. QED BY <1>2, <3>1
  <2>2. waiting.for = "child"
    BY <1>4 DEF ChildExited
  <2>3. CASE drops'[q] = drops[q]
    <3>1. waiting' = None \/ waiting'.for # "child"
      BY <2>1
    <3>2. QED BY <1>1, <2>3, <3>1, SameProc
  <2>4. CASE drops'[q] # drops[q]
    <3>1. /\ q = w /\ waiting'.for = "drop"
          /\ drops' = [drops EXCEPT ![w] = @ + 1]
      BY <1>1, <2>1, <2>4
    <3>2. ProcInv(q)
      BY DEF HostInv
    <3>3. proc[q].state = "exited" /\ q \notin children /\ drops[q] = 0
      BY <1>1, <1>4, <2>2, <3>1, <3>2 DEF ProcInv, ChildrenOK, ChildExited
    <3>4. drops'[q] = 1
      BY <1>1, <3>1, <3>3
    <3>5. LabelsOK(q)' /\ StreamOK(q)' /\ HashOK(q)'
      BY <1>1, <3>2 DEF ProcInv, LabelsOK, StreamOK, HashOK, Registered
    <3>6. ChildrenOK(q)'
      BY <1>1, <3>1, <3>2, <3>3, <3>4 DEF ProcInv, ChildrenOK
    <3>7. QED BY <3>5, <3>6 DEF ProcInv
  <2>5. QED BY <2>3, <2>4
<1>5. QED BY <1>3, <1>4 DEF HostWait

-----------------------------------------------------------------------------
(* Counting the commands. *)

\* A set of numbers keeps its size when each is made one less.
LEMMA ShiftCardinality ==
  ASSUME NEW S \in SUBSET Int, NEW T \in SUBSET Int, IsFiniteSet(S),
         \A i \in S : i - 1 \in T, \A j \in T : j + 1 \in S
  PROVE  IsFiniteSet(T) /\ Cardinality(T) = Cardinality(S)
<1> DEFINE f == [i \in S |-> i - 1]
<1>1. f \in [S -> T]
  OBVIOUS
<1>2. \A i, j \in S : f[i] = f[j] => i = j
  OBVIOUS
<1>3. \A j \in T : \E i \in S : f[i] = j
  <2>1. ASSUME NEW j \in T PROVE j + 1 \in S /\ f[j + 1] = j
    OBVIOUS
  <2>2. QED BY <2>1
<1> HIDE DEF f
<1>4. f \in Bijection(S, T)
  BY <1>1, <1>2, <1>3 DEF Bijection, Injection, IsInjective, Surjection
<1>5. ExistsBijection(S, T)
  BY <1>4 DEF ExistsBijection
<1>6. QED BY <1>5, FS_Bijection

\* The retry at the head of the queue is no longer pending, all others are.
LEMMA PendingTail ==
  ASSUME HostInv, delayed # <<>>, delayed' = Tail(delayed),
         NEW l \in Labels, NEW op \in OnboardOps
  PROVE  /\ IsFiniteSet(Pending(l, op)')
         /\ Cardinality(Pending(l, op)') = Cardinality(Pending(l, op) \ {1})
<1> DEFINE S == Pending(l, op) \ {1}
           T == Pending(l, op)'
<1>1. /\ delayed \in Seq(Notification) /\ IsFiniteSet(Pending(l, op))
  BY TypedIs DEF HostInv, Typed, CountsOK
<1>2. /\ \A i \in DOMAIN delayed' : /\ i \in Int /\ i + 1 # 1 /\ i + 1 \in DOMAIN delayed
                                    /\ delayed'[i] = delayed[i + 1]
      /\ \A i \in DOMAIN delayed : /\ i \in Int
                                   /\ i # 1 => /\ i - 1 \in DOMAIN delayed'
                                               /\ delayed'[i - 1] = delayed[i]
  BY <1>1, TailAt
<1>3. S \subseteq Int /\ T \subseteq Int
  BY <1>2 DEF Pending
<1>4. \A i \in S : i - 1 \in T
  BY <1>2 DEF Pending
<1>5. \A j \in T : j + 1 \in S
  BY <1>2 DEF Pending
<1>6. IsFiniteSet(S)
  BY <1>1, FS_RemoveElement
<1> HIDE DEF S, T
<1>7. IsFiniteSet(T) /\ Cardinality(T) = Cardinality(S)
  BY <1>3, <1>4, <1>5, <1>6, ShiftCardinality
<1>8. QED BY <1>7 DEF S, T

\* Only instances of processes with the label are selected by a label.
LEMMA SelectedLabel ==
  ASSUME HostInv, NEW l \in Labels, NEW p \in get_instances(l)
  PROVE  p \in Procs /\ proc[p].label = l /\ proc[p].state # "none"
<1>1. p \in Procs /\ instances[p] # None /\ instances[p].label = l /\ l # None
  BY HostConstants DEF get_instances
<1>2. LabelsOK(p)
  BY <1>1 DEF HostInv, ProcInv
<1>3. QED BY <1>1, <1>2 DEF LabelsOK, Registered

LEMMA CountFacts ==
  ASSUME HostInv, NEW l \in Labels, NEW op \in OnboardOps
  PROVE  /\ IsFiniteSet(Issued(l, op)) /\ IsFiniteSet(Pending(l, op))
         /\ Cardinality(Issued(l, op)) \in Nat /\ Cardinality(Pending(l, op)) \in Nat
         /\ Cardinality(Pending(l, op)) <= Cardinality(Issued(l, op))
         /\ \A p \in Procs : /\ delivered[p][op] \in Nat
                             /\ proc[p].label = l =>
                                  delivered[p][op] + Cardinality(Pending(l, op))
                                    <= Cardinality(Issued(l, op))
<1>1. /\ IsFiniteSet(Issued(l, op)) /\ IsFiniteSet(Pending(l, op))
      /\ Cardinality(Pending(l, op)) <= Cardinality(Issued(l, op))
      /\ \A p \in Procs : proc[p].label = l =>
            delivered[p][op] + Cardinality(Pending(l, op)) <= Cardinality(Issued(l, op))
  BY HostConstants DEF HostInv, CountsOK
<1>2. Cardinality(Issued(l, op)) \in Nat /\ Cardinality(Pending(l, op)) \in Nat
  BY <1>1, FS_CardinalityType
<1>3. \A p \in Procs : delivered[p][op] \in Nat
  BY TypedIs DEF HostInv, Typed
<1>4. QED BY <1>1, <1>2, <1>3

\* It is enough to look at each label and command.
LEMMA CountsFrom ==
  ASSUME \A p \in Procs : proc'[p].label \in Labels \cup {None},
         \A l \in Labels, op \in OnboardOps :
           /\ IsFiniteSet(Issued(l, op)') /\ IsFiniteSet(Pending(l, op)')
           /\ Cardinality(Pending(l, op)') <= Cardinality(Issued(l, op)')
           /\ \A p \in Procs : proc'[p].label = l =>
                delivered'[p][op] + Cardinality(Pending(l, op)')
                  <= Cardinality(Issued(l, op)')
  PROVE  CountsOK'
<1>1. ASSUME NEW p \in Procs, NEW op \in OnboardOps, proc'[p].label # None
      PROVE  (delivered[p][op] + Cardinality(Pending(proc[p].label, op))
                <= Cardinality(Issued(proc[p].label, op)))'
  <2>1. PICK l \in Labels : l = proc'[p].label
    BY <1>1
  <2>2. delivered'[p][op] + Cardinality(Pending(l, op)') <= Cardinality(Issued(l, op)')
    BY <2>1
  <2>3. QED BY <2>1, <2>2 DEF Pending, Issued
<1>2. QED BY <1>1 DEF CountsOK

\* No command is issued, tried again or sent.  A process may get its label.
LEMMA CountsSame ==
  ASSUME HostInv, delayed' = delayed, delivered' = delivered,
         \A l \in Labels, op \in OnboardOps : Issued(l, op)' = Issued(l, op),
         \A p \in Procs : \/ proc'[p].label = proc[p].label
                          \/ proc[p].state = "none" /\ proc'[p].label \in Labels
  PROVE  CountsOK'
<1>1. \A p \in Procs : /\ proc[p].label \in Labels \cup {None}
                      /\ \A op \in OnboardOps : proc[p].state = "none" => delivered[p][op] = 0
  BY TypedIs DEF HostInv, Typed, ProcRec, ProcInv, LabelsOK
<1>2. \A p \in Procs : proc'[p].label \in Labels \cup {None}
  BY <1>1
<1>3. ASSUME NEW l \in Labels, NEW op \in OnboardOps
      PROVE  /\ IsFiniteSet(Issued(l, op)') /\ IsFiniteSet(Pending(l, op)')
             /\ Cardinality(Pending(l, op)') <= Cardinality(Issued(l, op)')
             /\ \A p \in Procs : proc'[p].label = l =>
                  delivered'[p][op] + Cardinality(Pending(l, op)')
                    <= Cardinality(Issued(l, op)')
  <2>1. Issued(l, op)' = Issued(l, op) /\ Pending(l, op)' = Pending(l, op)
    BY DEF Pending
  <2>2. ASSUME NEW p \in Procs, proc'[p].label = l
        PROVE  delivered'[p][op] + Cardinality(Pending(l, op)') <= Cardinality(Issued(l, op)')
    <3>1. CASE proc[p].label = l
      BY <2>1, <3>1, CountFacts
    <3>2. CASE proc[p].label # l
      <4>1. delivered'[p][op] = 0
        BY <1>1, <2>2, <3>2
      <4>2. QED BY <2>1, <4>1, CountFacts
    <3>3. QED BY <3>1, <3>2
  <2>3. QED BY <2>1, <2>2, CountFacts
<1>4. QED BY <1>2, <1>3, CountsFrom

\* The second attempt sends what was pending, or gives it up.
LEMMA SecondAttemptCounts ==
  ASSUME HostInv, SecondAttempt
  PROVE  CountsOK'
<1> DEFINE c == delayed[1]
<1>1. /\ delayed \in Seq(Notification) /\ delayed # <<>> /\ delayed' = Tail(delayed)
      /\ UNCHANGED <<tasks, proc>> /\ 1 \in DOMAIN delayed /\ Head(delayed) = c
  BY TypedIs, TailAt DEF HostInv, Typed, SecondAttempt
<1>2. PICK k \in OnboardOps : c.req = Req(k)
  BY <1>1 DEF HostInv, ShapeOK
<1>3. c.sel \in Labels /\ c.req.op = k /\ Delivers(c.sel, k)
  BY <1>1, <1>2 DEF HostInv, ShapeOK, Req, SecondAttempt
<1> DEFINE s == c.sel
<1>4. s \in Labels /\ 1 \in Pending(s, k)
  BY <1>1, <1>2, <1>3 DEF Pending
<1>5. /\ \A p \in Procs : p \notin get_instances(s) => delivered'[p] = delivered[p]
      /\ \A p \in get_instances(s) :
           /\ delivered'[p][k] = delivered[p][k] + 1
           /\ \A o \in OnboardOps \ {k} : delivered'[p][o] = delivered[p][o]
  BY <1>3, DeliversTyped
<1> HIDE DEF s
<1>6. \A p \in Procs : proc'[p].label \in Labels \cup {None}
  BY <1>1, TypedIs DEF HostInv, Typed, ProcRec
<1>7. ASSUME NEW l \in Labels, NEW op \in OnboardOps
      PROVE  /\ IsFiniteSet(Issued(l, op)') /\ IsFiniteSet(Pending(l, op)')
             /\ Cardinality(Pending(l, op)') <= Cardinality(Issued(l, op)')
             /\ \A p \in Procs : proc'[p].label = l =>
                  delivered'[p][op] + Cardinality(Pending(l, op)')
                    <= Cardinality(Issued(l, op)')
  <2>1. Issued(l, op)' = Issued(l, op)
    BY <1>1 DEF Issued
  <2>2. /\ IsFiniteSet(Pending(l, op)') /\ Cardinality(Pending(l, op)') \in Nat
        /\ Cardinality(Pending(l, op)') =
             IF 1 \in Pending(l, op) THEN Cardinality(Pending(l, op)) - 1
                                     ELSE Cardinality(Pending(l, op))
    BY <1>1, CountFacts, PendingTail, FS_RemoveElement, FS_CardinalityType
  <2>3. Cardinality(Pending(l, op)') <= Cardinality(Pending(l, op))
    BY <2>2, CountFacts
  <2>4. ASSUME NEW p \in Procs, proc'[p].label = l
        PROVE  delivered'[p][op] + Cardinality(Pending(l, op)') <= Cardinality(Issued(l, op)')
    <3>1. CASE p \in get_instances(s) /\ op = k
      <4>1. l = s
        BY <1>1, <1>4, <2>4, <3>1, SelectedLabel
      <4>2. Cardinality(Pending(l, op)') = Cardinality(Pending(l, op)) - 1
        BY <1>4, <2>2, <3>1, <4>1
      <4>3. delivered'[p][op] = delivered[p][op] + 1
        BY <1>5, <3>1
      <4>4. /\ delivered[p][op] \in Nat /\ Cardinality(Pending(l, op)) \in Nat
            /\ Cardinality(Issued(l, op)) \in Nat
            /\ delivered[p][op] + Cardinality(Pending(l, op)) <= Cardinality(Issued(l, op))
        BY <1>1, <2>4, CountFacts
      <4>5. QED BY <2>1, <4>2, <4>3, <4>4
    <3>2. CASE ~(p \in get_instances(s) /\ op = k)
      <4>1. delivered'[p][op] = delivered[p][op]
        BY <1>5, <3>2
      <4>2. QED BY <1>1, <2>1, <2>2, <2>3, <2>4, <4>1, CountFacts
    <3>3. QED BY <3>1, <3>2
  <2>5. QED BY <2>1, <2>2, <2>3, <2>4, CountFacts
<1>8. QED BY <1>6, <1>7, CountsFrom

\* A handler issues a command: it is sent, or pending if there is nobody to send it to.
LEMMA OnBoardCommandCounts ==
  ASSUME HostInv, NEW t \in Tasks, OnBoardCommand(t)
  PROVE  CountsOK'
<1> DEFINE s == tasks[t].label
           k == tasks[t].step
           z == [kind |-> "command", sel |-> s, req |-> Req(k)]
<1>1. /\ Typed /\ k \in OnboardOps /\ s \in Labels /\ s \in Selector /\ Req(k) \in Request
      /\ PolicyCommand(TRUE, s, Req(k)) /\ Delivers(s, k) /\ proc' = proc
      /\ tasks' = [tasks EXCEPT ![t].step = NextStep[@]]
  BY TypedIs, Steps, ReqTyped DEF HostInv, ShapeOK, OnBoardCommand, Selector, OnboardOps
<1>2. delayed' = IF get_instances(s) = {} THEN Append(delayed, z) ELSE delayed
  BY <1>1 DEF PolicyCommand
<1>3. z \in Notification /\ z.sel = s /\ z.req = Req(k)
  BY <1>1 DEF Notification
<1>4. /\ tasks'[t].label = s /\ tasks'[t].step = NextStep[k]
      /\ \A u \in Tasks \ {t} : tasks'[u] = tasks[u]
  BY <1>1 DEF Typed, TaskRec
<1> HIDE DEF z
<1>5. /\ \A p \in Procs : p \notin get_instances(s) => delivered'[p] = delivered[p]
      /\ \A p \in get_instances(s) :
           /\ delivered'[p][k] = delivered[p][k] + 1
           /\ \A o \in OnboardOps \ {k} : delivered'[p][o] = delivered[p][o]
  BY <1>1, DeliversTyped
<1>6. \A p \in Procs : proc'[p].label \in Labels \cup {None}
  BY <1>1 DEF Typed, ProcRec
<1>7. ASSUME NEW l \in Labels, NEW op \in OnboardOps
      PROVE  /\ t \notin Issued(s, k)
             /\ Issued(l, op)' = IF l = s /\ op = k THEN Issued(l, op) \cup {t} ELSE Issued(l, op)
  <2>1. t \notin Issued(s, k)
    BY <1>1 DEF Issued, OnboardOps
  <2>2. ASSUME NEW u \in Tasks \ {t} PROVE u \in Issued(l, op)' <=> u \in Issued(l, op)
    BY <1>4 DEF Issued
  <2>3. t \in Issued(l, op)' <=> t \in Issued(l, op) \/ (l = s /\ op = k)
    BY <1>1, <1>4, Steps DEF Issued, OnboardOps
  <2>4. Issued(l, op) \subseteq Tasks /\ Issued(l, op)' \subseteq Tasks
    BY DEF Issued
  <2>5. QED BY <2>1, <2>2, <2>3, <2>4
<1>8. ASSUME NEW l \in Labels, NEW op \in OnboardOps
      PROVE  Pending(l, op)' = IF get_instances(s) = {} /\ l = s /\ op = k
                               THEN Pending(l, op) \cup {Len(delayed) + 1} ELSE Pending(l, op)
  <2>1. CASE get_instances(s) # {}
    BY <1>2, <2>1 DEF Pending
  <2>2. CASE get_instances(s) = {}
    <3>1. delayed' = Append(delayed, z) /\ delayed \in Seq(Notification)
      BY <1>1, <1>2, <2>2 DEF Typed
    <3>2. /\ Len(delayed) + 1 \in DOMAIN delayed' /\ delayed'[Len(delayed) + 1] = z
          /\ \A i \in DOMAIN delayed : i \in DOMAIN delayed' /\ delayed'[i] = delayed[i]
          /\ \A i \in DOMAIN delayed' : i \in DOMAIN delayed \/ i = Len(delayed) + 1
          /\ Len(delayed) + 1 \notin DOMAIN delayed
      BY <1>3, <3>1, AppendAt
    <3>3. z.sel = l /\ z.req = Req(op) <=> l = s /\ op = k
      BY <1>3, ReqTyped
    <3> DEFINE n == Len(delayed) + 1
    <3> HIDE DEF n
    <3>4. ASSUME NEW i PROVE i \in Pending(l, op)' <=>
                               i \in Pending(l, op) \/ (i = n /\ l = s /\ op = k)
      BY <3>2, <3>3 DEF Pending, n
    <3>5. QED BY <2>2, <3>4 DEF n
  <2>3. QED BY <2>1, <2>2
<1>9. \A l \in Labels, op \in OnboardOps : Len(delayed) + 1 \notin Pending(l, op)
  <2>1. Len(delayed) + 1 \notin DOMAIN delayed
    BY <1>1 DEF Typed
  <2>2. QED BY <2>1 DEF Pending
<1> HIDE DEF s, k
<1>10. ASSUME NEW l \in Labels, NEW op \in OnboardOps
      PROVE  /\ IsFiniteSet(Issued(l, op)') /\ IsFiniteSet(Pending(l, op)')
             /\ Cardinality(Pending(l, op)') <= Cardinality(Issued(l, op)')
             /\ \A p \in Procs : proc'[p].label = l =>
                  delivered'[p][op] + Cardinality(Pending(l, op)')
                    <= Cardinality(Issued(l, op)')
  <2>1. CASE l = s /\ op = k
    <3>1. /\ IsFiniteSet(Issued(l, op)')
          /\ Cardinality(Issued(l, op)') = Cardinality(Issued(l, op)) + 1
      BY <1>7, <2>1, CountFacts, FS_AddElement
    <3>2. CASE get_instances(s) = {}
      <4>1. /\ IsFiniteSet(Pending(l, op)')
            /\ Cardinality(Pending(l, op)') = Cardinality(Pending(l, op)) + 1
        BY <1>8, <1>9, <2>1, <3>2, CountFacts, FS_AddElement
      <4>2. \A p \in Procs : delivered'[p] = delivered[p]
        BY <1>5, <3>2
      <4>3. QED BY <1>1, <3>1, <4>1, <4>2, CountFacts
    <3>3. CASE get_instances(s) # {}
      <4>1. Pending(l, op)' = Pending(l, op)
        BY <1>8, <3>3
      <4>2. \A p \in Procs : \/ delivered'[p][op] = delivered[p][op]
                             \/ delivered'[p][op] = delivered[p][op] + 1
        BY <1>5, <2>1
      <4>3. QED BY <1>1, <3>1, <4>1, <4>2, CountFacts
    <3>4. QED BY <3>2, <3>3
  <2>2. CASE ~(l = s /\ op = k)
    <3>1. Issued(l, op)' = Issued(l, op) /\ Pending(l, op)' = Pending(l, op)
      BY <1>7, <1>8, <2>2
    <3>2. ASSUME NEW p \in Procs, proc'[p].label = l
          PROVE  delivered'[p][op] = delivered[p][op]
      BY <1>1, <1>5, <2>2, <3>2, SelectedLabel
    <3>3. QED BY <1>1, <3>1, <3>2, CountFacts
  <2>3. QED BY <2>1, <2>2
<1>11. QED BY <1>6, <1>10, CountsFrom

-----------------------------------------------------------------------------
(* The steps together. *)

LEMMA HostStepInv ==
  ASSUME HostInv, HostNext
  PROVE  HostInv'
<1> DEFINE Kept == Typed' /\ ShapeOK' /\ (\A q \in Procs : ProcInv(q)') /\ CountsOK'
<1>1. ASSUME Kept PROVE HostInv'
  <2>1. HostTypeOK'
    BY <1>1, TypedIs, Steps DEF HostTypeOK, Typed, ProcRec, TaskRec
  <2>2. QED BY <1>1, <2>1 DEF HostInv
<1>3. CASE SecondAttempt
  <2>1. ASSUME NEW q \in Procs PROVE ProcInv(q)'
    <3> DEFINE c == delayed[1]
    <3>1. /\ Head(delayed) = c /\ c.sel \in Labels /\ c.req.op \in OnboardOps
          /\ Delivers(c.sel, c.req.op)
      <4>1. delayed \in Seq(Notification) /\ delayed # <<>>
        BY <1>3, TypedIs DEF HostInv, Typed, SecondAttempt
      <4>2. Head(delayed) = c /\ 1 \in DOMAIN delayed
        BY <4>1, TailAt
      <4>3. c.sel \in Labels /\ \E op \in OnboardOps : c.req = Req(op)
        BY <4>2 DEF HostInv, ShapeOK
      <4>4. c.req.op \in OnboardOps
        BY <4>3 DEF Req
      <4>5. QED BY <1>3, <4>2, <4>3, <4>4 DEF SecondAttempt
    <3>2. delivered'[q] = delivered[q] \/ proc[q].state # "none"
      BY <3>1, DeliversTyped, SelectedLabel
    <3>3. QED BY <1>3, <3>2, SameProc DEF SecondAttempt
  <2>2. QED BY <1>1, <1>3, <2>1, SecondAttemptTyped, SecondAttemptCounts
<1>4. CASE HandleNotified
  <2>1. UNCHANGED <<children, waiting, drops, delivered, proc, up, tasks>> /\ Typed
    BY <1>4, TypedIs DEF HandleNotified, HostInv
  <2>2. delayed' = delayed
    BY <1>4 DEF HandleNotified, PolicyCommand
  <2>3. CountsOK'
    BY <2>1, <2>2, CountsSame DEF Issued
  <2>4. ASSUME NEW q \in Procs PROVE ProcInv(q)'
    <3>1. \/ instances'[q] = instances[q]
          \/ /\ instances[q] # None
             /\ instances'[q] = [instances[q] EXCEPT !.global = TRUE]
      BY <1>4 DEF HandleNotified, get_instances
    <3>2. instances[q] \in Instance \cup {None}
      BY <2>1 DEF Typed
    <3>3. \/ instances'[q] = instances[q]
          \/ /\ instances[q] # None /\ instances'[q] \in Instance
             /\ instances'[q].label = instances[q].label
             /\ instances'[q].hash = instances[q].hash
      BY <3>1, <3>2 DEF Instance
    <3>4. QED BY <2>1, <3>3, SameProc, NoneNotRecord
  <2>5. QED BY <1>1, <1>4, <2>3, <2>4, HandleNotifiedTyped
<1>5. CASE HostWait
  <2>1. UNCHANGED <<delayed, delivered, proc, tasks>>
    BY <1>5 DEF HostWait, ChildExited, DropAnswered, OnboardAnswered, QueryAnswered
  <2>2. CountsOK'
    BY <2>1, CountsSame DEF Issued
  <2>3. QED BY <1>1, <1>5, <2>2, HostWaitTyped, HostWaitInv
<1>6. ASSUME NEW l \in Labels, NEW force, Launch(l, force)
      PROVE  \A p \in Procs : \/ proc'[p].label = proc[p].label
                              \/ proc[p].state = "none" /\ proc'[p].label \in Labels
  BY <1>6, LaunchTyped
<1>7. CASE CommandLine
  <2>1. ASSUME NEW l \in Labels, LaunchCommand(l)
        PROVE  CountsOK' /\ \A q \in Procs : ProcInv(q)'
    <3>1. /\ Launch(l, TRUE)
          /\ UNCHANGED <<instances, waiting, delayed, up, tasks, drops, delivered>>
      BY <2>1 DEF LaunchCommand
    <3>2. CountsOK'
      BY <1>6, <3>1, CountsSame DEF Issued
    <3>3. QED BY <3>1, <3>2, LaunchInv
  <2>2. ASSUME UNCHANGED <<instances, children, waiting, delayed, proc, up, tasks, drops, delivered>>
        PROVE  CountsOK' /\ \A q \in Procs : ProcInv(q)'
    <3>1. CountsOK'
      BY <2>2, CountsSame DEF Issued
    <3>2. QED BY <2>2, <3>1, SameProc
  <2>3. ASSUME Quit
        PROVE  CountsOK' /\ \A q \in Procs : ProcInv(q)'
    BY <2>2, <2>3 DEF Quit
  <2>4. ASSUME NEW sel, NEW req, Command(sel, req)
        PROVE  CountsOK' /\ \A q \in Procs : ProcInv(q)'
    BY <2>2, <2>4 DEF Command, PolicyCommand
  <2>5. CountsOK' /\ \A q \in Procs : ProcInv(q)'
    BY <1>7, <2>1, <2>3, <2>4 DEF CommandLine
  <2>6. QED BY <1>1, <1>7, <2>5, CommandLineTyped
<1>8. ASSUME NEW t \in Tasks, NEW l \in Labels, OnBoardBegin(t, l)
      PROVE  HostInv'
  <2>1. UNCHANGED <<hostState, proc, up>> /\ tasks[t].step = "new"
    BY <1>8 DEF OnBoardBegin
  <2>2. tasks'[t].step = "launch" /\ \A u \in Tasks \ {t} : tasks'[u] = tasks[u]
    BY <1>8, TypedIs DEF OnBoardBegin, HostInv, Typed
  <2>3. ASSUME NEW k \in Labels, NEW op \in OnboardOps
        PROVE  Issued(k, op)' = Issued(k, op)
    BY <2>1, <2>2 DEF Issued
  <2>4. CountsOK'
    BY <2>1, <2>3, CountsSame DEF hostState
  <2>5. \A q \in Procs : ProcInv(q)'
    BY <2>1, SameProc DEF hostState
  <2>6. QED BY <1>1, <1>8, <2>4, <2>5, OnBoardTyped
<1>9. ASSUME NEW t \in Tasks, OnBoardLaunch(t)
      PROVE  HostInv'
  <2>1. /\ tasks[t].step = "launch" /\ tasks[t].label \in Labels
        /\ Launch(tasks[t].label, FALSE)
        /\ UNCHANGED <<instances, waiting, delayed, up, drops, delivered>>
    BY <1>9 DEF OnBoardLaunch, HostInv, ShapeOK
  <2>2. tasks'[t].step = "Label" /\ \A u \in Tasks \ {t} : tasks'[u] = tasks[u]
    BY <1>9, TypedIs DEF OnBoardLaunch, HostInv, Typed, TaskRec
  <2>3. ASSUME NEW k \in Labels, NEW op \in OnboardOps
        PROVE  Issued(k, op)' = Issued(k, op)
    BY <2>1, <2>2 DEF Issued
  <2>4. CountsOK'
    BY <1>6, <2>1, <2>3, CountsSame
  <2>5. \A q \in Procs : ProcInv(q)'
    BY <2>1, LaunchInv
  <2>6. Typed' /\ ShapeOK'
    BY <1>9, <2>1, OnBoardTyped
  <2>7. QED BY <1>1, <2>4, <2>5, <2>6
<1>10. ASSUME NEW t \in Tasks, OnBoardCommand(t)
       PROVE  HostInv'
  <2>1. /\ tasks[t].step \in OnboardOps /\ tasks[t].label \in Labels
        /\ Delivers(tasks[t].label, tasks[t].step)
        /\ UNCHANGED <<instances, children, waiting, proc, up, drops>>
    BY <1>10, Steps DEF OnBoardCommand, HostInv, ShapeOK, OnboardOps
  <2>2. ASSUME NEW q \in Procs PROVE ProcInv(q)'
    <3>1. delivered'[q] = delivered[q] \/ proc[q].state # "none"
      BY <2>1, DeliversTyped, SelectedLabel
    <3>2. QED BY <2>1, <3>1, SameProc
  <2>3. Typed' /\ ShapeOK'
    BY <1>10, <2>1, OnBoardTyped
  <2>4. QED BY <1>1, <1>10, <2>2, <2>3, OnBoardCommandCounts
<1>11. ASSUME NEW p \in Procs, Receive(p)
       PROVE  HostInv'
  <2>1. UNCHANGED <<delayed, delivered, proc, tasks>>
    BY <1>11, ReceiveHead, ReceiveCases
       DEF Connect, RegisterProxy, RegisterHash, CPOnboardProxy, Disconnect
  <2>2. CountsOK'
    BY <2>1, CountsSame DEF Issued
  <2>3. \A q \in Procs : ProcInv(q)'
    BY <1>11, ReceiveInv, ReceiveOthers
  <2>4. QED BY <1>1, <1>11, <2>2, <2>3, ReceiveTyped
<1>12. ASSUME NEW p \in Procs, ProcStep(p)
       PROVE  HostInv'
  <2>1. ProcMoves(p) /\ ProcDoes(p) /\ Typed'
    BY <1>12, ProcStepDoes
  <2>2. /\ UNCHANGED <<instances, children, waiting, delayed, drops, delivered, tasks>>
        /\ \A q \in Procs : proc'[q].label = proc[q].label
        /\ \A q \in Procs \ {p} : proc'[q] = proc[q] /\ up'[q] = up[q]
    BY <2>1 DEF ProcMoves, hostState
  <2>3. CountsOK'
    BY <2>2, CountsSame DEF Issued
  <2>4. \A q \in Procs : ProcInv(q)'
    BY <2>1, <2>2, ProcDoesInv, SameProc
  <2>5. \A q \in Procs : proc[q].state # "none" => proc'[q].state # "none"
    BY <2>1, <2>2 DEF ProcDoes, Leaving
  <2>6. ShapeOK'
    <3>1. Typed /\ ShapeOK
      BY TypedIs DEF HostInv
    <3>2. QED BY <2>2, <2>5, <3>1, WaitingProc DEF ShapeOK
  <2>7. QED BY <1>1, <2>1, <2>3, <2>4, <2>6
<1>13. QED BY <1>3, <1>4, <1>5, <1>7, <1>8, <1>9, <1>10, <1>11, <1>12 DEF HostNext, ProcStep

LEMMA HostInvariant == HostSpec => []HostInv
<1>1. HostInit => HostInv
  BY HostInitInv
<1>2. HostInv /\ [HostNext]_hostVars => HostInv'
  <2> SUFFICES ASSUME HostInv, [HostNext]_hostVars PROVE HostInv'
    OBVIOUS
  <2>1. CASE HostNext
    BY <2>1, HostStepInv
  <2>2. CASE UNCHANGED hostVars
    <3>1. UNCHANGED <<instances, children, waiting, notified, delayed, hostUp, proc, up, down,
                      tasks, commands, drops, delivered>>
      BY <2>2 DEF hostVars, hostState
    <3>2. HostTypeOK' /\ ShapeOK'
      BY <3>1 DEF HostInv, HostTypeOK, ShapeOK
    <3>3. \A q \in Procs : ProcInv(q)'
      BY <3>1, SameProc
    <3>4. CountsOK'
      BY <3>1, CountsSame DEF Issued
    <3>5. QED BY <3>2, <3>3, <3>4 DEF HostInv
  <2>3. QED BY <2>1, <2>2
<1>3. QED BY <1>1, <1>2, PTL DEF HostSpec

-----------------------------------------------------------------------------
(***************************************************************************)
(* The tables of the ArmourDataHost actor, its queues and the streams to   *)
(* and from the proxies keep their types; the hash a proxy holds is never  *)
(* that of a policy too long for a frame.                                  *)
(***************************************************************************)
THEOREM HostTypeCorrect == HostSpec => []HostTypeOK
<1>1. HostInv => HostTypeOK
  BY DEF HostInv
<1>2. QED BY <1>1, HostInvariant, PTL

(***************************************************************************)
(* A registered instance is a child the host can still wait for: a proxy   *)
(* announces its connection once and before its end (started(), main), and *)
(* Disconnect removes the child together with the instance.                *)
(***************************************************************************)
THEOREM HostKeepsChildren == HostSpec => []RegisteredAreChildren
<1>1. HostInv => RegisteredAreChildren
  BY DEF HostInv, ProcInv, ChildrenOK, RegisteredAreChildren, Registered
<1>2. QED BY <1>1, HostInvariant, PTL

(***************************************************************************)
(* service/drop is requested at most once for a proxy, after its process   *)
(* has exited and its instance is gone, although ShuttingDown and the end  *)
(* of the stream both make the host disconnect it.                         *)
(***************************************************************************)
THEOREM HostDropsOnce == HostSpec => []DroppedOnce
<1>1. HostInv => DroppedOnce
  BY DEF HostInv, ProcInv, ChildrenOK, DroppedOnce
<1>2. QED BY <1>1, HostInvariant, PTL

(***************************************************************************)
(* The hash in the Meta of an instance is that of the policy the proxy     *)
(* runs, or the newest hash on its way from the proxy is, for any number   *)
(* of updates, crashes and restarts and any order of the messages, also if *)
(* policies too long for a frame were sent.  The one loss that leaves the  *)
(* host with an old hash is that of a Status reply too long for its frame, *)
(* and then the hash is still that of a policy the proxy ran.              *)
(***************************************************************************)
THEOREM HostHashesConverge == HostSpec => []HashesConverge
<1>1. HostInv => HashesConverge
  <2> SUFFICES ASSUME HostInv, NEW p \in Procs, Registered(p)
               PROVE  /\ instances[p].hash \in proc[p].ran
                      /\ \A i \in DOMAIN up[p] : TellsHash(p, i) => up[p][i].hash \in proc[p].ran
                      /\ \/ proc[p].lost
                         \/ \E i \in DOMAIN up[p] : LastHash(p, i) /\ up[p][i].hash = proc[p].hash
                         \/ /\ \A i \in DOMAIN up[p] : ~TellsHash(p, i)
                            /\ instances[p].hash = proc[p].hash
    BY DEF HashesConverge
  <2>1. HashOK(p)
    BY DEF HostInv, ProcInv
  <2>2. \A i \in DOMAIN up[p] : TellsHash(p, i) => up[p][i].hash \in proc[p].ran
    BY <2>1 DEF HashOK, HashesIn, TellsHash, Telling
  <2>3. QED BY <2>1, <2>2 DEF HashOK, NewestIs, NoneTells, LastHash, TellsHash, Telling
<1>2. QED BY <1>1, HostInvariant, PTL

(***************************************************************************)
(* POST on-board does not multiply its commands, for any number of         *)
(* requests, labels and proxies: a proxy gets an on-board command at most  *)
(* as often as it was issued for its label, less the retries to come.      *)
(***************************************************************************)
THEOREM HostAtMostOnce == HostSpec => []AtMostOnce
<1>1. HostInv => AtMostOnce
  BY Steps DEF HostInv, CountsOK, AtMostOnce
<1>2. QED BY <1>1, HostInvariant, PTL
=============================================================================
