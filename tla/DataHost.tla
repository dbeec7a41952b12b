------------------------------- MODULE DataHost -------------------------------
(***************************************************************************)
(* The data-plane host (armour-host: host.rs, instance.rs, rest_api.rs)    *)
(* and the proxy processes it launches.  The ArmourDataHost actor keeps    *)
(* the instances that connected on its Unix socket and the child processes *)
(* it spawned.  Each proxy is connected by a FIFO stream each way.  REST   *)
(* handlers and the command line send it messages that interleave with     *)
(* those of the proxies; calls to the control plane, and waiting for a     *)
(* child, block the actor (.wait(ctx), child.wait()).                      *)
(*                                                                         *)
(* A proxy is reduced to what the host sees of it (PolicyActor has the     *)
(* rest).  The answers of the control plane are arbitrary.  An instance is *)
(* identified with the process at the other end of its socket.             *)
(***************************************************************************)
EXTENDS Naturals, Sequences, FiniteSets

CONSTANTS
  Procs,          \* process ids of proxies
  Labels,         \* labels of proxies
  Hashes,         \* hashes of policies
  DefaultHash,    \* the hash of the policy a proxy starts with
  Oversized,      \* hashes of policies whose SetPolicy has 2^16 bytes or more
  Tasks,          \* POST on-board requests to the host
  Onboarded,      \* the host on-boarded with the control plane when it started
  None,
  MaxCommands     \* bound on the other commands

ASSUME HostConstants ==
  /\ DefaultHash \in Hashes \ Oversized
  /\ Oversized \subseteq Hashes
  /\ Onboarded \in BOOLEAN
  /\ MaxCommands \in Nat
  /\ None \notin Labels \cup Procs \cup Hashes
  /\ "all" \notin Labels

VARIABLES
  instances,   \* [Procs -> None, or the Instance with its Meta]
  children,    \* processes in the map of child processes
  waiting,     \* what the host actor waits for, or None
  notified,    \* messages the host actor sent to itself (ctx.notify)
  delayed,     \* commands to be tried once more (ctx.notify_later)
  hostUp,      \* the host's System runs
  proc,        \* [Procs -> the proxy process]
  up,          \* [Procs -> messages from the proxy]
  down,        \* [Procs -> messages to the proxy]
  tasks,       \* [Tasks -> progress of the on_board handlers]
  commands,    \* commands issued so far
  drops,       \* history: [Procs -> service/drop requests made for it]
  delivered    \* history: [Procs -> [on-board command -> times it was sent to it]]

hostState == <<instances, children, waiting, notified, delayed, hostUp, drops, delivered>>
hostVars == <<hostState, proc, up, down, tasks, commands>>

\* Meta of a registered instance; label None is an instance without Meta.
Instance == [label : Labels \cup {None}, hash : Hashes, global : BOOLEAN]

\* PolicyRequest, as far as a proxy's reaction shows at the host.
Request == [op : {"Label", "CPOnboard", "StartHttp", "Status", "Shutdown"}, hash : {None}]
             \cup [op : {"SetPolicy"}, hash : Hashes]

Req(op) == [op |-> op, hash |-> None]
SetPolicyReq(h) == [op |-> "SetPolicy", hash |-> h]

\* PolicyResponse, with "UdsConnect" for the new connection and "Closed" for its end.
Response == [msg : {"UdsConnect", "CPOnboarding", "ShuttingDown", "Closed"}, hash : {None}]
              \cup [msg : {"Connect", "Updated"}, hash : Hashes]

Res(m) == [msg |-> m, hash |-> None]

Waiting == [for : {"child", "drop", "onboard", "query"}, proc : Procs, ok : BOOLEAN]

ASSUME NoneNotRecord == None \notin Instance /\ None \notin Waiting

\* Which instances a message of the host is for: a label, or "all".
Selector == Labels \cup {"all"}

Notification == [kind : {"command"}, sel : Selector, req : Request]
                  \cup [kind : {"global"}, sel : Labels, req : {None}]

ProcState == {"none", "spawned", "running", "stopping", "exited"}

\* The commands of POST on-board, each with what follows it.
NextStep == [Label |-> "CPOnboard", CPOnboard |-> "StartHttp", StartHttp |-> "done"]

HostInit ==
  /\ instances = [p \in Procs |-> None]
  /\ children = {}
  /\ waiting = None
  /\ notified = <<>>
  /\ delayed = <<>>
  /\ hostUp = TRUE
  /\ proc = [p \in Procs |-> [state |-> "none", label |-> None, hash |-> DefaultHash,
                              garbled |-> FALSE, lost |-> FALSE, ran |-> {DefaultHash}]]
  /\ up = [p \in Procs |-> <<>>]
  /\ down = [p \in Procs |-> <<>>]
  /\ tasks = [t \in Tasks |-> [label |-> None, step |-> "new"]]
  /\ commands = 0
  /\ drops = [p \in Procs |-> 0]
  /\ delivered = [p \in Procs |-> [op \in DOMAIN NextStep |-> 0]]

HostReady == hostUp /\ waiting = None

-----------------------------------------------------------------------------
(***************************************************************************)
(* get_instances: a label selects the instances whose Meta has it.         *)
(***************************************************************************)
get_instances(sel) ==
  {p \in Procs : /\ instances[p] # None
                 /\ sel = "all" \/ instances[p].label = sel}

\* Variant: a command that was sent is tried again as well.
PolicyCommand_Again(retry, sel, req) ==
  LET selected == get_instances(sel)
  IN  /\ down' = [p \in Procs |-> IF p \in selected THEN Append(down[p], req) ELSE down[p]]
      /\ delayed' = IF retry
                    THEN Append(delayed, [kind |-> "command", sel |-> sel, req |-> req])
                    ELSE delayed

(***************************************************************************)
(* Handler<PolicyCommand>: to every selected instance; when there is none, *)
(* once more in a second if the command may be retried.                    *)
(***************************************************************************)
PolicyCommand(retry, sel, req) ==
  LET selected == get_instances(sel)
  IN  /\ down' = [p \in Procs |-> IF p \in selected THEN Append(down[p], req) ELSE down[p]]
      /\ delayed' = IF retry /\ selected = {}
                    THEN Append(delayed, [kind |-> "command", sel |-> sel, req |-> req])
                    ELSE delayed

\* The history of on-board commands.
Delivers(sel, op) ==
  delivered' = [p \in Procs |-> IF p \in get_instances(sel)
                                THEN [delivered[p] EXCEPT ![op] = @ + 1] ELSE delivered[p]]

SecondAttempt ==
  /\ HostReady
  /\ delayed # <<>>
  /\ LET c == Head(delayed)
         selected == get_instances(c.sel)
     IN  /\ down' = [p \in Procs |->
                       IF p \in selected THEN Append(down[p], c.req) ELSE down[p]]
         /\ Delivers(c.sel, c.req.op)
  /\ delayed' = Tail(delayed)
  /\ UNCHANGED <<instances, children, waiting, notified, hostUp, proc, up, tasks,
                 commands, drops>>

\* Variant: the child is spawned and not recorded.
Launch_Untracked(l, force) ==
  IF force \/ get_instances(l) = {}
  THEN \/ \E p \in Procs :
            /\ proc[p].state = "none"
            /\ proc' = [proc EXCEPT ![p].state = "spawned", ![p].label = l]
            /\ UNCHANGED children
       \/ UNCHANGED <<proc, children>>
  ELSE UNCHANGED <<proc, children>>

(***************************************************************************)
(* Handler<Launch>: spawns a proxy unless an instance with the label is    *)
(* registered.  Spawning may fail.                                         *)
(***************************************************************************)
Launch(l, force) ==
  IF force \/ get_instances(l) = {}
  THEN \/ \E p \in Procs :
            /\ proc[p].state = "none"
            /\ proc' = [proc EXCEPT ![p].state = "spawned", ![p].label = l]
            /\ children' = children \cup {p}
       \/ UNCHANGED <<proc, children>>
  ELSE UNCHANGED <<proc, children>>

\* The command line's launch forces.
LaunchCommand(l) ==
  /\ HostReady
  /\ commands < MaxCommands
  /\ commands' = commands + 1
  /\ Launch(l, TRUE)
  /\ UNCHANGED <<instances, waiting, notified, delayed, hostUp, up, down, tasks, drops, delivered>>

(***************************************************************************)
(* POST on-board: launch the proxy (without forcing), then labels, start   *)
(* of the control plane's on-boarding and of the HTTP proxy, each with one *)
(* retry.  The handler awaits the host actor between the messages and      *)
(* ignores what they return.                                               *)
(***************************************************************************)
OnBoardBegin(t, l) ==
  /\ hostUp
  /\ tasks[t].step = "new"
  /\ tasks' = [tasks EXCEPT ![t] = [label |-> l, step |-> "launch"]]
  /\ UNCHANGED <<hostState, proc, up, down, commands>>

OnBoardLaunch(t) ==
  /\ HostReady
  /\ tasks[t].step = "launch"
  /\ Launch(tasks[t].label, FALSE)
  /\ tasks' = [tasks EXCEPT ![t].step = "Label"]
  /\ UNCHANGED <<instances, waiting, notified, delayed, hostUp, up, down, commands, drops, delivered>>

OnBoardCommand(t) ==
  /\ HostReady
  /\ tasks[t].step \in DOMAIN NextStep
  /\ PolicyCommand(TRUE, tasks[t].label, Req(tasks[t].step))
  /\ Delivers(tasks[t].label, tasks[t].step)
  /\ tasks' = [tasks EXCEPT ![t].step = NextStep[@]]
  /\ UNCHANGED <<instances, children, waiting, notified, hostUp, proc, up, commands, drops>>

\* policy update, proxy drop and the command line: without retry.  Requests that
\* the host sees nothing of (labels, start, stop, timeout) are left out.
Command(sel, req) ==
  /\ HostReady
  /\ commands < MaxCommands
  /\ commands' = commands + 1
  /\ PolicyCommand(FALSE, sel, req)
  /\ UNCHANGED <<instances, children, waiting, notified, hostUp, proc, up, tasks, drops, delivered>>

Quit ==
  /\ HostReady
  /\ commands < MaxCommands
  /\ commands' = commands + 1
  /\ hostUp' = FALSE
  /\ UNCHANGED <<instances, children, waiting, notified, delayed, proc, up, down, tasks, drops, delivered>>

-----------------------------------------------------------------------------
(***************************************************************************)
(* Messages of an instance.  Disconnect removes the instance; a child that *)
(* had registered is waited for and, if the host on-boarded, its service   *)
(* is dropped at the control plane.                                        *)
(***************************************************************************)
Pop(p) == up' = [up EXCEPT ![p] = Tail(@)]

Connect(p) ==
  /\ instances' = [instances EXCEPT ![p] =
                     [label |-> None, hash |-> DefaultHash, global |-> FALSE]]
  /\ UNCHANGED <<children, waiting, notified, delayed, hostUp, drops, delivered>>

RegisterProxy(p, h) ==
  /\ instances' = [instances EXCEPT ![p] = IF @ = None THEN None ELSE
                     [label |-> proc[p].label, hash |-> h, global |-> FALSE]]
  /\ UNCHANGED <<children, waiting, notified, delayed, hostUp, drops, delivered>>

\* Variant: the hash of an update is not recorded.
RegisterHash_Lost(p, h) ==
  UNCHANGED <<instances, children, waiting, notified, delayed, hostUp, drops, delivered>>

RegisterHash(p, h) ==
  /\ instances' = [instances EXCEPT ![p] =
                     IF @ = None THEN None
                     ELSE IF @.label = None THEN @ ELSE [@ EXCEPT !.hash = h]]
  /\ UNCHANGED <<children, waiting, notified, delayed, hostUp, drops, delivered>>

CPOnboardProxy(p) ==
  /\ waiting' = IF Onboarded /\ instances[p] # None /\ instances[p].label # None
                THEN [for |-> "onboard", proc |-> p, ok |-> FALSE]
                ELSE None
  /\ UNCHANGED <<instances, children, notified, delayed, hostUp, drops, delivered>>

Reaps(p) == instances[p] # None /\ instances[p].label # None /\ p \in children

\* Variant: the instance stays in the table.
Disconnect_KeepsInstance(p) ==
  /\ waiting' = IF Reaps(p) THEN [for |-> "child", proc |-> p, ok |-> FALSE] ELSE None
  /\ UNCHANGED <<instances, children, notified, delayed, hostUp, drops, delivered>>

\* Variant: the child stays in the table.
Disconnect_KeepsChild(p) ==
  /\ instances' = [instances EXCEPT ![p] = None]
  /\ waiting' = IF Reaps(p) THEN [for |-> "child", proc |-> p, ok |-> FALSE] ELSE None
  /\ UNCHANGED <<children, notified, delayed, hostUp, drops, delivered>>

Disconnect(p) ==
  /\ instances' = [instances EXCEPT ![p] = None]
  /\ children' = IF Reaps(p) THEN children \ {p} ELSE children
  /\ waiting' = IF Reaps(p) THEN [for |-> "child", proc |-> p, ok |-> FALSE] ELSE None
  /\ UNCHANGED <<notified, delayed, hostUp, drops, delivered>>

Receive(p) ==
  /\ HostReady
  /\ up[p] # <<>>
  /\ Pop(p)
  /\ LET m == Head(up[p])
     IN  CASE m.msg = "UdsConnect"   -> Connect(p)
           [] m.msg = "Connect"      -> RegisterProxy(p, m.hash)
           [] m.msg = "Updated"      -> RegisterHash(p, m.hash)
           [] m.msg = "CPOnboarding" -> CPOnboardProxy(p)
           [] m.msg \in {"ShuttingDown", "Closed"} -> Disconnect(p)
  /\ UNCHANGED <<proc, down, tasks, commands>>

-----------------------------------------------------------------------------
(* What the host actor waits for. *)

\* child.wait(): blocks until the process has exited, which may be after it has
\* said that it is shutting down.
ChildExited ==
  /\ hostUp
  /\ waiting # None /\ waiting.for = "child"
  /\ proc[waiting.proc].state = "exited"
  /\ IF Onboarded
     THEN /\ waiting' = [waiting EXCEPT !.for = "drop"]
          /\ drops' = [drops EXCEPT ![waiting.proc] = @ + 1]
     ELSE waiting' = None /\ UNCHANGED drops
  /\ UNCHANGED <<instances, children, notified, delayed, hostUp, delivered, proc, up, down, tasks, commands>>

\* The control plane answered service/drop, or could not be reached.
DropAnswered ==
  /\ hostUp
  /\ waiting # None /\ waiting.for = "drop"
  /\ waiting' = None
  /\ UNCHANGED <<instances, children, notified, delayed, hostUp, drops, delivered, proc, up, down,
                 tasks, commands>>

\* service/on-board answered; on an error the host goes on with the proxy's label.
OnboardAnswered ==
  /\ hostUp
  /\ waiting # None /\ waiting.for = "onboard"
  /\ \E ok \in BOOLEAN : waiting' = [waiting EXCEPT !.for = "query", !.ok = ok]
  /\ UNCHANGED <<instances, children, notified, delayed, hostUp, drops, delivered, proc, up, down,
                 tasks, commands>>

Notify(sel, h) ==
  notified' = notified \o
    << [kind |-> "command", sel |-> sel, req |-> Req("Label")],
       [kind |-> "command", sel |-> sel, req |-> SetPolicyReq(h)],
       [kind |-> "global", sel |-> sel, req |-> None] >>

\* Variant: without an answer the host installs nothing by a SetPolicy.
QueryAnswered_Nothing ==
  /\ hostUp
  /\ waiting # None /\ waiting.for = "query"
  /\ \E h \in Hashes \cup {None} : Notify(proc[waiting.proc].label, h)
  /\ waiting' = None
  /\ UNCHANGED <<instances, children, delayed, hostUp, drops, delivered, proc, up, down, tasks, commands>>

\* policy/query answered: the host notifies itself of three messages, or warns.
QueryAnswered ==
  /\ hostUp
  /\ waiting # None /\ waiting.for = "query"
  /\ \/ \E h \in Hashes : Notify(proc[waiting.proc].label, h)
     \/ UNCHANGED notified
  /\ waiting' = None
  /\ UNCHANGED <<instances, children, delayed, hostUp, drops, delivered, proc, up, down, tasks, commands>>

\* A PolicyCommand without retry, or ServiceGlobalID (update_instances).
HandleNotified ==
  /\ HostReady
  /\ notified # <<>>
  /\ notified' = Tail(notified)
  /\ LET n == Head(notified)
         selected == get_instances(n.sel)
     IN  IF n.kind = "command"
         THEN /\ PolicyCommand(FALSE, n.sel, n.req)
              /\ UNCHANGED instances
         ELSE /\ instances' = [p \in Procs |->
                   IF p \in selected THEN [instances[p] EXCEPT !.global = TRUE]
                   ELSE instances[p]]
              /\ UNCHANGED <<down, delayed>>
  /\ UNCHANGED <<children, waiting, hostUp, drops, delivered, proc, up, tasks, commands>>

-----------------------------------------------------------------------------
(***************************************************************************)
(* The proxy process: main connects to the host's socket, started() sends  *)
(* Connect, and the PolicyActor handles the host's requests in order.      *)
(*                                                                         *)
(* Frames have a length of 16 bits, which serialize_encode truncates: the  *)
(* decoder of a longer message takes too few bytes, cannot deserialize     *)
(* them, which StreamHandler ignores, and reads the next length from the   *)
(* middle of the message.  From then on no message gets through.  It may   *)
(* happen to the stream from the host (garbled), by a SetPolicy, and to    *)
(* the stream to it (lost), by a Status, which has both policies and all   *)
(* labels.                                                                 *)
(***************************************************************************)
Send(p, ms) == up' = [up EXCEPT ![p] = IF proc[p].lost THEN @ ELSE @ \o ms]

\* The end of a stream.  Behind a frame that was cut, bytes may remain, which the
\* decoder reports as an error again and again, and finished() is not called.
SendEnd(p) ==
  \/ up' = [up EXCEPT ![p] = Append(@, Res("Closed"))]
  \/ proc[p].lost /\ UNCHANGED up

ProcConnect(p) ==
  /\ proc[p].state = "spawned"
  /\ hostUp
  /\ proc' = [proc EXCEPT ![p].state = "running"]
  /\ Send(p, <<Res("UdsConnect"), [msg |-> "Connect", hash |-> DefaultHash]>>)
  /\ UNCHANGED <<hostState, down, tasks, commands>>

Garbled(p, m) == proc[p].garbled \/ m.hash \in Oversized

\* install_tcp and install_http, with the hashes the proxy ever had (history).
SetPolicy(p, h) ==
  /\ proc' = [proc EXCEPT ![p].hash = h, ![p].ran = @ \cup {h}]
  /\ Send(p, <<[msg |-> "Updated", hash |-> h]>>)

\* The reply tells the hash, or is too long for its frame.
Status(p) ==
  \/ Send(p, <<[msg |-> "Updated", hash |-> proc[p].hash]>>) /\ UNCHANGED proc
  \/ proc' = [proc EXCEPT ![p].lost = TRUE] /\ UNCHANGED up

\* write, close and System::stop: what was written may not be flushed any more,
\* and the process still runs for a while.
Shutdown(p) ==
  /\ proc' = [proc EXCEPT ![p].state = "stopping"]
  /\ Send(p, <<Res("ShuttingDown")>>) \/ UNCHANGED up

ProcHandle(p) ==
  /\ proc[p].state = "running"
  /\ down[p] # <<>>
  /\ down' = [down EXCEPT ![p] = Tail(@)]
  /\ LET m == Head(down[p])
     IN  IF Garbled(p, m)
         THEN proc' = [proc EXCEPT ![p].garbled = TRUE] /\ UNCHANGED up
         ELSE CASE m.op = "SetPolicy" -> SetPolicy(p, m.hash)
                [] m.op = "Status"    -> Status(p)
                [] m.op = "CPOnboard" -> Send(p, <<Res("CPOnboarding")>>) /\ UNCHANGED proc
                [] m.op = "Shutdown"  -> Shutdown(p)
                [] OTHER              -> UNCHANGED <<proc, up>>
  /\ UNCHANGED <<hostState, tasks, commands>>

\* Variant: the process ends when the host drops the connection, which a host
\* that is in child.wait() cannot do.
ProcExit_OnHangUp(p) ==
  /\ proc[p].state = "stopping"
  /\ ~hostUp \/ (waiting = None /\ instances[p] = None)
  /\ proc' = [proc EXCEPT ![p].state = "exited"]
  /\ SendEnd(p)
  /\ UNCHANGED <<hostState, down, tasks, commands>>

\* The System has stopped: the process exits, and with it the stream ends.
ProcExit(p) ==
  /\ proc[p].state = "stopping"
  /\ proc' = [proc EXCEPT ![p].state = "exited"]
  /\ SendEnd(p)
  /\ UNCHANGED <<hostState, down, tasks, commands>>

\* The process dies on its own: its end of the stream closes.
ProcCrash(p) ==
  /\ proc[p].state \in {"spawned", "running"}
  /\ proc' = [proc EXCEPT ![p].state = "exited"]
  /\ IF proc[p].state = "running" THEN SendEnd(p) ELSE UNCHANGED up
  /\ UNCHANGED <<hostState, down, tasks, commands>>

\* The socket is gone, or the stream from the host ended.  A garbled proxy may
\* not be told of the end, so nothing says that this step is taken.
ProcNoHost(p) ==
  /\ proc[p].state \in {"spawned", "running"}
  /\ ~hostUp
  /\ proc' = [proc EXCEPT ![p].state = "exited"]
  /\ UNCHANGED <<hostState, up, down, tasks, commands>>

-----------------------------------------------------------------------------
CommandLine ==
  \/ Quit
  \/ \E l \in Labels : LaunchCommand(l)
  \/ \E sel \in Selector, h \in Hashes : Command(sel, SetPolicyReq(h))
  \/ \E sel \in Selector, op \in {"Status", "Shutdown"} : Command(sel, Req(op))

HostWait == ChildExited \/ DropAnswered \/ OnboardAnswered \/ QueryAnswered

HostNext ==
  \/ SecondAttempt
  \/ HandleNotified
  \/ HostWait
  \/ CommandLine
  \/ \E t \in Tasks :
       \/ \E l \in Labels : OnBoardBegin(t, l)
       \/ OnBoardLaunch(t)
       \/ OnBoardCommand(t)
  \/ \E p \in Procs :
       \/ Receive(p)
       \/ ProcConnect(p)
       \/ ProcHandle(p)
       \/ ProcExit(p)
       \/ ProcCrash(p)
       \/ ProcNoHost(p)

(***************************************************************************)
(* Fairness: the host's runtime and the processes make progress, the timer *)
(* of a retry fires, the control plane answers or the call fails, and a    *)
(* process that stopped its System exits.                                  *)
(***************************************************************************)
HostFairness ==
  /\ WF_hostVars(SecondAttempt)
  /\ WF_hostVars(HandleNotified)
  /\ WF_hostVars(HostWait)
  /\ \A t \in Tasks : WF_hostVars(OnBoardLaunch(t) \/ OnBoardCommand(t))
  /\ \A p \in Procs : /\ WF_hostVars(Receive(p))
                      /\ WF_hostVars(ProcConnect(p) \/ ProcHandle(p))
                      /\ WF_hostVars(ProcExit(p))

HostSpec == HostInit /\ [][HostNext]_hostVars /\ HostFairness

-----------------------------------------------------------------------------
HostTypeOK ==
  /\ instances \in [Procs -> Instance \cup {None}]
  /\ children \subseteq Procs
  /\ waiting \in Waiting \cup {None}
  /\ notified \in Seq(Notification)
  /\ delayed \in Seq(Notification)
  /\ hostUp \in BOOLEAN
  /\ proc \in [Procs -> [state : ProcState, label : Labels \cup {None},
                         hash : Hashes \ Oversized, garbled : BOOLEAN,
                         lost : BOOLEAN, ran : SUBSET (Hashes \ Oversized)]]
  /\ up \in [Procs -> Seq(Response)]
  /\ down \in [Procs -> Seq(Request)]
  /\ tasks \in [Tasks -> [label : Labels \cup {None},
                          step : {"new", "launch", "done"} \cup DOMAIN NextStep]]
  /\ commands \in 0..MaxCommands
  /\ drops \in [Procs -> Nat]
  /\ delivered \in [Procs -> [DOMAIN NextStep -> Nat]]

Registered(p) == instances[p] # None /\ instances[p].label # None

\* The i-th message on its way from p tells a hash, and none behind it does.
TellsHash(p, i) == up[p][i].msg \in {"Connect", "Updated"}
LastHash(p, i) == /\ TellsHash(p, i)
                  /\ \A j \in DOMAIN up[p] : j > i => ~TellsHash(p, j)

(***************************************************************************)
(* MetaData tells the truth about deployed policies: what the host holds   *)
(* for a proxy is the hash of the policy that the proxy runs, or the last  *)
(* of the hashes that are still on their way is (Connect, UpdatedPolicy).  *)
(* Once a Status reply was too long for its frame the host may hold an old *)
(* hash for ever, and still only one of a policy that the proxy ran.       *)
(***************************************************************************)
HashesConverge ==
  \A p \in Procs : Registered(p) =>
    /\ instances[p].hash \in proc[p].ran
    /\ \A i \in DOMAIN up[p] : TellsHash(p, i) => up[p][i].hash \in proc[p].ran
    /\ \/ proc[p].lost
       \/ \E i \in DOMAIN up[p] : LastHash(p, i) /\ up[p][i].hash = proc[p].hash
       \/ /\ \A i \in DOMAIN up[p] : ~TellsHash(p, i)
          /\ instances[p].hash = proc[p].hash

(***************************************************************************)
(* The control plane is asked at most once to drop the service of a proxy, *)
(* although ShuttingDown and the end of the stream both disconnect it, and *)
(* only after the process has exited and its instance is gone.             *)
(***************************************************************************)
DroppedOnce ==
  \A p \in Procs :
    /\ drops[p] <= 1
    /\ drops[p] = 1 => proc[p].state = "exited" /\ instances[p] = None /\ p \notin children

(***************************************************************************)
(* A registered instance always is a child the host can still wait for, so *)
(* its exit is collected when it disconnects.                              *)
(***************************************************************************)
RegisteredAreChildren ==
  \A p \in Procs : Registered(p) => p \in children

\* Handlers of POST on-board for label l that have issued command op.
Issued(l, op) ==
  {t \in Tasks : /\ tasks[t].label = l
                 /\ \/ tasks[t].step = "done"
                    \/ op = "Label" /\ tasks[t].step \in {"CPOnboard", "StartHttp"}
                    \/ op = "CPOnboard" /\ tasks[t].step = "StartHttp"}

\* Where the retries of command op for label l are among the delayed commands.
Pending(l, op) == {i \in DOMAIN delayed : delayed[i].sel = l /\ delayed[i].req = Req(op)}

(***************************************************************************)
(* Retries do not multiply: an on-board command that found no proxy is     *)
(* tried again while later commands, or those of another on-board request, *)
(* may already have arrived, and still no proxy gets a command more often  *)
(* than it was issued for its label, counting those still to be retried.   *)
(* In particular a proxy is not made to on-board twice by one request.     *)
(***************************************************************************)
AtMostOnce ==
  \A p \in Procs, op \in DOMAIN NextStep :
    proc[p].label # None =>
      delivered[p][op] + Cardinality(Pending(proc[p].label, op))
        <= Cardinality(Issued(proc[p].label, op))

(***************************************************************************)
(* "If the onboarding failed, send back an error. The onboarding stops.":  *)
(* the policy is queried only for a service that on-boarded.               *)
(***************************************************************************)
OnboardingStops == (waiting # None /\ waiting.for = "query") => waiting.ok

(***************************************************************************)
(* The end of a proxy is noticed and its process collected, even if it     *)
(* comes before the host has read that it connected, unless its stream was *)
(* cut by a Status reply that was too long.                                *)
(***************************************************************************)
ExitCollected ==
  \A p \in Procs :
    (proc[p].state = "exited" /\ ~proc[p].lost /\ (Registered(p) \/ up[p] # <<>>))
      ~> (~hostUp \/ (instances[p] = None /\ p \notin children))

(***************************************************************************)
(* The host actor gets back to its mailbox: what it waits for ends.  In    *)
(* particular child.wait() blocks it while the proxy is still shutting     *)
(* down, and the proxy needs nothing of the host to end.                   *)
(***************************************************************************)
WaitEnds == (waiting # None) ~> (waiting = None \/ ~hostUp)
=============================================================================
