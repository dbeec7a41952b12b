# Verification of Armour

TLA+ models of the Armour service-mesh proxies, of the host that runs them, of the control plane
that gives them policies and of the language the policies are written in, model-checked with TLC,
with proofs checked by TLAPS. Paths below are relative to the repository's `src/`.

## The system

Armour puts a proxy in front of each micro-service. A proxy asks a *policy*, a program in Armour's
own language, whether a request, a response or a TCP connection may pass.

| Part | Crate | State it keeps | Operations | Talks to |
|---|---|---|---|---|
| PolicyActor | `armour-proxy` (`policy.rs`) | policies, `FnPolicy` status, running proxies, label tables, identity caches, connection counter | start, stop, set policy, label operations, status, shutdown | host (Unix socket, FIFO), proxies (actor messages) |
| HTTP proxy | `http_proxy.rs`, `http_policy.rs` | one asynchronous task per request, with the policy status it captured | accept, ask policy, read payload, evaluate, forward, response | PolicyActor, clients, servers |
| TCP proxy | `tcp_proxy.rs`, `tcp_policy.rs` | a server actor per port, a relay actor per connection with its statistics | connect, relay, heartbeat, end | PolicyActor, clients, servers |
| Data-plane host | `armour-host` | registered instances with policy hashes, child processes | launch, register, disconnect, command with one retry, on-board, quit | proxies, control plane (HTTP), REST clients, command line |
| Control plane | `armour-control` | database of hosts, services, policies and the two global policies | on-board, drop, query, update, specialize | hosts, administrators |
| Language | `armour-lang` | programs, policies, the metadata of the message at hand | parse, type check, cut into policies, evaluate | used by all; external services |
| Specialization | `armour-control` (`specialize.rs`) | none | compile a global policy for one service | control plane, language |
| Tools | `armour-compose`, `armour-launch`, `armour-ctl`, `armour-certs`, `docker-api` | none | sequential clients | host, control plane, Docker |

What is hard here: requests hold a policy status across awaits while the host replaces the policy;
proxies restart while requests are in flight; the host spawns processes that register later, and
learns of their end twice; commands are retried once; calls to the control plane block the host;
the control plane changes several collections without transactions; the language has separate
tables for checking and for evaluating, indices for bound variables that are shifted and substituted
at run time, and a partial evaluator that has to agree with the evaluator. The list of hazards, each with
its line and the properties aimed at it, is `hazards` in `PROJECT.json`.

What makes each part correct:

- PolicyActor: label changes show in every identity given out afterwards; one listening server per
  protocol, the one the actor believes in; the copies of the policy status and the hash told to the
  host follow the installed policy.
- Both proxies are a gate: nothing passes without the consent of a policy that was in force
  meanwhile, and everyone who arrives is let through or sent away. Connection numbers are unique.
- HTTP proxy: an arity mismatch can only come from a policy update on the way.
- TCP proxy: statistics account for every byte and are reported once; clients that queue are decided
  about; a stopped server stops.
- Host: hashes agree with the proxies once messages have arrived; a command is delivered at most
  once; an exit is collected exactly once; registered instances are children; the host does not wait
  for ever for a process or an answer.
- Control plane: the collections are as if handlers had run one after the other unless they
  overlapped; a GlobalID that was handed out has a policy, made of one version of the global policy;
  on-boarding without a policy fails closed; updates of the global policy reach the services.
- Language: what the checker accepts evaluates to a value of its type; translation and substitution
  keep the meaning of names; programs are not recursive; cutting a program into policies changes
  nothing; a policy cannot change the metadata that came in.
- Specialization: the compiled policy decides as the global one would, and stands on its own.

## Modules

| Module | Models | Extends |
|---|---|---|
| `Gate` | abstract: what a proxy promises about messages, checks and policies in force | |
| `Identity` | label tables, identity caches, `connection()` | |
| `Policies` | `FnPolicy`, protocol signatures, `from_program`, outcome of a call | |
| `PolicyActor` | the actor's requests from the host and the listening sockets | `Identity`, `Policies` |
| `HttpProxy` | HTTP tasks interleaved with everything of `PolicyActor`; implements `Gate` | `PolicyActor` |
| `TcpProxy` | TCP servers and relays interleaved with everything of `PolicyActor`; implements `Gate` | `PolicyActor` |
| `DataHost` | host actor, instances, REST and command line, proxy processes, control-plane calls | |
| `ControlPlane` | database of the control plane and its REST handlers, one database call per step | |
| `Labels`, `Types`, `Builtins`, `Literals` | label matching; types and unification; signatures and, apart from them, the cases the interpreter has; the values | |
| `Expressions`, `TypeCheck` | closures with De Bruijn indices; the checker and its translation into them | `Types`, `Builtins`, `Labels` |
| `BuiltinCalls`, `Interpret` | built-in functions on values; evaluation of expressions | `TypeCheck`, `Literals` |
| `CallGraph` | the call graph of a program: cycles, functions that cannot be reached | |
| `Programs`, `PolicyFiles` | declarations, cut, merge; policies of a protocol | `Interpret`, `CallGraph`, `Policies` |
| `Reference` | reference: the meaning of a source program with names and an environment | `PolicyFiles` |
| `PolicyProgram` | the life of a program: read, cut, evaluated | `Reference` |
| `Specialize`, `Specialization` | partial evaluation; the life of a global policy: read, compiled, used by a proxy | `PolicyFiles`, `PolicyProgram` |
| `IdentityProofs`, `PolicyActorProofs`, `HttpProxyProofs`, `TcpProxyProofs`, `DataHostProofs`, `ControlPlaneProofs` | inductive invariants and theorems, for the proxies also the refinement of `Gate` | the modules they name |
| `LanguageProofs` | theorems about label matching and call graphs | `Labels`, `CallGraph` |
| `MC*` | constants for TLC | the module they instantiate |

Operators whose name has a suffix after an underscore and whose comment starts with "Variant" are
faulty versions of an action. No specification uses them: they serve to check that the properties
notice the fault (`mutants` in `PROJECT.json`).

### Identity
`host_labels`, `ip_labels`, `host_cache`, `ip_cache` and `connection_number` are the fields of
`Identity` and `PolicyActor`. A map whose keys disappear with their last label is a total function
with value `{}`. DNS is external; every lookup returns an arbitrary answer, so nothing relies on
stable names. `id` keeps what the code does on a cache hit: a URI gets the cached identity with the
port of the first lookup, a socket address gets its own port.

### PolicyActor
`http` and `tcp` are `HttpPolicy` and `TcpPolicy`; `starting` is the `start_proxy` future that the
actor `.wait`s for; `sockets` is the state of the listening ports (an HTTP listener closes some time
after `stop`, a TCP listener was leaked and stays open); `reported` is what the host was told last.

### Gate and its refinements
`Gate` knows messages, a number of checks for each, and the policy in force, which may be replaced
at any moment. A check is passed because a policy in force since the message was let inside allows
everything there, or because such a policy judged this very message.

| `Gate` | `HttpProxy` | `TcpProxy` |
|---|---|---|
| `Messages`, `Checks` | requests, 2 (`allow_rest_request`, `allow_rest_response`) | connections, 1 (`allow_tcp_connection`) |
| `up`, `policy` | the actor runs, `http.policy` | the actor runs, `tcp.policy` |
| `place`, `passed` | read off the program counter and the outcome of a task | read off the state of a connection |
| `judged` | checks with a verdict of `EvalHttpFn` | connections with a verdict |
| `since` | `window` | the policy that is evaluating the connection |

`Mediates` and `TcpMediates` say that every behaviour of the proxy, so mapped, satisfies `Gate!Safe`;
they are model-checked and proved. That nobody waits for ever depends on the protocol and on fairness:
`Answered` and `TcpDecided` state it for each proxy. An
HTTP task keeps the status of the policy it met first and may act on it after further updates, and
an evaluation that has begun is not cut short by one; `Gate` allows both (`since`), and allows no
policy from before the message was let inside. A TCP connection gets less: it relies on the one policy
that the actor had when it took the request.

### HttpProxy
`reqs[r]` is the task of a request; its `pc` names the await it is at. `window` is a history
variable: the policies that were installed while the request was handled. An evaluation takes two
steps, as `EvalHttpFn` answers with a future: the actor starts it with the policy installed then
(`env`) and is free for the next message, the verdict comes at any later moment. A server that was
told to stop accepts requests until its graceful shutdown is over (`Serves`). A function of four
arguments, which `policies.rs` accepts, makes `request()` or `response()` panic: the task ends with the
answer `"panic"`, which `Answered` does not count as an answer.

### TcpProxy
`conns[c]` is a connection from the client's `connect` to the report of its statistics. It waits
(`queued`) in the stream of a server actor that takes one at a time. A chunk is counted when it is given
to an actix `Writer`, which only buffers (`server_writer`, `client_writer`); `FlushServer` and
`FlushClient` are the socket taking bytes, and what is buffered when a relay ends is lost. `up` and
`down` are history variables, the bytes that really left. `GetTcpPolicy` starts an evaluation (`env`) whose verdict comes
later, as in `HttpProxy`; the server actor waits for it, the `PolicyActor` does not. `panicked` records an `unreachable!()` in the actor.

### DataHost
`up` and `down` are the two FIFO directions of each Unix socket, `waiting` what the host actor is
blocked by, `notified` the messages it sends to itself, `delayed` the retries. Processes may crash at
any time. The control plane's answers are arbitrary. A frame has a 16-bit length (`armour-api`): the
policies of `Oversized` do not fit, and a proxy that receives one loses its place in the stream
(`Garbled`) and every later message; resynchronising by chance on the payload is left out. The reply
to `Status` carries both policies and may be too long in the same way (`lost`): the host then gets
nothing more from that proxy, perhaps not even the end of the stream. A proxy that shuts down says so
first and exits some time later (`stopping`, `ProcExit`), and the host may be in `child.wait()`
meanwhile. `ran` is a history variable, the hashes of the policies a proxy ever had;
`delivered` is a history variable, the commands each proxy has carried out.

### ControlPlane
`hosts`, `services` and `policies` are the three collections, as numbers of documents per key. A
handler is the sequence `todo` of the database calls it still has to make; each is a step, as the
handler awaits it. `Slots` bounds how many handlers run at a time. `DbFails` is a failing call, with
what the code does then at that call, `Uncompiled` a global policy that does not compile for a service;
`Restart` empties the database as `main` does. The on-boarding
policy is a program of the administrator; the model has the one of the examples and of the
integration test. `new_ID` concatenates host and service labels, `hosts_decodes` states which fields
the documents have and which the reader requires. `last`, `exposed` and `promised` are history
variables: the content saved last, the labels on which handlers overlapped, and the GlobalIDs replied
to hosts. The two compilations of `service::on_board` read the global policy separately, and an
`update-global` may come between compilation and `save_policy`; `exposed` records both, and a
compilation that failed, and `OneVersion` says that otherwise a stored policy has the two sides of
one version of the global policy.

### The language
A program is a tree as the parser gives it; `from_buf` reads headers first, then each body is
checked and translated, the call graph is built, cycles are refused. `Reference` gives the same trees
a meaning without translation, index or substitution: names and an environment. Both meanings share
the built-in functions, since what `str::len` computes is not the question; that the signatures and
the cases of the interpreter agree is (`TypeSound` over all rows). The state of an evaluation is the
metadata of the message and the log of calls to external services; a service answers, fails or times
out. Strings and data are short sequences of atoms, integers are not bounded, ports, status codes and
octets are cut to 16 and 8 bits as the code does with `as`. A proxy evaluates the function that the
protocol prescribes with the number of arguments that `from_program` recorded.

### Specialization
`peval` follows the cases of `specialize.rs`; an expression is known or not, and simplifications
apply where the code applies them. `compile` substitutes the identity of the service and takes the
other end from the connection of the message. `SpecializedAgrees` compares result and metadata of
the compiled policy with the global one, evaluated with both identities.

## Runs

Between them the passing runs reach every action and every alternative of the specifications; the
bounds are in the `.cfg` files.

| Run | Shows |
|---|---|
| `http` | two requests, three host requests, policies with each kind of `FnPolicy` pair, the unexpected arities included: enough for a policy to change at each await of one request while another is numbered, and for a label to change while both ends are cached. `NothingUnchecked`, `MismatchOnlyAfterUpdate`, `NumbersUnique`, `CacheCoherent`, `PolicyViewsAgree`, the refinement of `Gate` (`Mediates`) and `Answered`. |
| `tcp` | two connections, three host requests, two ports, a chunk each way with a flood limit below it; names and labels are left to `http`. Restart on another port, on the same port, on a port still closing or leaked; a client queues behind another, at a stopped server too. `StatsExact`, `OneServerPerProtocol`, `EndedReported`, `StopTakesEffect`, the refinement of `Gate` (`TcpMediates`) and `TcpDecided`. Peers may keep a connection open for ever. |
| `host` | one process, an on-board request and two commands, one policy too large for a frame and `Status` replies that may be, crashes at every point: `HashesConverge`, `DroppedOnce`, `RegisteredAreChildren`, `AtMostOnce`, `ExitCollected`, `WaitEnds`. Two processes have millions of states; processes do not share anything but the host's attention, and the theorems about the invariants are for any number of them. |
| `control` | one host and service, two contents, two handlers at a time, five requests: on-board, update and drop overlap in pairs at every call. `SerialExact`, `PolicyAvailable`, `OnboardingFailsClosed`, `OneVersion`. |
| `language` | about twelve and a half thousand programs: every binder around pairs of twelve values and twenty-two scopes that shadow, capture, return, divide by what may be zero, compare or wrap lists and tuples, or are ill typed; bodies that always return or end in `e;`; each built-in function; each label pattern of up to three nodes against each label; the call graphs of four functions; two metadata or service statements before a result, with services that answer or fail, and one named `Ingress`; policy functions with right and wrong signatures; and global policies of one statement and one result, for either side and two identities. `ProgramTypeOK`, `TypeSound`, `MeaningKept`, `NoRecursion`, `CutKeepsMeaning`, `PolicyDecides`, `IngressGuarded`, `SpecializedAgrees`, `SelfContained`. |
| `tcp_panic` | `tcp_policy()` accepts signatures for which `GetTcpPolicy` and `ConnectionStats` reach `unreachable!()`. |
| `host_onboard` | after a refused on-boarding the host goes on with the proxy's own label. |
| `control_unique` | two documents with one GlobalID: the presence check of `helper_onboard` compares a label with a document, and the labels `h` / `a::b` and `h::a` / `b` concatenate alike. |
| `control_sent` | even with one handler at a time `update-global` ends in a conversion error and pushes nothing. |
| `specialize` | a test of the request with `!=` is compiled to `true`. |
| `checker_panic` | a `filter_map` whose body always returns makes the checker unwrap `None`. |
| `ingress_mutation` | a policy that declares `external Ingress { push, ... }` is accepted and changes the metadata that came in. |

The last seven are disagreements between the code and its comments or documents, quoted in `findings`.

`TypeSound` and `PolicyDecides` name what goes wrong in accepted programs, and the generated programs
contain each case. An evaluation has no result at a division or remainder by zero, at `==` and `!=` of
lists or tuples, and at `Some` of one (`NoResult`); the documents allow the latter two
(`docs/DP-language.md:140` and the example at `:211`). A value has another type than the declared one if
a body always returns, as the type `!` fits any, or ends in `e;`, which is checked as unit and evaluates
to `e` (`Mistyped`). A type error anywhere else violates them. `IngressGuarded` is the comment that
`ingress_mutation` refutes, with its one exception.

Left out of the programs are, for checker and interpreter, `_` as the variable of `if let` or a
parameter, `e;` at the end of inner blocks, and services that answer outside their type. For
specialization: `!=` on unknown operands, iteration over a list known at compile time other than
`foreach`, `0 - x` and `1 / x`, a `return` under `&&` or in a helper function, unused bindings with
effects, the other identity under a binder, `if match` on something unknown, helper calls in
arguments of metadata functions, external services and the clock.

### Met while modelling, without a run

- Two on-board requests for a label before its first proxy registered spawn two proxies: `Launch`
  looks at registered instances only (`host.rs:396`).
- A cached identity of a URI keeps the port of its first look-up (`policy.rs:221`).
- `!` returns its operand unchanged (`interpret.rs`), against `docs/DP-language.md:133`.
- `ControlPlane::verify_credentials` has a signature, but the interpreter knows it by another name.
- A function of the HTTP protocol with four arguments is accepted and panics at `http_proxy.rs:113` or
  `:221`: the client gets no answer (the exception of `Answered`).
- The listener of a stopped TCP proxy is leaked: clients that connect to it later wait for ever
  (`TcpDecided` leaves them out).
- What a relay has counted and still buffers when it ends is lost; the statistics include it.
- A `Status` reply can be too long for its frame: the host hears no more from that proxy. A proxy whose
  own stream was garbled may not notice that the host is gone, as the decoder then reports an
  error, which `policy.rs:421` ignores, so nothing is claimed about it.
- A `return` of another type than the declared one, and `e;` in place of a result, are accepted.
- An early exit does not keep later arguments and list elements from being evaluated.
- The specialization defects listed above; a global `on_tcp_disconnect` is never compiled.

`CHECK_DEADLOCK FALSE` stands where the system may stop: the process ended, or the bounded number of
requests is used up.

## Fairness

The actors empty their mailboxes and the runtime polls tasks that can move (weak fairness of each
task, of the actor's wait for `start_proxy` and of each actor's own handlers). A server that is
connected to answers, fails or times out; nothing bounds how long a client's payload or a server's body
takes, so reading them has no fairness. A process that has stopped its `System` exits; that a proxy
notices the end of its host is not assumed. An evaluation ends, as
programs are not recursive (`NoRecursion`) and calls of external services time out. Retries fire because
they are timers. The control plane answers or the call fails. Nothing is assumed of the host's
commands, of clients opening or closing connections, or of crashes.

`Gate` has no fairness: it only says which steps are allowed. The language runs have none, as each step is a whole evaluation.

Symmetry is used in `control` only, which checks invariants.

## Proofs

| Module | Theorem | States |
|---|---|---|
| `IdentityProofs` | `IdentityCoherent` | `IdSpec => [](IdTypeOK /\ CacheCoherent)` |
| `PolicyActorProofs` | `ActorTypeCorrect`, `ActorOneServer`, `ActorViewsAgree` | `ActorSpec => []` `ActorTypeOK`, `OneServerPerProtocol`, `PolicyViewsAgree` |
| `HttpProxyProofs` | `HttpTypeCorrect`, `HttpNothingUnchecked`, `HttpMismatch`, `HttpNumbers`, `HttpCachesCoherent` | `HttpSpec => []` `HttpTypeOK`, `NothingUnchecked`, `MismatchOnlyAfterUpdate`, `NumbersUnique`, `CacheCoherent` |
| | `HttpMediates` | `HttpSpec => Mediates`, that is, `HttpGate!Safe` |
| `TcpProxyProofs` | `TcpTypeCorrect`, `TcpStatsExact` | `TcpSpec => []` `TcpTypeOK`, `StatsExact` |
| | `TcpMediatesAll` | `TcpSpec => TcpMediates`, that is, `TcpGate!Safe` |
| `DataHostProofs` | `HostTypeCorrect`, `HostKeepsChildren`, `HostDropsOnce`, `HostHashesConverge`, `HostAtMostOnce` | `HostSpec => []` `HostTypeOK`, `RegisteredAreChildren`, `DroppedOnce`, `HashesConverge`, `AtMostOnce` |
| `ControlPlaneProofs` | `ControlTypeCorrect`, `ControlSerial`, `ControlPolicyAvailable`, `ControlFailsClosed`, `ControlOneVersion` | `CPSpec => []` `CPTypeOK`, `SerialExact`, `PolicyAvailable`, `OnboardingFailsClosed`, `OneVersion` |
| | `ControlOneByOne` | with one handler at a time, `CPSpec => []OneDocument` |
| `LanguageProofs` | `AfterIsReachable`, `CyclesFound` | `After` is reachability by one edge or more; `check_for_cycles` fails exactly on a cycle |
| | `AcceptedIffNoRecursion`, `CallDepthBounded` | a program is accepted exactly if no chain of calls returns to its start; then no chain is longer than the graph has nodes |
| | `CutKeepsCallees`, `CutKeepsOnlyCallees` | what `unreachable` leaves is closed under calls, and no larger than needed |
| | `MatchIsSubstitution` | `match_with(p, l) = ReferenceMatch(p, l)` |
| | `LabelEqIsEquivalence`, `GroundLabelsEqual` | `LabelEq` is an equivalence, and identity on labels without wildcards |

They hold for every set of names, addresses, ports, labels, policies, requests, connections,
processes, services and hosts, for any number of handlers that run at the same time, and for every
bound. Assumed of the constants, each where it is declared and evaluated by
TLC in the runs:

- `None` is none of the values it stands in for (`NoneAssumption`, `NoneNotDPID`, `NoneNotPolicy`,
  `NoneNotStarting`, `NoneNotAnswer`, `NoneNotRecord`, `CPAssumption`), and `"all"` is not a label of a proxy
  (`HostConstants`);
- bounds and sizes are natural numbers, IPv4 addresses are addresses, clients, targets, peers and
  destinations are end points, and
  the policies of `Oversized` are policies other than the first one;
- policies give statuses to functions of their protocol (`PoliciesAssumption`);
- the default content is a content, and services and handlers are finitely many (`CPAssumption`).

Each theorem about a specification follows from an inductive invariant, which was model-checked before
it was proved.

*IdentityCoherent.* `IdInv`, the conjunction of the two invariants, is inductive. A resolved identity
carries the labels that the tables give to its names and addresses (`NewIds`). Updating the caches
with it keeps every cached identity like that, also when both ends of a connection are resolved in
one step, one after the other (`CacheTypes`, `CacheUpdateCoherent`). A label operation changes the
tables and clears what depends on the change (`LabelOpInv`).

*PolicyActor.* `OneServerPerProtocol` is not inductive by itself: `StartOk` adds a listener, which is
right only because the server of that protocol was stopped before the wait began. `ActorInv` adds
this as `StartsStopped`. Each request has a lemma of its own: those that stop a server, start one, set
a policy, and the ones that change nothing of either. `ActorStepInv` joins them and serves the two
proxies as well, whose specifications extend `PolicyActor`; `ControlKeepsPolicy` says which of the
host's requests can change the installed policy.

*HttpProxy.* `NothingUnchecked` is about tasks that are done; while a task is on its way, what it will
be allowed to do depends on the status it captured and on the policy that is evaluating it.
`HttpInv` therefore says, by the await a task is at, what it has done so far (`Progress`), that the
captured pair of statuses is that of one policy of its window, that the policy in force and the one
that evaluates are in the window (`Captured`), and that numbers given are below the counter. The host
may act between any two awaits: those steps only extend windows, and `Captured` and `Consented` are
monotone in them.

*TcpProxy.* That a report accounts for every byte (`StatsExact`) rests on the statistics starting with
the relay, when nothing has been written or buffered, and on the ports the evaluation was given;
`ConnInv` carries both from the verdict to the end, over writes, flushes and the flood limit.

*Refinement.* `HttpMediates` and `TcpMediatesAll` map the initial state and then each step to one step
of `Gate` or a stutter, in one lemma for each action (`GateFrame` reduces them to the message at
hand): the step that evaluates is `Judge`, the one that forwards or opens passes a check, with
`Captured` or `ConnInv` supplying the policy that consented. Replacing the policy is a step of
`Gate` too, also while evaluations are under way.

*DataHost.* None of the invariants is inductive. `HostInv` adds the life cycle of a process: it
is unknown to the host before it connects, has one label for life (`LabelsOK`), sends nothing but
`Closed` after its end (`StreamOK`), and can still announce itself, or be known, only while it is a
child (`ChildrenOK`). From this a second `Disconnect`, of the end of the stream after `ShuttingDown`,
finds no instance and reaps nothing. `HashOK` is `HashesConverge` without the assumption that the
proxy is registered: every hash told or held is one the proxy ran, and unless a reply was lost the
newest one is that of the policy it runs. `CountsOK` is `AtMostOnce` together with the count of commands pending for a
label before a process has it, and the finiteness of the sets counted; the queue of retries loses its
head by a bijection on indices (`ShiftCardinality`, `PendingTail`).

*ControlPlane.* A handler is a list of calls of any length, as `update_global` and `drop_all` make one
from what they read, so the invariant first says which lists there are (`HandlerOK`): a deletion of
`save_policy` is followed by its insertion and an insertion preceded by its deletion, a host is
inserted last and after the look for it (`Paired`), and `service::on_board` has left an end of its
eight calls (`Scripted`). From this a handler in a window is one whose next call is the insertion,
or an on-boarding with three to six calls left, and two of them at one label are in `exposed`
(`Watched`). `CPInv` then says what such a handler knows: alone in its window, it finds no document of
the label (`HostsSerial`, `ServicesSerial`, `PoliciesSerial`); a promised policy is stored, or some
handler is about to insert it (`Available`); before an on-boarding policy is saved, on-boardings have
made none of their calls or have ended (`FailsClosed`); an on-boarding with at most five calls left has
the egress, with at most four the ingress, of the global policy as it is now (`Versioned`); and
documents and pending insertions together are at most the requests (`Counted`), from which the
bounds of `CPTypeOK` follow. The nineteen database calls, the failing compilation and the failing call are first reduced to what
they may do to the handler and to each collection (`Moves`, by `DbCallMoves` and `DbFailsMoves`); each
part of `CPInv` then has one lemma from `Moves`, one for an arriving request and one for a (re)start.

`ControlOneByOne` draws the conclusion for a control plane that serves one request at a time
(`OneHandler`: `Slots` has at most one element, which the constants allow and the code does not
enforce). `exposed` can then only hold the compilations that an update overtook (`AloneNext`), and
`SerialExact` says the rest: the duplicates that `SerialExact` makes room for come from overlapping
handlers and from nothing else, neither failing calls nor restarts.

*Call graphs.* The library's induction theorems have an operator as parameter, which the installed
provers cannot instantiate; a set of counterexamples, however, has a least element (`LeastNat`, from
the well-foundedness of the naturals), and that suffices (`Induction`). By it the recursive function
in `After` has a closed form: after *k* rounds it holds the ends of chains of at most *k* + 1 edges
(`AfterIsReach`). A round that does not end the growth adds a node, so `g.size` rounds are enough (`ReachSaturates`,
`AfterIsReachable`). A chain longer than the graph visits a node twice, hence contains a cycle
(`ChainsAreShort`). The theorems about programs assume `Mirrors(g, calls)`: the graph has a node of its own for
each name, and its edges are the calls. The graph that `from_buf` builds has this property at each
step: it holds when empty, `add_function` adds nodes for new names and `add_decl` the edges of a body
(`EmptyMirrors`, `NodeMirrors`, `EdgesMirror`), and TLC checks it for the graph of every accepted
program (part of `ProgramTypeOK`). It does not hold for the graph that `deadcode_elim` rebuilds,
where a name may get a second node; the theorems say nothing about that one.

*Labels.* The loop of `match_with` is a recursive function over the positions of the label. Its value
after *k* positions is, again by the least counterexample, the assignment of the variables of the
first *k* positions, or none if a name there differs (`MatchLoop`). A variable of `RecAny` has then
collected the nodes from its position on, as the padded pattern repeats it. `WellFormed` asks
that the wildcard for the rest comes last, as the comment in `match_with` does, and that no variable
occurs twice, which the checker refuses in patterns of `if match` (`expressions.rs:1047`). The theorem
needs both: a `RecAny` before the end stands for one node only, and a variable that occurs twice has to
be bound to equal nodes. Matching without regard to variables compares names only, which gives `LabelEq`
(`LabelEqWhen`) and from there the equivalence.

Only model-checked, since the prover has no ENABLED and no fairness: `Answered`, `TcpDecided`,
`EndedReported`, `StopTakesEffect`, `ExitCollected`, `WaitEnds`.

Only model-checked, since their modules are recursive over expressions and declare `RECURSIVE`
operators, which the prover does not support: the nine invariants of the run `language`. What
`NoRecursion` and `CutKeepsMeaning` rest on in the call graph, and `MeaningKept` in the matching of
labels, is proved for every graph, pattern and label by the theorems of `LanguageProofs`; that checker
and interpreter use it rightly is what the run adds.

## Order of the work

The modules were written from the bottom of the proxies upwards (`Identity`, `PolicyActor`, the two
proxies), then the host, the control plane and the language; each was model-checked first and proved
about afterwards. The safety invariants of the proxies, the host and the control plane are all proved,
and so are the parts of the language that do not recurse over expressions.

## Not modelled

- Lexer, parser, pretty printer and the read-eval-print loop: text in, text out. Serialization and
  hashing of policies, Cap'n Proto.
- TLS and certificates; rewriting of HTTP headers and the sealing of metadata in `X-Armour`.
- Floating-point numbers and the text of displayed values.
- `armour-compose`, `armour-launch`, `docker-api`, `armour-ctl`, `armour-certs`: sequential clients
  without state of their own.
- Primitives of the on-boarding policy other than those that use the database.
