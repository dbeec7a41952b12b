----------------------------- MODULE ControlPlane -----------------------------
(***************************************************************************)
(* The control plane: three MongoDB collections without transactions and   *)
(* the REST handlers that change them (armour-control: rest_api.rs,        *)
(* interpret.rs, policy.rs).                                               *)
(*                                                                         *)
(* A handler is the sequence of the database calls it makes.  Each call is *)
(* one step, because the handler awaits it and other handlers run          *)
(* meanwhile.  A call may fail; most handlers then end and leave what they *)
(* have already done.  Handlers that only read (list, query, specialize)   *)
(* are left out.                                                           *)
(*                                                                         *)
(* The on-boarding policy is a program of the administrator.  The one here *)
(* is that of the examples and of the integration test: refuse a service   *)
(* that is on-boarded, else give it an ID, compile the global policy for   *)
(* its egress and its ingress, and on-board it.                            *)
(***************************************************************************)
EXTENDS Naturals, Sequences, FiniteSets, SequencesExt

CONSTANTS
  None,
  Services,     \* what hosts on-board: records [host, service] of two labels
  Hosts,        \* labels of hosts
  Versions,     \* contents of policies
  NoPolicy,     \* the content of GlobalPolicies::default()
  Slots,        \* handlers that may run at the same time
  MaxRequests   \* bound on requests and restarts

VARIABLES
  hosts,      \* hosts collection: documents of each host label
  services,   \* services collection: documents of each service
  policies,   \* policies collection: documents of each label, by content
  reqs,       \* the handler in each slot
  requests,   \* requests received so far
  last,       \* history: content inserted last for each policy label
  exposed,    \* history: <<call, label>> on which two handlers overlapped or a read failed
  promised    \* history: GlobalIDs replied to a host whose policy was not dropped since

cpVars == <<hosts, services, policies, reqs, requests, last, exposed, promised>>

\* A label is the sequence of its nodes.
global_policy_label == <<"global_policy">>
onboarding_policy_label == <<"onboarding_policy">>

\* new_ID: host label and service label behind one another.
new_ID(s) == <<"ServiceID">> \o s.host \o s.service

IDs == {new_ID(s) : s \in Services}
PolicyLabels == IDs \cup {global_policy_label, onboarding_policy_label}

\* A stored policy: the content its egress and its ingress functions come from.
Content == [egress : Versions, ingress : Versions]
Whole(v) == [egress |-> v, ingress |-> v]

\* How a handler ends.
Results == {"ok", "refused", "no service", "conversion", "compile", "database"}

ASSUME CPAssumption ==
  /\ NoPolicy \in Versions /\ None \notin Content /\ None \notin Results
  /\ IsFiniteSet(Services) /\ IsFiniteSet(Slots) /\ MaxRequests \in Nat

NoDocs == [c \in Content |-> 0]
Docs(label) == {c \in Content : policies[label][c] > 0}

\* Documents of the services collection whose "service" field is the label.
ServiceDocs(label) == {s \in Services : services[s] > 0 /\ new_ID(s) = label}

\* Several documents of the services collection have the GlobalID.
Duplicated(id) ==
  \/ Cardinality(ServiceDocs(id)) > 1
  \/ \E s \in ServiceDocs(id) : services[s] > 1

-----------------------------------------------------------------------------
(***************************************************************************)
(* Handlers.                                                               *)
(***************************************************************************)
Call(op, label) == [op |-> op, label |-> label]

CallOps == {"host_present", "host_insert", "host_delete", "services_delete",
            "get_onboarding_policy", "onboarded", "compile_egress", "compile_ingress",
            "service_present", "service_insert", "service_delete",
            "delete_many", "insert_one", "get_local_service_label", "update_hosts",
            "services_full", "delete_one", "services", "drop_collection"}

Handler(kind, svc, val, todo) ==
  [kind |-> kind, svc |-> svc, val |-> val, todo |-> todo, sel |-> {}, res |-> None,
   sent |-> {}]

Idle == Handler("none", None, Whole(NoPolicy), <<>>)

host_on_board(h) ==
  Handler("host_on_board", None, Whole(NoPolicy),
          <<Call("host_present", h), Call("host_insert", h)>>)

host_drop(h) ==
  Handler("host_drop", None, Whole(NoPolicy),
          <<Call("host_delete", h), Call("services_delete", h)>>)

\* Variant: the new document is inserted before the old ones are deleted.
save_policy_InsertFirst(label) == <<Call("insert_one", label), Call("delete_many", label)>>

save_policy(label) == <<Call("delete_many", label), Call("insert_one", label)>>

helper_update(label) == Append(save_policy(label), Call("update_hosts", label))

\* update, and update_global for each service: the service must be on-boarded.
update_service(id) == <<Call("get_local_service_label", id)>> \o helper_update(id)

service_on_board(s) ==
  LET id == new_ID(s)
  IN  Handler("service_on_board", s, Whole(NoPolicy),
              <<Call("get_onboarding_policy", onboarding_policy_label),
                Call("onboarded", id), Call("compile_egress", global_policy_label),
                Call("compile_ingress", global_policy_label),
                Call("service_present", id), Call("service_insert", id)>>
                \o save_policy(id))

service_drop(id) ==
  Handler("service_drop", None, Whole(NoPolicy), <<Call("service_delete", id)>>)

update(id, v) ==
  Handler("update", None, Whole(v), update_service(id))

\* The selector stands for the GlobalIDs it matches; without one, for all.
Selectors == {IDs} \cup {{id} : id \in IDs}

update_global(v, sel) ==
  [Handler("update_global", None, Whole(v),
           Append(save_policy(global_policy_label), Call("services_full", global_policy_label)))
     EXCEPT !.sel = sel]

update_onboarding(v) ==
  Handler("update_onboarding", None, Whole(v), save_policy(onboarding_policy_label))

drop(label) ==
  Handler("drop", None, Whole(NoPolicy),
          <<Call("delete_one", label), Call("get_local_service_label", label),
            Call("update_hosts", label)>>)

drop_all ==
  Handler("drop_all", None, Whole(NoPolicy),
          <<Call("services", global_policy_label),
            Call("drop_collection", global_policy_label)>>)

Handlers ==
  {host_on_board(h) : h \in Hosts} \cup {host_drop(h) : h \in Hosts}
    \cup {service_on_board(s) : s \in Services}
    \cup {service_drop(id) : id \in IDs}
    \cup (UNION {{update(id, v) : id \in IDs} : v \in Versions \ {NoPolicy}})
    \cup (UNION {{update_global(v, sel) : sel \in Selectors} : v \in Versions \ {NoPolicy}})
    \cup {update_onboarding(v) : v \in Versions \ {NoPolicy}}
    \cup {drop(label) : label \in PolicyLabels}
    \cup {drop_all}

-----------------------------------------------------------------------------
(***************************************************************************)
(* Windows: the handler has made the call that looks for, or deletes, the  *)
(* documents of the label, and has yet to insert its own.                  *)
(***************************************************************************)
Guard == [host_insert |-> "host_present", service_insert |-> "onboarded",
          insert_one |-> "delete_many"]

InWindow(q, ins, label) ==
  \E i \in DOMAIN q.todo :
    /\ q.todo[i] = Call(ins, label)
    /\ \A j \in 1..(i - 1) : q.todo[j] # Call(Guard[ins], label)

Windows(q) ==
  {<<c.op, c.label>> : c \in {x \in Range(q.todo) : x.op \in DOMAIN Guard
                                                      /\ InWindow(q, x.op, x.label)}}

Overlaps(qs) ==
  UNION {Windows(qs[x[1]]) \cap Windows(qs[x[2]]) : x \in {y \in Slots \X Slots : y[1] # y[2]}}

\* An on-boarding that has compiled from the global policy, and has yet to save.
Compiling(q) ==
  /\ q.kind = "service_on_board"
  /\ q.todo # <<>>
  /\ \A c \in Range(q.todo) : c.op # "compile_egress"

WritesGlobal(c) ==
  \/ c.op = "drop_collection"
  \/ c.op \in {"delete_many", "insert_one", "delete_one"} /\ c.label = global_policy_label

\* The services whose on-boarding the next call of slot r overtakes.
Overtaken(r) ==
  IF reqs[r].todo # <<>> /\ WritesGlobal(Head(reqs[r].todo))
  THEN {<<"compile", new_ID(reqs[q].svc)>> : q \in {x \in Slots : Compiling(reqs[x])}}
  ELSE {}

-----------------------------------------------------------------------------
(***************************************************************************)
(* Database calls.  At(r, op): slot r is about to make call op.            *)
(***************************************************************************)
At(r, op) == reqs[r].todo # <<>> /\ Head(reqs[r].todo).op = op
LabelOf(r) == Head(reqs[r].todo).label

\* Slot r goes on as q; every call is watched for overlapping windows.
Becomes(r, q) ==
  /\ reqs' = [reqs EXCEPT ![r] = q]
  /\ exposed' = exposed \cup Overlaps(reqs') \cup Overtaken(r)

Ended(q, res) == [q EXCEPT !.todo = <<>>, !.res = res]

\* Variant: a handler that made all its calls does not answer.
Advanced_NoAnswer(q) == [q EXCEPT !.todo = Tail(@)]

Advanced(q) ==
  IF Len(q.todo) = 1 THEN Ended(q, "ok") ELSE [q EXCEPT !.todo = Tail(@)]

Continue(r) == Becomes(r, Advanced(reqs[r]))
Refuse(r, why) == Becomes(r, Ended(reqs[r], why))

Reads == UNCHANGED <<hosts, services, policies, requests, last, promised>>

\* A request arrives in a slot whose handler has ended.
Receive(r) ==
  /\ reqs[r].todo = <<>>
  /\ requests < MaxRequests
  /\ requests' = requests + 1
  /\ \E q \in Handlers : Becomes(r, q)
  /\ UNCHANGED <<hosts, services, policies, last, promised>>

host_present(r) ==
  /\ At(r, "host_present")
  /\ IF hosts[LabelOf(r)] > 0 THEN Refuse(r, "refused") ELSE Continue(r)
  /\ Reads

host_insert(r) ==
  /\ At(r, "host_insert")
  /\ hosts' = [hosts EXCEPT ![LabelOf(r)] = @ + 1]
  /\ Continue(r)
  /\ UNCHANGED <<services, policies, requests, last, promised>>

host_delete(r) ==
  /\ At(r, "host_delete")
  /\ hosts' = [hosts EXCEPT ![LabelOf(r)] = IF @ > 0 THEN @ - 1 ELSE 0]
  /\ Continue(r)
  /\ UNCHANGED <<services, policies, requests, last, promised>>

(***************************************************************************)
(* host::drop deletes the services whose "label" is that of the host.  The *)
(* documents are POnboardServiceRequest and have no such field.            *)
(***************************************************************************)
POnboardServiceRequest == {"service", "service_id", "host"}

services_delete(r) ==
  /\ At(r, "services_delete")
  /\ services' = [s \in Services |->
       IF "label" \in POnboardServiceRequest /\ s.host = LabelOf(r) THEN 0 ELSE services[s]]
  /\ Continue(r)
  /\ UNCHANGED <<hosts, policies, requests, last, promised>>

\* Without an on-boarding policy the default one refuses.
get_onboarding_policy(r) ==
  /\ At(r, "get_onboarding_policy")
  /\ IF Docs(LabelOf(r)) = {} THEN Refuse(r, "refused") ELSE Continue(r)
  /\ Reads

\* ControlPlane::onboarded, and the refusal of the on-boarding policy.
onboarded(r) ==
  /\ At(r, "onboarded")
  /\ IF ServiceDocs(LabelOf(r)) # {} THEN Refuse(r, "refused") ELSE Continue(r)
  /\ Reads

\* get_global_pol, read anew by each of the two compilations.
GlobalPolicyRead == IF Docs(global_policy_label) = {}
                    THEN {NoPolicy}
                    ELSE {c.egress : c \in Docs(global_policy_label)}

helper_compile_egress(r) ==
  /\ At(r, "compile_egress")
  /\ \E v \in GlobalPolicyRead :
       Becomes(r, [Advanced(reqs[r]) EXCEPT !.val.egress = v])
  /\ Reads

\* Variant: only the egress is compiled.
helper_compile_ingress_Skipped(r) ==
  /\ At(r, "compile_ingress")
  /\ Continue(r)
  /\ Reads

helper_compile_ingress(r) ==
  /\ At(r, "compile_ingress")
  /\ \E v \in GlobalPolicyRead :
       Becomes(r, [Advanced(reqs[r]) EXCEPT !.val.ingress = v])
  /\ Reads

(***************************************************************************)
(* A stored global policy may not compile for a service (Uncompiled): the  *)
(* on-boarding ends, and update_global, which compiles the policy it was   *)
(* sent for each service before it saves it, ends with the services left.  *)
(***************************************************************************)
Compiles(r) ==
  \/ Head(reqs[r].todo).op \in {"compile_egress", "compile_ingress"} /\ Docs(LabelOf(r)) # {}
  \/ reqs[r].kind = "update_global" /\ Head(reqs[r].todo).op = "delete_many" /\ LabelOf(r) \in IDs

Uncompiled(r) ==
  /\ reqs[r].todo # <<>>
  /\ Compiles(r)
  /\ Refuse(r, "compile")
  /\ Reads

(***************************************************************************)
(* helper_onboard looks for documents whose "service_id" equals the label. *)
(* The field is a CPID, a document, so a label never equals it.            *)
(***************************************************************************)
service_present(r) ==
  /\ At(r, "service_present")
  /\ Continue(r)
  /\ Reads

service_insert(r) ==
  /\ At(r, "service_insert")
  /\ services' = [services EXCEPT ![reqs[r].svc] = @ + 1]
  /\ Continue(r)
  /\ UNCHANGED <<hosts, policies, requests, last, promised>>

\* service::drop: one of the documents.
service_delete(r) ==
  /\ At(r, "service_delete")
  /\ IF ServiceDocs(LabelOf(r)) = {}
     THEN services' = services
     ELSE \E s \in ServiceDocs(LabelOf(r)) : services' = [services EXCEPT ![s] = @ - 1]
  /\ Continue(r)
  /\ UNCHANGED <<hosts, policies, requests, last, promised>>

\* Variant: the old documents stay.
delete_many_Nothing(r) ==
  /\ At(r, "delete_many")
  /\ Continue(r)
  /\ Reads

delete_many(r) ==
  /\ At(r, "delete_many")
  /\ policies' = [policies EXCEPT ![LabelOf(r)] = NoDocs]
  /\ Continue(r)
  /\ UNCHANGED <<hosts, services, requests, last, promised>>

\* The last call of service::on_board: the host is told the GlobalID.
Promises(r) ==
  IF reqs[r].kind = "service_on_board" THEN {LabelOf(r)} ELSE {}

insert_one(r) ==
  /\ At(r, "insert_one")
  /\ policies' = [policies EXCEPT ![LabelOf(r)][reqs[r].val] = @ + 1]
  /\ last' = [last EXCEPT ![LabelOf(r)] = reqs[r].val]
  /\ promised' = promised \cup Promises(r)
  /\ Continue(r)
  /\ UNCHANGED <<hosts, services, requests>>

get_local_service_label(r) ==
  /\ At(r, "get_local_service_label")
  /\ IF ServiceDocs(LabelOf(r)) = {} THEN Refuse(r, "no service") ELSE Continue(r)
  /\ Reads

(***************************************************************************)
(* hosts() reads the documents of the service as OnboardServiceRequest,    *)
(* whose fields without default they must have, and update_hosts sends the *)
(* policy to the host of each.  What a host answers is only logged.        *)
(***************************************************************************)
OnboardServiceRequest == {"service", "host", "credentials"}

hosts_decodes == OnboardServiceRequest \subseteq POnboardServiceRequest

update_hosts(r) ==
  /\ At(r, "update_hosts")
  /\ IF ServiceDocs(LabelOf(r)) # {} /\ ~hosts_decodes
     THEN Refuse(r, "conversion")
     ELSE Becomes(r, [Advanced(reqs[r]) EXCEPT
            !.sent = @ \cup {s \in ServiceDocs(LabelOf(r)) : hosts[s.host] > 0}])
  /\ Reads

\* update_global goes through the documents of the selected services in any order.
services_full(r) ==
  /\ At(r, "services_full")
  /\ LET documents == {d \in Services \X (1..MaxRequests) :
                         new_ID(d[1]) \in reqs[r].sel /\ d[2] <= services[d[1]]}
     IN  \E order \in SetToSeqs(documents) :
           LET rest == [i \in 1..(4 * Len(order)) |->
                         update_service(new_ID(order[(i + 3) \div 4][1]))[((i - 1) % 4) + 1]]
           IN  Becomes(r, IF rest = <<>> THEN Advanced(reqs[r])
                          ELSE [reqs[r] EXCEPT !.todo = rest])
  /\ Reads

\* policy::drop: one of the documents.
delete_one(r) ==
  /\ At(r, "delete_one")
  /\ IF Docs(LabelOf(r)) = {}
     THEN policies' = policies
     ELSE \E c \in Docs(LabelOf(r)) :
            policies' = [policies EXCEPT ![LabelOf(r)][c] = @ - 1]
  /\ promised' = promised \ {LabelOf(r)}
  /\ Continue(r)
  /\ UNCHANGED <<hosts, services, requests, last>>

(***************************************************************************)
(* drop_all reads the labels of all policies first, decoding each document *)
(* as a data-plane policy; that of a control-plane policy may fail.        *)
(***************************************************************************)
StoredLabels == {label \in PolicyLabels : Docs(label) # {}}

services_of_policies(r) ==
  /\ At(r, "services")
  /\ \/ \E order \in SetToSeqs(StoredLabels) :
          Becomes(r, [reqs[r] EXCEPT
            !.todo = [i \in 1..(1 + 2 * Len(order)) |->
              IF i = 1 THEN Call("drop_collection", global_policy_label)
              ELSE Call(IF i % 2 = 0 THEN "get_local_service_label" ELSE "update_hosts",
                        order[i \div 2])]])
     \/ /\ StoredLabels \ IDs # {}
        /\ Refuse(r, "conversion")
  /\ Reads

drop_collection(r) ==
  /\ At(r, "drop_collection")
  /\ policies' = [label \in PolicyLabels |-> NoDocs]
  /\ promised' = {}
  /\ Continue(r)
  /\ UNCHANGED <<hosts, services, requests, last>>

(***************************************************************************)
(* A call fails.  Reads written "if let Ok(Some(..))" take the failure for *)
(* an absent document; drop_all answers success; others end the handler.   *)
(***************************************************************************)
\* Variant: a failing database lets services in.
TakenForAbsent_OnboardingToo == {"onboarded", "get_onboarding_policy"}

TakenForAbsent == {"onboarded"}

DbFails(r) ==
  /\ reqs[r].todo # <<>>
  /\ LET op == Head(reqs[r].todo).op
         label == LabelOf(r)
         next == CASE op \in TakenForAbsent -> Advanced(reqs[r])
                   [] op = "compile_egress" ->
                        [Advanced(reqs[r]) EXCEPT !.val.egress = NoPolicy]
                   [] op = "compile_ingress" ->
                        [Advanced(reqs[r]) EXCEPT !.val.ingress = NoPolicy]
                   [] op = "drop_collection" -> Ended(reqs[r], "ok")
                   [] OTHER -> Ended(reqs[r], "database")
     IN  /\ reqs' = [reqs EXCEPT ![r] = next]
         /\ exposed' = exposed \cup Overlaps(reqs')
                         \cup (CASE op = "onboarded" -> {<<"service_insert", label>>}
                                 [] op \in {"compile_egress", "compile_ingress"} ->
                                      {<<"compile", new_ID(reqs[r].svc)>>}
                                 [] OTHER -> {})
         /\ promised' = IF op = "insert_one" THEN promised \ {label} ELSE promised
  /\ UNCHANGED <<hosts, services, policies, requests, last>>

\* The control plane starts again, from an empty database.
Restart ==
  /\ requests > 0
  /\ requests < MaxRequests
  /\ requests' = requests + 1
  /\ hosts' = [h \in Hosts |-> 0]
  /\ services' = [s \in Services |-> 0]
  /\ policies' = [label \in PolicyLabels |-> NoDocs]
  /\ reqs' = [r \in Slots |-> Idle]
  /\ last' = [label \in PolicyLabels |-> None]
  /\ exposed' = {}
  /\ promised' = {}

CPInit ==
  /\ hosts = [h \in Hosts |-> 0]
  /\ services = [s \in Services |-> 0]
  /\ policies = [label \in PolicyLabels |-> NoDocs]
  /\ reqs = [r \in Slots |-> Idle]
  /\ requests = 0
  /\ last = [label \in PolicyLabels |-> None]
  /\ exposed = {}
  /\ promised = {}

DbCall(r) ==
  \/ host_present(r) \/ host_insert(r) \/ host_delete(r) \/ services_delete(r)
  \/ get_onboarding_policy(r) \/ onboarded(r)
  \/ helper_compile_egress(r) \/ helper_compile_ingress(r) \/ Uncompiled(r)
  \/ service_present(r) \/ service_insert(r) \/ service_delete(r)
  \/ delete_many(r) \/ insert_one(r)
  \/ get_local_service_label(r) \/ update_hosts(r) \/ services_full(r)
  \/ delete_one(r) \/ services_of_policies(r) \/ drop_collection(r)

CPNext == Restart \/ \E r \in Slots : Receive(r) \/ DbCall(r) \/ DbFails(r)

CPSpec == CPInit /\ [][CPNext]_cpVars

-----------------------------------------------------------------------------
(***************************************************************************)
(* Type invariant of the collections and of the running handlers.          *)
(***************************************************************************)
CPTypeOK ==
  /\ hosts \in [Hosts -> 0..MaxRequests]
  /\ services \in [Services -> 0..MaxRequests]
  /\ DOMAIN policies = PolicyLabels
  /\ \A label \in PolicyLabels :
       /\ DOMAIN policies[label] = Content
       /\ \A c \in Content : policies[label][c] \in Nat
       /\ last[label] \in Content \cup {None}
  /\ \A r \in Slots :
       /\ reqs[r].val \in Content
       /\ reqs[r].sent \subseteq Services /\ reqs[r].sel \subseteq IDs
       /\ \A c \in Range(reqs[r].todo) : c.op \in CallOps /\ c.label \in PolicyLabels \cup Hosts
       /\ reqs[r].res = None <=> reqs[r].todo # <<>> \/ reqs[r].kind = "none"
  /\ requests \in 0..MaxRequests
  /\ promised \subseteq IDs

(***************************************************************************)
(* Where no two handlers overlapped between looking for (or deleting) the  *)
(* documents of a label and inserting their own, the collections are as if *)
(* the handlers had run one after the other: at most one document, and for *)
(* a policy the one that was saved last (save_policy, helper_update,       *)
(* update_global, update_onboarding, host::on_board, helper_onboard),      *)
(* whatever calls failed and whichever handlers ended halfway.             *)
(***************************************************************************)
SerialExact ==
  /\ \A h \in Hosts : hosts[h] > 1 => <<"host_insert", h>> \in exposed
  /\ \A id \in IDs : Duplicated(id) => <<"service_insert", id>> \in exposed
  /\ \A label \in PolicyLabels :
       \/ <<"insert_one", label>> \in exposed
       \/ \A c \in Content : policies[label][c] > 0 =>
                               policies[label][c] = 1 /\ c = last[label]

(***************************************************************************)
(* A host that was told a GlobalID finds a policy when it queries it, as   *)
(* CPOnboardProxy does next: unless the policy was dropped or the insert   *)
(* of a later save failed, it is missing only while some handler is        *)
(* between deleting and inserting it.                                      *)
(***************************************************************************)
PolicyAvailable ==
  \A id \in promised :
    Docs(id) # {} \/ \E r \in Slots : InWindow(reqs[r], "insert_one", id)

(***************************************************************************)
(* On-boarding fails closed: a control plane in which no on-boarding       *)
(* policy has been stored on-boards no service, even if reads fail         *)
(* (OnboardingPolicy::default).                                            *)
(***************************************************************************)
OnboardingFailsClosed ==
  last[onboarding_policy_label] = None => \A s \in Services : services[s] = 0

(***************************************************************************)
(* The policy of a service is of one piece: on-boarding compiles it with   *)
(* two reads of the global policy, before the service is in the database   *)
(* and long before the policy is saved, and update_global cannot see a     *)
(* service that is not there yet.  Only if the global policy was written   *)
(* after the first read, or a read failed, does on-boarding save anything  *)
(* but what the global policy is at that moment, or halves of two of its   *)
(* versions.                                                               *)
(***************************************************************************)
OneVersion ==
  \A id \in IDs :
    \/ {<<"compile", id>>, <<"insert_one", global_policy_label>>} \cap exposed # {}
    \/ /\ \A c \in Docs(id) : c.egress = c.ingress
       /\ \A r \in Slots :
            Compiling(reqs[r]) /\ new_ID(reqs[r].svc) = id /\ Head(reqs[r].todo).op = "insert_one"
              => \E v \in GlobalPolicyRead : reqs[r].val = Whole(v)

(***************************************************************************)
(* A GlobalID is unique among the on-boarded services                      *)
(* (docs/CP-language.md, "Global ID assignement").                         *)
(***************************************************************************)
GlobalIDUnique == \A id \in IDs : ~Duplicated(id)

(***************************************************************************)
(* An update of the global policy is sent to every selected service        *)
(* (docs/CP-language.md, 5.2.2): when update_global ends and no database   *)
(* call and no compilation of it failed, the policy of each selected       *)
(* service whose host is on-boarded was sent to that host.                 *)
(***************************************************************************)
GlobalUpdateSent ==
  \A r \in Slots :
    (/\ reqs[r].kind = "update_global" /\ reqs[r].todo = <<>>
     /\ reqs[r].res \notin {"database", "compile"})
      => \A s \in Services :
           services[s] > 0 /\ hosts[s.host] > 0 /\ new_ID(s) \in reqs[r].sel
             => s \in reqs[r].sent
=============================================================================
