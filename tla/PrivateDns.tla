----------------------------- MODULE PrivateDns -----------------------------
(***************************************************************************)
(* admin/baremetal-dns/register_private_dns.py: keeps an A record          *)
(* <server>.<prefix>.<zone> for every private address of every server.  A  *)
(* run lists the servers page by page, then the records page by page,      *)
(* plans the changes and applies them batch by batch; servers, their       *)
(* addresses and the zone change meanwhile, and runs overlap.              *)
(*                                                                         *)
(* Cloud DNS is external: it executes a batch as a whole, at a time of its *)
(* own, and refuses one that deletes a record which is not as the request  *)
(* says or adds one that is there.                                         *)
(***************************************************************************)
EXTENDS Naturals, Sequences, FiniteSets, SequencesExt

CONSTANTS
  Servers,      \* the servers, in the order ListServers returns them
  LabelOf,      \* LabelOf[s]: the name of s in lower case
  Labels,       \* the names that are DNS labels
  PrefixList,     \* the prefixes given, in their order
  Names,        \* <<label, prefix>>, or any other name in the zone, sorted
  Ports,        \* private interfaces and VLANs, numbered in sorting order
  Addresses, Private, NoAddress,
  Selected,     \* the servers a --filter matches
  PageSize, BatchSize,
  Runs, Scheduled,  \* Scheduled: the full run that is started over and over
  Options,      \* the options others are started with
  InitServers, InitZones,
  Edits,        \* records somebody may write by hand
  Changes       \* bound: how often the surroundings change or a call fails

ServerStates == {"active", "deleting", "absent"}

ASSUME PrivateDnsAssumption ==
  /\ PageSize \in Nat \ {0} /\ BatchSize \in Nat \ {0} /\ Changes \in Nat
  /\ Private \subseteq Addresses /\ NoAddress \notin Addresses
  /\ Scheduled \in Runs
  /\ Options \subseteq [filtered : BOOLEAN, prune : BOOLEAN, dry : BOOLEAN]
  /\ Servers \in Seq(Range(Servers)) /\ PrefixList \in Seq(STRING)
  /\ \A i, j \in DOMAIN PrefixList : PrefixList[i] = PrefixList[j] => i = j
  /\ \A f \in InitServers :
       /\ DOMAIN f = Range(Servers)
       /\ \A s \in DOMAIN f :
            /\ f[s].state \in ServerStates /\ f[s] = [state |-> f[s].state, addr |-> f[s].addr]
            /\ f[s].addr \in [DOMAIN f[s].addr -> Addresses \cup {NoAddress}]
            /\ \A p, q \in DOMAIN f[s].addr : f[s].addr[p] = f[s].addr[q] => p = q \/ f[s].addr[p] = NoAddress
  /\ Names \in Seq(Range(Names)) /\ Range(Names) \subseteq Seq(STRING)
  /\ Labels \X Range(PrefixList) \subseteq Range(Names)

Server == Range(Servers)
Name == Range(Names)
FullRun == [filtered |-> FALSE, prune |-> TRUE, dry |-> FALSE]

Absent == [state |-> "absent", addr |-> << >>]
NoRecord == [ttl |-> 0, data |-> << >>]
Ttl == 60
Record(a) == [ttl |-> Ttl, data |-> <<a>>]

VARIABLES
  srv,      \* srv[s]: its state and the address of each of its ports
  zone,     \* zone[n]: the A record of that name, or NoRecord
  requests, \* batches that Cloud DNS has not executed
  budget,   \* what is left of Changes
  pc, opt, cursor, seen, existing, plan,  \* the variables of each run
  answer,   \* what Cloud DNS said of the last batch of a run
  result,   \* the exit status of the last run
  undisturbed, \* history: nobody else has changed anything since it began
  stable       \* history: the servers that have not changed since it began

world == <<srv, zone, requests, budget>>
local == <<pc, opt, cursor, seen, existing, plan, answer, result>>
vars == <<world, local, undisturbed, stable>>

(***************************************************************************)
(* What the servers should have: private_slots, build_inventory            *)
(***************************************************************************)
\* The slot at the i-th place, if there is one.
Slots(ports, i) == {p \in ports : Cardinality({q \in ports : q <= p}) = i}

ActiveIn(inv) == {s \in DOMAIN inv : inv[s].state # "deleting"}

BadInventory(inv) ==
  LET active == ActiveIn(inv)
  IN  \/ \E s \in active : \/ LabelOf[s] \notin Labels
                           \/ Cardinality(DOMAIN inv[s].addr) > Len(PrefixList)
                           \/ ~(Range(inv[s].addr) \subseteq Private \cup {NoAddress})
      \/ \E s, t \in active : s # t /\ LabelOf[s] = LabelOf[t]

\* Mutant of Published: the slots without an address give up their prefix.
PublishedCompact(inv, s, i) ==
  LET addr == inv[s].addr
      slots == Slots({p \in DOMAIN addr : addr[p] # NoAddress}, i)
  IN  IF slots = {} THEN NoAddress ELSE addr[CHOOSE p \in slots : TRUE]

\* The address of the i-th slot of s: an empty slot keeps its prefix.
Published(inv, s, i) ==
  LET slots == Slots(DOMAIN inv[s].addr, i)
  IN  IF slots = {} THEN NoAddress ELSE inv[s].addr[CHOOSE p \in slots : TRUE]

Desired(inv, n) ==
  LET hits == {h \in ActiveIn(inv) \X DOMAIN PrefixList :
                 n = <<LabelOf[h[1]], PrefixList[h[2]]>> /\ Published(inv, h[1], h[2]) # NoAddress}
  IN  IF hits = {} THEN NoRecord
      ELSE LET h == CHOOSE h \in hits : TRUE IN Record(Published(inv, h[1], h[2]))

(***************************************************************************)
(* The plan: managed_label, prune_scope, plan_changes                      *)
(***************************************************************************)
Managed(n) == Len(n) = 2 /\ n[1] \in Labels /\ n[2] \in Range(PrefixList)

\* Mutant of PruneScope: a filter does not limit what is deleted.
PruneScopeIgnoresFilter(inv, o) == IF o.prune THEN Labels ELSE {}
PruneScope(inv, o) ==
  IF ~o.prune THEN {}
  ELSE IF o.filtered THEN {LabelOf[s] : s \in ActiveIn(inv)} ELSE Labels

\* Mutant of PlanChanges: a record that has the address and another TTL stays.
PlanChangesIgnoresTtl(inv, have, o) ==
  LET want == [n \in Name |-> Desired(inv, n)]
      scope == PruneScope(inv, o)
      todo(n) == IF want[n] # NoRecord THEN have[n].data # want[n].data
                 ELSE have[n] # NoRecord /\ Managed(n) /\ n[1] \in scope
  IN  {[name |-> n, from |-> have[n], to |-> want[n]] : n \in {n \in Name : todo(n)}}

\* Mutant of PlanChanges: an update adds and does not delete.
PlanChangesOnlyAdds(inv, have, o) ==
  {IF c.to = NoRecord THEN c ELSE [c EXCEPT !.from = NoRecord] :
     c \in PlanChangesIgnoresTtl(inv, have, o)}

PlanChanges(inv, have, o) ==
  LET want == [n \in Name |-> Desired(inv, n)]
      scope == PruneScope(inv, o)
      todo(n) == IF want[n] # NoRecord THEN have[n] # want[n]
                 ELSE have[n] # NoRecord /\ Managed(n) /\ n[1] \in scope
  IN  {[name |-> n, from |-> have[n], to |-> want[n]] : n \in {n \in Name : todo(n)}}

\* apply_changes: the next BatchSize of them, in the order of their names.
Place(n) == CHOOSE i \in DOMAIN Names : Names[i] = n
Batch(changes) ==
  {c \in changes : Cardinality({d \in changes : Place(d.name) < Place(c.name)}) < BatchSize}

(***************************************************************************)
(* A run                                                                   *)
(***************************************************************************)
\* Mutant of Page: a page starts one item late.
PageSkips(seq, k) == SubSeq(seq, k * PageSize + 2, IF Len(seq) < (k + 1) * PageSize
                                                   THEN Len(seq) ELSE (k + 1) * PageSize)
AtMost(seq, n) == IF Len(seq) < n THEN Len(seq) ELSE n
Page(seq, k) == SubSeq(seq, k * PageSize + 1, AtMost(seq, (k + 1) * PageSize))
LastPage(seq, k) == (k + 1) * PageSize >= Len(seq)
EmptyInventory == [s \in {} |-> Absent]
EmptyZone == [n \in Name |-> NoRecord]

Init ==
  /\ srv \in InitServers /\ zone \in InitZones
  /\ requests = {} /\ budget = Changes
  /\ pc = [r \in Runs |-> "idle"] /\ opt = [r \in Runs |-> FullRun]
  /\ cursor = [r \in Runs |-> 0] /\ seen = [r \in Runs |-> EmptyInventory]
  /\ existing = [r \in Runs |-> EmptyZone] /\ plan = [r \in Runs |-> {}]
  /\ answer = [r \in Runs |-> "none"] /\ result = [r \in Runs |-> "none"]
  /\ undisturbed = [r \in Runs |-> FALSE] /\ stable = [r \in Runs |-> {}]

\* A run ends: what it knew is gone, its exit status stays.
End(r, status) ==
  /\ pc' = [pc EXCEPT ![r] = "idle"] /\ result' = [result EXCEPT ![r] = status]
  /\ cursor' = [cursor EXCEPT ![r] = 0] /\ seen' = [seen EXCEPT ![r] = EmptyInventory]
  /\ existing' = [existing EXCEPT ![r] = EmptyZone] /\ plan' = [plan EXCEPT ![r] = {}]
  /\ opt' = [opt EXCEPT ![r] = FullRun] /\ answer' = [answer EXCEPT ![r] = "none"]

Start(r, o) ==
  /\ pc[r] = "idle" /\ (r = Scheduled \/ result[r] = "none")
  /\ o \in (IF r = Scheduled THEN {FullRun} ELSE Options)
  /\ pc' = [pc EXCEPT ![r] = "servers"] /\ opt' = [opt EXCEPT ![r] = o]
  /\ result' = [result EXCEPT ![r] = "none"]
  /\ undisturbed' = [undisturbed EXCEPT ![r] = TRUE]
  /\ stable' = [stable EXCEPT ![r] = Server]
  /\ UNCHANGED <<world, cursor, seen, existing, plan, answer>>

\* A page of list_servers; after the last one build_inventory, which either
\* knows what every name should be or ends the run.
ListServers(r) ==
  LET page == {s \in Range(Page(Servers, cursor[r])) :
                 srv[s].state # "absent" /\ (opt[r].filtered => s \in Selected)}
      known == DOMAIN seen[r]
      all == [s \in known \cup page |-> IF s \in known THEN seen[r][s] ELSE srv[s]]
  IN  /\ pc[r] = "servers"
      /\ \/ /\ ~LastPage(Servers, cursor[r])
            /\ seen' = [seen EXCEPT ![r] = all] /\ cursor' = [cursor EXCEPT ![r] = @ + 1]
            /\ UNCHANGED <<pc, opt, existing, plan, answer, result>>
         \/ /\ LastPage(Servers, cursor[r]) /\ ~BadInventory(all)
            /\ seen' = [seen EXCEPT ![r] = all] /\ cursor' = [cursor EXCEPT ![r] = 0]
            /\ pc' = [pc EXCEPT ![r] = "records"]
            /\ UNCHANGED <<opt, existing, plan, answer, result>>
         \/ LastPage(Servers, cursor[r]) /\ BadInventory(all) /\ End(r, "failed")
      /\ UNCHANGED <<world, undisturbed, stable>>

\* A page of list_a_records; after the last one plan_changes, and the end of a
\* run that has nothing to do or must not do it.
ListRecords(r) ==
  LET page == Range(Page(Names, cursor[r]))
      all == [n \in Name |-> IF n \in page THEN zone[n] ELSE existing[r][n]]
      changes == PlanChanges(seen[r], all, opt[r])
  IN  /\ pc[r] = "records"
      /\ \/ /\ ~LastPage(Names, cursor[r])
            /\ existing' = [existing EXCEPT ![r] = all]
            /\ cursor' = [cursor EXCEPT ![r] = @ + 1]
            /\ UNCHANGED <<pc, opt, seen, plan, answer, result>>
         \/ /\ LastPage(Names, cursor[r]) /\ changes # {} /\ ~opt[r].dry
            /\ plan' = [plan EXCEPT ![r] = changes] /\ pc' = [pc EXCEPT ![r] = "apply"]
            /\ existing' = [existing EXCEPT ![r] = EmptyZone]
            /\ cursor' = [cursor EXCEPT ![r] = 0]
            /\ UNCHANGED <<opt, seen, answer, result>>
         \/ LastPage(Names, cursor[r]) /\ (changes = {} \/ opt[r].dry) /\ End(r, "ok")
      /\ UNCHANGED <<world, undisturbed, stable>>

\* UpdateRecordSets: one request for the next BatchSize changes.
Apply(r) ==
  LET batch == Batch(plan[r])
  IN  /\ pc[r] = "apply" /\ batch # {}
      /\ requests' = requests \cup
           {[run |-> r, changes |-> batch, opt |-> opt[r], waited |-> TRUE]}
      /\ plan' = [plan EXCEPT ![r] = @ \ batch]
      /\ pc' = [pc EXCEPT ![r] = "wait"]
      /\ UNCHANGED <<srv, zone, budget, opt, cursor, seen, existing, answer, result, undisturbed, stable>>

\* wait_operation_and_get_result: the operation is over.
Waited(r) ==
  /\ pc[r] = "wait" /\ answer[r] # "none"
  /\ IF answer[r] = "refused" THEN End(r, "failed")
     ELSE IF plan[r] = {} THEN End(r, "ok")
     ELSE /\ pc' = [pc EXCEPT ![r] = "apply"] /\ answer' = [answer EXCEPT ![r] = "none"]
          /\ UNCHANGED <<opt, cursor, seen, existing, plan, result>>
  /\ UNCHANGED <<world, undisturbed, stable>>

\* An error of a call, or the time limit of an operation: the run ends, and
\* the batch it has sent may still be executed.
Fails(r) ==
  /\ pc[r] # "idle" /\ answer[r] = "none" /\ budget > 0 /\ budget' = budget - 1
  /\ requests' = {[run |-> q.run, changes |-> q.changes, opt |-> q.opt,
                   waited |-> q.waited /\ q.run # r] : q \in requests}
  /\ End(r, "failed")
  /\ UNCHANGED <<srv, zone, undisturbed, stable>>

(***************************************************************************)
(* Cloud DNS and the servers                                               *)
(***************************************************************************)
Execute(q) ==
  LET ok == \A c \in q.changes : zone[c.name] = c.from
  IN  /\ q \in requests /\ requests' = requests \ {q}
      /\ zone' = [n \in Name |->
                    IF ok /\ \E c \in q.changes : c.name = n
                    THEN (CHOOSE c \in q.changes : c.name = n).to ELSE zone[n]]
      /\ undisturbed' = IF ~ok THEN undisturbed
                        ELSE [x \in Runs |-> undisturbed[x] /\ x = q.run /\ q.waited]
      /\ answer' = IF q.waited
                   THEN [answer EXCEPT ![q.run] = IF ok THEN "applied" ELSE "refused"]
                   ELSE answer
      /\ UNCHANGED <<srv, budget, pc, opt, cursor, seen, existing, plan, result, stable>>

\* DHCP gives or takes an address; a port is added; a server goes away, or
\* comes back; somebody edits a record by hand.
SetAddress(s, p, a) ==
  /\ srv[s].state = "active" /\ p \in DOMAIN srv[s].addr /\ a # srv[s].addr[p]
  /\ srv' = [srv EXCEPT ![s].addr[p] = a] /\ UNCHANGED zone
AddPort(s, p) ==
  /\ srv[s].state = "active" /\ p \notin DOMAIN srv[s].addr
  /\ srv' = [srv EXCEPT ![s].addr = [x \in DOMAIN @ \cup {p} |->
                                       IF x = p THEN NoAddress ELSE @[x]]]
  /\ UNCHANGED zone
Leave(s) ==
  /\ srv' = [srv EXCEPT ![s] = IF @.state = "active" THEN [@ EXCEPT !.state = "deleting"]
                               ELSE Absent]
  /\ srv[s].state # "absent" /\ UNCHANGED zone
Join(s, p, a) ==
  /\ srv[s] = Absent
  /\ srv' = [srv EXCEPT ![s] = [state |-> "active", addr |-> [x \in {p} |-> a]]]
  /\ UNCHANGED zone
EditRecord(n, rec) ==
  /\ zone[n] # rec /\ zone' = [zone EXCEPT ![n] = rec] /\ UNCHANGED srv

Free(a) == a = NoAddress \/ \A s \in Server : a \notin Range(srv[s].addr)

Surroundings ==
  /\ budget > 0 /\ budget' = budget - 1
  /\ \/ \E s \in Server, p \in Ports, a \in Addresses \cup {NoAddress} :
          Free(a) /\ (SetAddress(s, p, a) \/ Join(s, p, a))
     \/ \E s \in Server, p \in Ports : AddPort(s, p)
     \/ \E s \in Server : Leave(s)
     \/ \E n \in Name, rec \in Edits \cup {NoRecord} : EditRecord(n, rec)
  /\ undisturbed' = [x \in Runs |-> FALSE]
  /\ stable' = [x \in Runs |-> {s \in stable[x] : srv'[s] = srv[s]}]
  /\ UNCHANGED <<requests, local>>

RunStep(r) == ListServers(r) \/ ListRecords(r) \/ Apply(r) \/ Waited(r)

Next == \/ \E r \in Runs, o \in Options \cup {FullRun} : Start(r, o)
        \/ \E r \in Runs : RunStep(r) \/ Fails(r)
        \/ \E q \in requests : Execute(q)
        \/ Surroundings

\* The schedule starts the full run again and again; a run and Cloud DNS go on.
Fairness ==
  /\ WF_vars(Start(Scheduled, FullRun))
  /\ \A r \in Runs : WF_vars(RunStep(r))
  /\ WF_vars(\E q \in requests : Execute(q))

Spec == Init /\ [][Next]_vars
FairSpec == Spec /\ Fairness
(***************************************************************************)
(* Properties                                                              *)
(***************************************************************************)
AddrOf(ports) == [ports -> Addresses \cup {NoAddress}]
RecordType == [ttl : Nat, data : Seq(Addresses)]

\* Every variable has its type; a run that does nothing knows nothing, and at
\* most one of its batches is being waited for.
TypeOK ==
  /\ DOMAIN srv = Server
  /\ \A s \in Server : \/ srv[s] = Absent
                       \/ /\ srv[s].state \in {"active", "deleting"}
                          /\ DOMAIN srv[s].addr \subseteq Ports
                          /\ srv[s].addr \in AddrOf(DOMAIN srv[s].addr)
  /\ \A n \in Name : zone[n] \in RecordType
  /\ budget \in 0..Changes
  /\ \A r \in Runs :
       /\ pc[r] \in {"idle", "servers", "records", "apply", "wait"}
       /\ opt[r] \in Options \cup {FullRun} /\ answer[r] \in {"none", "applied", "refused"}
       /\ result[r] \in {"none", "ok", "failed"}
       /\ pc[r] = "idle" => seen[r] = EmptyInventory /\ plan[r] = {}
       /\ Cardinality({q \in requests : q.run = r /\ q.waited}) <= 1

\* The batches executed in a step.
Executed == requests \ requests'

\* A run changes no record but <label>.<prefix>.<zone>, deletes none with
\* --no-prune, and with --filter deletes only those of servers it matches
\* ("Zapisi vne etikh imyon ne izmenyayutsya", lines 23-24).
OwnRecordsOnly ==
  [][\A q \in Executed, n \in Name : zone'[n] # zone[n] =>
       /\ n \in {<<l, p>> : l \in Labels, p \in Range(PrefixList)}
       /\ zone'[n] = NoRecord =>
            /\ q.opt.prune
            /\ q.opt.filtered => \E s \in Selected : n[1] = LabelOf[s]]_vars

\* No other server has, or has had since run r began, the name of s.
OnlyOfItsName(s, r) ==
  \A t \in Server \ {s} :
    LabelOf[t] = LabelOf[s] => t \in stable[r] /\ srv[t].state # "active"

\* Whatever the pages, the batches, the options and the other runs, no run
\* takes away or spoils the record of a server that has been there, with the
\* same addresses, ever since the run began.
LiveKept ==
  [][\A q \in Executed : \A s \in stable[q.run], i \in DOMAIN PrefixList :
       LET a == Published(srv, s, i)
       IN  q.waited /\ srv[s].state = "active" /\ OnlyOfItsName(s, q.run) /\ a # NoAddress =>
             \A n \in Name : n = <<LabelOf[s], PrefixList[i]>> =>
                               zone'[n] \in {zone[n], Record(a)}]_vars

\* What a run with these options answers for.
Inventory(o) ==
  [s \in {s \in Server : srv[s].state # "absent" /\ (o.filtered => s \in Selected)} |-> srv[s]]
Answerable(o, n) ==
  /\ n \in {<<l, p>> : l \in Labels, p \in Range(PrefixList)}
  /\ \/ \E s \in ActiveIn(Inventory(o)) : n[1] = LabelOf[s] /\ (o.prune \/ Desired(Inventory(o), n) # NoRecord)
     \/ o.prune /\ ~o.filtered
Synced(o) == \A n \in Name : Answerable(o, n) => zone[n] = Desired(Inventory(o), n)

\* A run that ends well, and during which nobody else changed the servers or
\* the zone, leaves every record it answers for as the servers want it.
DoneMeansSynced ==
  [][\A r \in Runs : result[r] = "none" /\ result'[r] = "ok" /\ undisturbed[r] /\ ~opt[r].dry
        => Synced(opt[r])]_vars

\* The address of a port stays under its name while the ports of the server
\* stay the same, whatever addresses the other ports get or lose (lines 19-20).
NamesDoNotShift ==
  [][\A s \in Server : DOMAIN srv'[s].addr = DOMAIN srv[s].addr =>
       \A p \in DOMAIN srv[s].addr : srv[s].addr[p] = srv'[s].addr[p] =>
         \A i \in DOMAIN PrefixList :
           srv[s].addr[p] # NoAddress =>
             ((Published(srv, s, i) = srv[s].addr[p]) <=> (Published(srv, s, i)' = srv[s].addr[p]))]_vars

\* Failures, lost answers, late batches and overlapping runs do no lasting
\* harm: once the servers can be registered at all, the schedule brings the
\* zone to what they want ("Povtorite zapusk po raspisaniyu", line 642).
Converges == <>[]~BadInventory(Inventory(FullRun)) => <>[]Synced(FullRun)
=============================================================================
