-------------------------- MODULE PrivateDns_proofs --------------------------
(***************************************************************************)
(* Proofs about PrivateDns, for any servers, prefixes, pages, batches and  *)
(* runs, and any number of changes and failures: what a run may touch,     *)
(* that it does no harm to a server that has not changed, that a good exit *)
(* means a right zone, and that a port keeps its name.                     *)
(***************************************************************************)
EXTENDS PrivateDns, TLAPS

\* What the proofs use of the assumptions.
LEMMA Bounds == PageSize \in Nat /\ PageSize > 0
BY PrivateDnsAssumption

Phases == {"idle", "servers", "records", "apply", "wait"}
OptionType == [filtered : BOOLEAN, prune : BOOLEAN, dry : BOOLEAN]

LEMMA OptionsTyped == Options \cup {FullRun} \subseteq OptionType
<1>1. Options \subseteq OptionType
  BY PrivateDnsAssumption, Zenon DEF OptionType
<1>2. FullRun \in OptionType
  BY DEF FullRun, OptionType
<1>3. QED BY <1>1, <1>2

Typed ==
  /\ pc \in [Runs -> Phases] /\ opt \in [Runs -> OptionType]
  /\ cursor \in [Runs -> Nat] /\ stable \in [Runs -> SUBSET Server]
  /\ answer \in [Runs -> {"none", "applied", "refused"}]
  /\ \A r \in Runs : answer[r] # "none" => pc[r] = "wait"
  /\ DOMAIN seen = Runs /\ DOMAIN plan = Runs
  /\ DOMAIN srv = Server /\ \A s \in Server : srv[s].state \in ServerStates

\* The names of the program's own that a change with options o may concern.
Own(c, o) ==
  /\ c.name \in Labels \X Range(PrefixList)
  /\ c.to = NoRecord => /\ o.prune
                        /\ o.filtered => \E s \in Selected : c.name[1] = LabelOf[s]

\* No other server has had the name of s: of servers w, those in st are as they were.
Alone(s, w, st) ==
  \A t \in Server \ {s} : LabelOf[t] = LabelOf[s] => t \in st /\ w[t].state # "active"

\* What a change does to the record of such a server is what the server wants.
Faithful(c, w, st) ==
  \A s \in st, i \in DOMAIN PrefixList :
    /\ w[s].state = "active" /\ Alone(s, w, st) /\ Published(w, s, i) # NoAddress
    /\ c.name = <<LabelOf[s], PrefixList[i]>>
    => c.to = Record(Published(w, s, i))

\* A run asks for these servers, and has been shown the page of s.
Listable(o) == {s \in Server : o.filtered => s \in Selected}
PageSeen(s, phase, k) ==
  \/ phase \in {"records", "apply", "wait"}
  \/ phase = "servers" /\ \E j \in 1..Len(Servers) : j <= k * PageSize /\ Servers[j] = s

SeenRight(r) ==
  /\ DOMAIN seen[r] \subseteq Listable(opt[r])
  /\ \A s \in DOMAIN seen[r] : /\ s \in stable[r] => seen[r][s] = srv[s]
                               /\ seen[r][s].state \in {"active", "deleting"}
  /\ \A s \in stable[r] \cap Listable(opt[r]) :
       srv[s].state # "absent" /\ PageSeen(s, pc[r], cursor[r]) => s \in DOMAIN seen[r]
  /\ pc[r] = "records" => ~BadInventory(seen[r])
  /\ pc[r] = "idle" => seen[r] = EmptyInventory /\ cursor[r] = 0

PlanRight(r) ==
  /\ \A c \in plan[r] : Own(c, opt[r]) /\ Faithful(c, srv, stable[r])
  /\ pc[r] \notin {"apply", "wait"} => plan[r] = {}

RequestRight(q) ==
  /\ q = [run |-> q.run, changes |-> q.changes, opt |-> q.opt, waited |-> q.waited]
  /\ q.run \in Runs /\ q.waited \in BOOLEAN
  /\ \A c \in q.changes : Own(c, q.opt)
  /\ q.waited => /\ pc[q.run] = "wait" /\ answer[q.run] = "none"
                 /\ \A c \in q.changes : Faithful(c, srv, stable[q.run])

\* A run waits for one batch at a time.
OneWaited ==
  \A p, q \in requests : p.waited /\ q.waited /\ p.run = q.run => p = q

IInv ==
  /\ Typed /\ OneWaited
  /\ \A r \in Runs : SeenRight(r) /\ PlanRight(r)
  /\ \A q \in requests : RequestRight(q)

\* The changes a run still has to see made.
Pending(r) == plan[r] \cup UNION {q.changes : q \in {q \in requests : q.run = r /\ q.waited}}

\* What the name should be, as the servers are now.
Target(r, n) == Desired(Inventory(opt[r]), n)

\* A run during which nobody else has changed anything has seen what there is;
\* a record that is not as it should be is still to be changed to that.
Informed(r) ==
  undisturbed[r] =>
    /\ stable[r] = Server
    /\ pc[r] = "records" =>
         /\ seen[r] = Inventory(opt[r])
         /\ \A j \in 1..Len(Names) :
              j <= cursor[r] * PageSize => existing[r][Names[j]] = zone[Names[j]]
    /\ pc[r] \in {"apply", "wait"} =>
         /\ \A c \in Pending(r) : c.to = Target(r, c.name)
         /\ answer[r] # "refused" =>
              \A n \in Name : Answerable(opt[r], n) =>
                zone[n] = Target(r, n) \/ \E c \in Pending(r) : c.name = n

Knows ==
  /\ undisturbed \in [Runs -> BOOLEAN] /\ DOMAIN existing = Runs /\ DOMAIN result = Runs
  /\ \A r \in Runs : Informed(r)

\* No two ports of a server have the same address.
Apart(addr) ==
  /\ addr = [p \in DOMAIN addr |-> addr[p]]
  /\ \A p, q \in DOMAIN addr : addr[p] = addr[q] => p = q \/ addr[p] = NoAddress

OwnAddresses ==
  /\ DOMAIN srv = Server
  /\ \A s \in Server : srv[s] = [state |-> srv[s].state, addr |-> srv[s].addr] /\ Apart(srv[s].addr)

(***************************************************************************)
(* Pages                                                                   *)
(***************************************************************************)
LEMMA ServersLength ==
  /\ Len(Servers) \in Nat /\ DOMAIN Servers = 1..Len(Servers)
  /\ \A j \in 1..Len(Servers) : Servers[j] \in Server
  /\ \A s \in Server : \E j \in 1..Len(Servers) : Servers[j] = s
<1>1. Servers \in Seq(Range(Servers))
  BY PrivateDnsAssumption
<1>2. QED BY <1>1 DEF Server, Range

LEMMA PageBounds == ASSUME NEW k \in Nat
  PROVE  /\ k * PageSize \in Nat /\ (k + 1) * PageSize = k * PageSize + PageSize
         /\ 0 * PageSize = 0
BY Bounds

LEMMA SubSeqShows ==
  ASSUME NEW S, NEW seq \in Seq(S), NEW m \in Nat, NEW n \in Nat, n <= Len(seq)
  PROVE  /\ Range(SubSeq(seq, m + 1, n)) \subseteq S
         /\ \A j \in 1..Len(seq) : m < j /\ j <= n => seq[j] \in Range(SubSeq(seq, m + 1, n))
<1> DEFINE sub == SubSeq(seq, m + 1, n)
<1>1. sub = [i \in 1..(n - m) |-> seq[m + i]]
  OBVIOUS
<1>2. \A i \in 1..(n - m) : m + i \in 1..Len(seq)
  OBVIOUS
<1> HIDE DEF sub
<1>3. Range(sub) \subseteq S
  BY <1>1, <1>2 DEF Range
<1>4. ASSUME NEW j \in 1..Len(seq), m < j, j <= n
      PROVE  seq[j] \in Range(sub)
  <2>1. j - m \in 1..(n - m) /\ m + (j - m) = j
    BY <1>4
  <2>2. sub[j - m] = seq[j] /\ j - m \in DOMAIN sub
    BY <1>1, <2>1
  <2>3. QED BY <2>2 DEF Range
<1>5. QED BY <1>3, <1>4 DEF sub

LEMMA AtMostIs ==
  ASSUME NEW S, NEW seq \in Seq(S), NEW n \in Nat
  PROVE  /\ AtMost(seq, n) \in Nat /\ AtMost(seq, n) <= Len(seq)
         /\ \A j \in 1..Len(seq) : j <= n => j <= AtMost(seq, n)
BY DEF AtMost

\* A page shows what is at its places, and nothing else.
LEMMA PageOf ==
  ASSUME NEW S, NEW seq \in Seq(S), NEW k \in Nat
  PROVE  /\ Range(Page(seq, k)) \subseteq S
         /\ \A j \in 1..Len(seq) :
              k * PageSize < j /\ j <= (k + 1) * PageSize => seq[j] \in Range(Page(seq, k))
         /\ LastPage(seq, k) => \A j \in 1..Len(seq) : j <= (k + 1) * PageSize
<1>1. k * PageSize \in Nat /\ (k + 1) * PageSize \in Nat
  BY Bounds, PageBounds
<1>2. /\ AtMost(seq, (k + 1) * PageSize) \in Nat
      /\ AtMost(seq, (k + 1) * PageSize) <= Len(seq)
      /\ \A j \in 1..Len(seq) :
           j <= (k + 1) * PageSize => j <= AtMost(seq, (k + 1) * PageSize)
  BY <1>1, AtMostIs
<1>3. /\ Range(Page(seq, k)) \subseteq S
      /\ \A j \in 1..Len(seq) : k * PageSize < j /\ j <= AtMost(seq, (k + 1) * PageSize)
                                => seq[j] \in Range(Page(seq, k))
  BY <1>1, <1>2, SubSeqShows DEF Page
<1>4. ASSUME LastPage(seq, k), NEW j \in 1..Len(seq)
      PROVE  j <= (k + 1) * PageSize
  <2>1. (k + 1) * PageSize >= Len(seq)
    BY <1>4 DEF LastPage
  <2>2. QED BY <1>1, <2>1
<1>5. QED BY <1>2, <1>3, <1>4

LEMMA PageShows ==
  ASSUME NEW k \in Nat
  PROVE  /\ Range(Page(Servers, k)) \subseteq Server
         /\ \A j \in 1..Len(Servers) :
              k * PageSize < j /\ j <= (k + 1) * PageSize => Servers[j] \in Range(Page(Servers, k))
         /\ LastPage(Servers, k) => \A j \in 1..Len(Servers) : j <= (k + 1) * PageSize
<1>1. Servers \in Seq(Server)
  BY PrivateDnsAssumption DEF Server
<1>2. QED BY <1>1, PageOf

LEMMA NamesShown ==
  ASSUME NEW k \in Nat
  PROVE  /\ \A j \in 1..Len(Names) :
              k * PageSize < j /\ j <= (k + 1) * PageSize => Names[j] \in Range(Page(Names, k))
         /\ LastPage(Names, k) => \A j \in 1..Len(Names) : j <= (k + 1) * PageSize
         /\ \A n \in Name : \E j \in 1..Len(Names) : Names[j] = n
         /\ \A j \in 1..Len(Names) : Names[j] \in Name /\ j \in Nat
<1>1. Names \in Seq(Name)
  BY PrivateDnsAssumption DEF Name
<1>2. DOMAIN Names = 1..Len(Names) /\ Len(Names) \in Nat /\ \A j \in 1..Len(Names) : Names[j] \in Name
  BY <1>1
<1>3. \A n \in Name : \E j \in 1..Len(Names) : Names[j] = n
  BY <1>2 DEF Name, Range
<1>4. QED BY <1>1, <1>2, <1>3, PageOf

(***************************************************************************)
(* The plan                                                                *)
(***************************************************************************)
LEMMA RecordIsThere == ASSUME NEW a PROVE Record(a) # NoRecord
BY DEF Record, NoRecord, Ttl

\* A name that should have a record belongs to a server of the inventory.
LEMMA DesiredFrom ==
  ASSUME NEW inv, NEW n, Desired(inv, n) # NoRecord
  PROVE  \E s \in ActiveIn(inv), i \in DOMAIN PrefixList : n = <<LabelOf[s], PrefixList[i]>>
BY DEF Desired

LEMMA DesiredIs ==
  ASSUME NEW inv, NEW s \in ActiveIn(inv), NEW i \in DOMAIN PrefixList,
         \A t \in ActiveIn(inv) : LabelOf[t] = LabelOf[s] => t = s,
         Published(inv, s, i) # NoAddress
  PROVE  Desired(inv, <<LabelOf[s], PrefixList[i]>>) = Record(Published(inv, s, i))
<1> DEFINE n == <<LabelOf[s], PrefixList[i]>>
           hits == {h \in ActiveIn(inv) \X DOMAIN PrefixList :
                      /\ n = <<LabelOf[h[1]], PrefixList[h[2]]>>
                      /\ Published(inv, h[1], h[2]) # NoAddress}
<1>1. \A j \in DOMAIN PrefixList : PrefixList[j] = PrefixList[i] => j = i
  BY PrivateDnsAssumption
<1>2. \A h \in hits : h = <<s, i>>
  BY <1>1
<1>3. <<s, i>> \in hits
  OBVIOUS
<1> DEFINE first == CHOOSE h \in hits : TRUE
<1>4. hits # {} => Desired(inv, n) = Record(Published(inv, first[1], first[2]))
  BY Zenon DEF Desired
<1> HIDE DEF hits, n
<1>5. first = <<s, i>>
  BY <1>2, <1>3
<1> HIDE DEF first
<1>6. first[1] = s /\ first[2] = i
  BY <1>5
<1>7. QED BY <1>3, <1>4, <1>6 DEF n

LEMMA ManagedName ==
  ASSUME NEW n \in Name, Managed(n)
  PROVE  n = <<n[1], n[2]>> /\ n[1] \in Labels /\ n[2] \in Range(PrefixList)
<1>1. n \in Seq(STRING)
  BY PrivateDnsAssumption DEF Name
<1>2. QED BY <1>1 DEF Managed

\* What is in a plan.
LEMMA PlanHas ==
  ASSUME NEW inv, NEW have, NEW o, NEW c \in PlanChanges(inv, have, o)
  PROVE  /\ c.name \in Name /\ c.to = Desired(inv, c.name)
         /\ c.to = NoRecord => Managed(c.name) /\ c.name[1] \in PruneScope(inv, o)
<1> DEFINE want == [n \in Name |-> Desired(inv, n)]
           todo(n) == IF want[n] # NoRecord THEN have[n] # want[n]
                      ELSE have[n] # NoRecord /\ Managed(n) /\ n[1] \in PruneScope(inv, o)
<1>1. PICK n \in Name : todo(n) /\ c = [name |-> n, from |-> have[n], to |-> want[n]]
  BY DEF PlanChanges
<1>2. c.name = n /\ c.to = want[n] /\ want[n] = Desired(inv, n)
  BY <1>1
<1>3. QED BY <1>1, <1>2

LEMMA PlanOwn ==
  ASSUME NEW inv, NEW have, NEW o, NEW c \in PlanChanges(inv, have, o),
         DOMAIN inv \subseteq Listable(o), ~BadInventory(inv)
  PROVE  Own(c, o)
<1>1. CASE c.to # NoRecord
  <2>1. PICK s \in ActiveIn(inv), i \in DOMAIN PrefixList : c.name = <<LabelOf[s], PrefixList[i]>>
    BY <1>1, PlanHas, DesiredFrom
  <2>2. LabelOf[s] \in Labels
    BY DEF BadInventory
  <2>3. QED BY <1>1, <2>1, <2>2 DEF Own, Range
<1>2. CASE c.to = NoRecord
  <2>1. c.name \in Labels \X Range(PrefixList) /\ c.name[1] \in PruneScope(inv, o)
    BY <1>2, PlanHas, ManagedName
  <2>2. QED BY <1>2, <2>1 DEF Own, PruneScope, ActiveIn, Listable
<1>3. QED BY <1>1, <1>2

\* The plan of a run that has seen all pages does no harm to a server that
\* has not changed since.
LEMMA PlanFaithful ==
  ASSUME NEW inv, NEW have, NEW o, NEW c \in PlanChanges(inv, have, o), NEW w, NEW st,
         st \subseteq Server, DOMAIN inv \subseteq Listable(o),
         \A s \in DOMAIN inv : /\ s \in st => inv[s] = w[s]
                               /\ inv[s].state \in {"active", "deleting"},
         \A s \in st \cap Listable(o) : w[s].state # "absent" => s \in DOMAIN inv
  PROVE  Faithful(c, w, st)
<1> SUFFICES ASSUME NEW s \in st, NEW i \in DOMAIN PrefixList,
                    w[s].state = "active", Alone(s, w, st), Published(w, s, i) # NoAddress,
                    c.name = <<LabelOf[s], PrefixList[i]>>
             PROVE  c.to = Record(Published(w, s, i))
  BY DEF Faithful
<1>1. \A t \in ActiveIn(inv) : LabelOf[t] = LabelOf[s] => t = s
  <2> SUFFICES ASSUME NEW t \in ActiveIn(inv), LabelOf[t] = LabelOf[s], t # s
               PROVE  FALSE
    OBVIOUS
  <2>1. t \in Server /\ t \in DOMAIN inv /\ inv[t].state # "deleting"
    BY DEF ActiveIn, Listable
  <2>2. inv[t] = w[t] /\ w[t].state # "active"
    BY <2>1 DEF Alone
  <2>3. QED BY <2>1, <2>2
<1>2. CASE s \in DOMAIN inv
  <2>1. inv[s] = w[s] /\ s \in ActiveIn(inv)
    BY <1>2 DEF ActiveIn
  <2>2. Published(inv, s, i) = Published(w, s, i)
    BY <2>1 DEF Published
  <2>3. Desired(inv, c.name) = Record(Published(inv, s, i))
    BY <1>1, <2>1, <2>2, DesiredIs
  <2>4. QED BY <2>2, <2>3, PlanHas
<1>3. CASE s \notin DOMAIN inv
  <2>1. s \notin Listable(o) /\ s \notin ActiveIn(inv)
    BY <1>3 DEF ActiveIn
  <2>2. \A t \in ActiveIn(inv) : LabelOf[t] # LabelOf[s]
    BY <1>1, <2>1
  <2>3. c.to = NoRecord
    BY <2>2, PlanHas, DesiredFrom
  <2>4. LabelOf[s] \in PruneScope(inv, o)
    BY <2>3, PlanHas
  <2>5. o.filtered
    BY <2>1 DEF Listable
  <2>6. QED BY <2>2, <2>4, <2>5 DEF PruneScope
<1>4. QED BY <1>2, <1>3

LEMMA FaithfulShrinks ==
  ASSUME NEW c, NEW w, NEW v, NEW st, NEW su, su \subseteq st, st \subseteq Server,
         \A s \in su : v[s] = w[s], Faithful(c, w, st)
  PROVE  Faithful(c, v, su)
<1> SUFFICES ASSUME NEW s \in su, NEW i \in DOMAIN PrefixList,
                    v[s].state = "active", Alone(s, v, su), Published(v, s, i) # NoAddress,
                    c.name = <<LabelOf[s], PrefixList[i]>>
             PROVE  c.to = Record(Published(v, s, i))
  BY DEF Faithful
<1>1. Published(v, s, i) = Published(w, s, i)
  BY DEF Published
<1>2. Alone(s, w, st)
  BY DEF Alone
<1>3. QED BY <1>1, <1>2 DEF Faithful

(***************************************************************************)
(* The invariant                                                           *)
(***************************************************************************)
\* A step of run r leaves the other runs alone.
Others(r) ==
  \A q \in Runs \ {r} :
    /\ pc'[q] = pc[q] /\ opt'[q] = opt[q] /\ cursor'[q] = cursor[q] /\ seen'[q] = seen[q]
    /\ plan'[q] = plan[q] /\ answer'[q] = answer[q] /\ stable'[q] = stable[q]

LEMMA RunKept ==
  ASSUME Typed, NEW r \in Runs, SeenRight(r), PlanRight(r),
         pc'[r] = pc[r], opt'[r] = opt[r], cursor'[r] = cursor[r],
         seen'[r] = seen[r], plan'[r] = plan[r],
         stable'[r] \subseteq stable[r], \A s \in stable'[r] : srv'[s] = srv[s]
  PROVE  SeenRight(r)' /\ PlanRight(r)'
<1>1. stable[r] \subseteq Server
  BY DEF Typed
<1>2. SeenRight(r)'
  BY DEF SeenRight
<1>3. \A c : Faithful(c, srv, stable[r]) => Faithful(c, srv', stable'[r])
  BY <1>1, FaithfulShrinks
<1>4. PlanRight(r)'
  BY <1>3 DEF PlanRight
<1>5. QED BY <1>2, <1>4

LEMMA RequestKept ==
  ASSUME Typed, NEW q, RequestRight(q),
         q.waited => /\ pc'[q.run] = pc[q.run] /\ answer'[q.run] = answer[q.run]
                     /\ stable'[q.run] \subseteq stable[q.run]
                     /\ \A s \in stable'[q.run] : srv'[s] = srv[s]
  PROVE  RequestRight(q)'
<1>1. q.run \in Runs /\ stable[q.run] \subseteq Server
  BY DEF Typed, RequestRight
<1>2. ASSUME q.waited, NEW c, Faithful(c, srv, stable[q.run])
      PROVE  Faithful(c, srv', stable'[q.run])
  BY <1>1, <1>2, FaithfulShrinks
<1>3. QED BY <1>2 DEF RequestRight

LEMMA LocalStep ==
  ASSUME IInv, NEW r \in Runs, Others(r), UNCHANGED <<srv, requests>>,
         \A q \in requests : q.run = r => ~q.waited,
         Typed', SeenRight(r)', PlanRight(r)'
  PROVE  IInv'
<1>1. ASSUME NEW p \in Runs \ {r}
      PROVE  SeenRight(p)' /\ PlanRight(p)'
  BY RunKept DEF IInv, Others
<1>2. ASSUME NEW q \in requests
      PROVE  RequestRight(q)'
  <2>1. RequestRight(q) /\ q.run \in Runs
    BY DEF IInv, RequestRight
  <2>2. QED BY <2>1, RequestKept DEF IInv, Others
<1>3. OneWaited'
  BY DEF IInv, OneWaited
<1>4. QED BY <1>1, <1>2, <1>3 DEF IInv

LEMMA NothingWaited ==
  ASSUME IInv, NEW r \in Runs, pc[r] # "wait" \/ answer[r] # "none"
  PROVE  \A q \in requests : q.run = r => ~q.waited
BY DEF IInv, RequestRight

\* The end of a run, good or bad.
LEMMA Ended ==
  ASSUME Typed, NEW r \in Runs, NEW status, End(r, status), UNCHANGED <<srv, stable>>
  PROVE  Others(r) /\ Typed' /\ SeenRight(r)' /\ PlanRight(r)'
<1>1. Others(r)
  BY DEF End, Others, Typed
<1>2. Typed'
  BY OptionsTyped DEF End, Typed, Phases
<1>3. SeenRight(r)'
  BY DEF End, Typed, SeenRight, EmptyInventory, PageSeen
<1>4. PlanRight(r)'
  BY DEF End, Typed, PlanRight
<1>5. QED BY <1>1, <1>2, <1>3, <1>4

LEMMA StartKeeps ==
  ASSUME IInv, NEW r \in Runs, NEW o \in Options \cup {FullRun}, Start(r, o)
  PROVE  IInv'
<1> USE DEF Start, world
<1>1. o \in OptionType
  BY OptionsTyped
<1>2. Others(r) /\ UNCHANGED <<srv, requests>>
  BY DEF IInv, Typed, Others
<1>3. Typed'
  BY <1>1 DEF IInv, Typed, Phases
<1>4. pc'[r] = "servers" /\ cursor'[r] = 0 /\ seen'[r] = EmptyInventory /\ plan'[r] = {}
  BY DEF IInv, Typed, SeenRight, PlanRight
<1>5. SeenRight(r)'
  <2>1. \A s : ~PageSeen(s, "servers", 0)
    BY ServersLength, PageBounds DEF PageSeen
  <2>2. QED BY <1>4, <2>1 DEF SeenRight, EmptyInventory
<1>6. PlanRight(r)'
  BY <1>4 DEF PlanRight
<1>7. \A q \in requests : q.run = r => ~q.waited
  BY NothingWaited
<1>8. QED BY <1>2, <1>3, <1>5, <1>6, <1>7, LocalStep

LEMMA ListServersKeeps ==
  ASSUME IInv, NEW r \in Runs, ListServers(r)
  PROVE  IInv'
<1> DEFINE page == {s \in Range(Page(Servers, cursor[r])) :
                      srv[s].state # "absent" /\ (opt[r].filtered => s \in Selected)}
           known == DOMAIN seen[r]
           all == [s \in known \cup page |-> IF s \in known THEN seen[r][s] ELSE srv[s]]
<1>1. /\ pc[r] = "servers" /\ UNCHANGED <<world, undisturbed, stable>>
      /\ \/ /\ ~LastPage(Servers, cursor[r])
            /\ seen' = [seen EXCEPT ![r] = all] /\ cursor' = [cursor EXCEPT ![r] = @ + 1]
            /\ UNCHANGED <<pc, opt, plan, answer>>
         \/ /\ LastPage(Servers, cursor[r]) /\ ~BadInventory(all)
            /\ seen' = [seen EXCEPT ![r] = all] /\ cursor' = [cursor EXCEPT ![r] = 0]
            /\ pc' = [pc EXCEPT ![r] = "records"] /\ UNCHANGED <<opt, plan, answer>>
         \/ End(r, "failed")
  BY DEF ListServers
<1>2. /\ Range(Page(Servers, cursor[r])) \subseteq Server
      /\ \A j \in 1..Len(Servers) :
           cursor[r] * PageSize < j /\ j <= (cursor[r] + 1) * PageSize
             => Servers[j] \in Range(Page(Servers, cursor[r]))
      /\ LastPage(Servers, cursor[r]) =>
           \A j \in 1..Len(Servers) : j <= (cursor[r] + 1) * PageSize
      /\ cursor[r] \in Nat
  <2>1. cursor[r] \in Nat
    BY DEF IInv, Typed
  <2>2. QED BY <2>1, PageShows
<1>3. /\ DOMAIN all = known \cup page /\ DOMAIN all \subseteq Listable(opt[r])
      /\ \A s \in DOMAIN all : /\ s \in stable[r] => all[s] = srv[s]
                               /\ all[s].state \in {"active", "deleting"}
  <2>1. page \subseteq Listable(opt[r]) /\ \A s \in page : srv[s].state \in {"active", "deleting"}
    BY <1>2 DEF IInv, Typed, Listable, ServerStates
  <2>2. /\ known \subseteq Listable(opt[r])
        /\ \A s \in known : /\ s \in stable[r] => seen[r][s] = srv[s]
                            /\ seen[r][s].state \in {"active", "deleting"}
    BY DEF IInv, SeenRight
  <2> HIDE DEF page, known
  <2>3. QED BY <2>1, <2>2
<1>4. ASSUME NEW s \in stable[r] \cap Listable(opt[r]), srv[s].state # "absent",
             NEW j \in 1..Len(Servers), Servers[j] = s, j <= (cursor[r] + 1) * PageSize
      PROVE  s \in DOMAIN all
  <2>1. CASE j <= cursor[r] * PageSize
    <3>1. PageSeen(s, pc[r], cursor[r])
      BY <1>1, <1>4, <2>1 DEF PageSeen
    <3>2. QED BY <1>3, <1>4, <3>1 DEF IInv, SeenRight
  <2>2. CASE cursor[r] * PageSize < j
    <3>1. s \in Range(Page(Servers, cursor[r]))
      BY <1>2, <1>4, <2>2
    <3>2. s \in page
      BY <1>4, <3>1 DEF Listable
    <3>3. QED BY <1>3, <3>2
  <2>3. cursor[r] * PageSize \in Nat /\ j \in Nat
    <3>1. cursor[r] * PageSize \in Nat
      BY <1>2, PageBounds
    <3>2. j \in Nat
      BY ServersLength
    <3>3. QED BY <3>1, <3>2
  <2>4. j <= cursor[r] * PageSize \/ cursor[r] * PageSize < j
    BY <2>3
  <2>5. QED BY <2>1, <2>2, <2>4
<1>5. \A q \in requests : q.run = r => ~q.waited
  BY <1>1, NothingWaited
<1> HIDE DEF page, known, all
<1>6. CASE End(r, "failed")
  BY <1>1, <1>5, <1>6, Ended, LocalStep DEF IInv, world
<1>7. ASSUME seen' = [seen EXCEPT ![r] = all], UNCHANGED <<opt, plan, answer>>,
             NEW k \in Nat, cursor' = [cursor EXCEPT ![r] = k],
             NEW phase \in {"servers", "records"}, pc' = [pc EXCEPT ![r] = phase],
             phase = "records" => LastPage(Servers, cursor[r]) /\ ~BadInventory(all),
             phase = "servers" => k = cursor[r] + 1
      PROVE  IInv'
  <2>1. Others(r) /\ UNCHANGED <<srv, requests>> /\ stable' = stable
    BY <1>1, <1>7 DEF IInv, Typed, Others, world
  <2>2. Typed'
    BY <1>1, <1>7, <2>1 DEF IInv, Typed, Phases
  <2>3. pc'[r] = phase /\ seen'[r] = all /\ cursor'[r] = k /\ opt'[r] = opt[r]
    BY <1>7 DEF IInv, Typed
  <2>4. ASSUME NEW s \in stable[r] \cap Listable(opt[r]), srv[s].state # "absent",
               PageSeen(s, phase, k)
        PROVE  s \in DOMAIN all
    <3>1. CASE phase = "servers"
      <4>1. PICK j \in 1..Len(Servers) : j <= k * PageSize /\ Servers[j] = s
        BY <2>4, <3>1 DEF PageSeen
      <4>2. QED BY <1>4, <1>7, <2>4, <3>1, <4>1
    <3>2. CASE phase = "records"
      <4>1. s \in Server
        BY DEF Listable
      <4>2. PICK j \in 1..Len(Servers) : Servers[j] = s
        BY <4>1, ServersLength
      <4>3. j <= (cursor[r] + 1) * PageSize
        BY <1>2, <1>7, <3>2
      <4>4. QED BY <1>4, <2>4, <4>2, <4>3
    <3>3. QED BY <1>7, <3>1, <3>2
  <2>5. SeenRight(r)'
    BY <1>3, <1>7, <2>1, <2>3, <2>4 DEF SeenRight
  <2>6. plan[r] = {} /\ plan'[r] = {}
    BY <1>1, <1>7 DEF IInv, PlanRight
  <2>7. PlanRight(r)'
    BY <2>6 DEF PlanRight
  <2>8. QED BY <1>5, <2>1, <2>2, <2>5, <2>7, LocalStep
<1>8. CASE /\ ~LastPage(Servers, cursor[r])
           /\ seen' = [seen EXCEPT ![r] = all] /\ cursor' = [cursor EXCEPT ![r] = @ + 1]
           /\ UNCHANGED <<pc, opt, plan, answer>>
  <2>1. cursor' = [cursor EXCEPT ![r] = cursor[r] + 1] /\ cursor[r] + 1 \in Nat
    BY <1>2, <1>8
  <2>2. pc' = [pc EXCEPT ![r] = "servers"]
    BY <1>1, <1>8 DEF IInv, Typed
  <2>3. QED BY <1>7, <1>8, <2>1, <2>2
<1>9. CASE /\ LastPage(Servers, cursor[r]) /\ ~BadInventory(all)
           /\ seen' = [seen EXCEPT ![r] = all] /\ cursor' = [cursor EXCEPT ![r] = 0]
           /\ pc' = [pc EXCEPT ![r] = "records"] /\ UNCHANGED <<opt, plan, answer>>
  BY <1>7, <1>9
<1>10. QED BY <1>1, <1>6, <1>8, <1>9

LEMMA ListRecordsKeeps ==
  ASSUME IInv, NEW r \in Runs, ListRecords(r)
  PROVE  IInv'
<1> DEFINE all == [n \in Name |-> IF n \in Range(Page(Names, cursor[r])) THEN zone[n]
                                  ELSE existing[r][n]]
           changes == PlanChanges(seen[r], all, opt[r])
<1>1. /\ pc[r] = "records" /\ UNCHANGED <<world, undisturbed, stable>>
      /\ \/ cursor' = [cursor EXCEPT ![r] = @ + 1] /\ UNCHANGED <<pc, opt, seen, plan, answer>>
         \/ /\ plan' = [plan EXCEPT ![r] = changes] /\ pc' = [pc EXCEPT ![r] = "apply"]
            /\ cursor' = [cursor EXCEPT ![r] = 0] /\ UNCHANGED <<opt, seen, answer>>
         \/ End(r, "ok")
  BY DEF ListRecords
<1>2. \A q \in requests : q.run = r => ~q.waited
  BY <1>1, NothingWaited
<1>3. SeenRight(r) /\ PlanRight(r) /\ stable[r] \subseteq Server
  BY DEF IInv, Typed
<1>4. \A c \in changes : Own(c, opt[r]) /\ Faithful(c, srv, stable[r])
  <2>1. DOMAIN seen[r] \subseteq Listable(opt[r]) /\ ~BadInventory(seen[r])
    BY <1>1, <1>3 DEF SeenRight
  <2>2. /\ \A s \in DOMAIN seen[r] : /\ s \in stable[r] => seen[r][s] = srv[s]
                                     /\ seen[r][s].state \in {"active", "deleting"}
        /\ \A s \in stable[r] \cap Listable(opt[r]) :
             srv[s].state # "absent" => s \in DOMAIN seen[r]
    BY <1>1, <1>3 DEF SeenRight, PageSeen
  <2>3. QED BY <1>3, <2>1, <2>2, PlanOwn, PlanFaithful
<1> HIDE DEF all, changes
<1>5. CASE End(r, "ok")
  BY <1>1, <1>2, <1>5, Ended, LocalStep DEF IInv, world
<1>6. CASE cursor' = [cursor EXCEPT ![r] = @ + 1] /\ UNCHANGED <<pc, opt, seen, plan, answer>>
  <2>1. Others(r) /\ UNCHANGED <<srv, requests, stable>> /\ Typed'
    BY <1>1, <1>6 DEF IInv, Typed, Others, world
  <2>2. SeenRight(r)'
    BY <1>1, <1>3, <1>6, <2>1 DEF SeenRight, PageSeen
  <2>3. PlanRight(r)'
    BY <1>3, <1>6, <2>1 DEF PlanRight
  <2>4. QED BY <1>2, <2>1, <2>2, <2>3, LocalStep
<1>7. CASE /\ plan' = [plan EXCEPT ![r] = changes] /\ pc' = [pc EXCEPT ![r] = "apply"]
           /\ cursor' = [cursor EXCEPT ![r] = 0] /\ UNCHANGED <<opt, seen, answer>>
  <2>1. Others(r) /\ UNCHANGED <<srv, requests, stable>> /\ Typed'
    BY <1>1, <1>7 DEF IInv, Typed, Phases, Others, world
  <2>2. pc'[r] = "apply" /\ plan'[r] = changes
    BY <1>7 DEF IInv, Typed
  <2>3. SeenRight(r)'
    BY <1>1, <1>3, <1>7, <2>1, <2>2 DEF SeenRight, PageSeen
  <2>4. PlanRight(r)'
    BY <1>4, <1>7, <2>1, <2>2 DEF PlanRight
  <2>5. QED BY <1>2, <2>1, <2>3, <2>4, LocalStep
<1>8. QED BY <1>1, <1>5, <1>6, <1>7

LEMMA WaitedKeeps ==
  ASSUME IInv, NEW r \in Runs, Waited(r)
  PROVE  IInv'
<1>1. /\ pc[r] = "wait" /\ answer[r] # "none" /\ UNCHANGED <<srv, requests, stable>>
      /\ \/ \E status : End(r, status)
         \/ /\ pc' = [pc EXCEPT ![r] = "apply"] /\ answer' = [answer EXCEPT ![r] = "none"]
            /\ UNCHANGED <<opt, cursor, seen, plan>>
  BY DEF Waited, world
<1>2. \A q \in requests : q.run = r => ~q.waited
  BY <1>1, NothingWaited
<1>3. CASE \E status : End(r, status)
  BY <1>1, <1>2, <1>3, Ended, LocalStep DEF IInv
<1>4. CASE /\ pc' = [pc EXCEPT ![r] = "apply"] /\ answer' = [answer EXCEPT ![r] = "none"]
           /\ UNCHANGED <<opt, cursor, seen, plan>>
  <2>1. Others(r) /\ Typed'
    BY <1>1, <1>4 DEF IInv, Typed, Phases, Others
  <2>2. pc'[r] = "apply"
    BY <1>4 DEF IInv, Typed
  <2>3. SeenRight(r)' /\ PlanRight(r)'
    BY <1>1, <1>4, <2>2 DEF IInv, SeenRight, PlanRight, PageSeen
  <2>4. QED BY <1>1, <1>2, <2>1, <2>3, LocalStep
<1>5. QED BY <1>1, <1>3, <1>4

LEMMA ApplyKeeps ==
  ASSUME IInv, NEW r \in Runs, Apply(r)
  PROVE  IInv'
<1>0. PICK batch, q0 : /\ batch = Batch(plan[r])
                       /\ q0 = [run |-> r, changes |-> batch, opt |-> opt[r], waited |-> TRUE]
  OBVIOUS
<1>1. /\ pc[r] = "apply" /\ requests' = requests \cup {q0}
      /\ plan' = [plan EXCEPT ![r] = @ \ batch] /\ pc' = [pc EXCEPT ![r] = "wait"]
      /\ UNCHANGED <<srv, opt, cursor, seen, answer, stable>>
  BY <1>0 DEF Apply
<1>2. batch \subseteq plan[r]
  BY <1>0 DEF Batch
<1>3. Others(r) /\ Typed'
  BY <1>1 DEF IInv, Typed, Phases, Others
<1>4. pc'[r] = "wait" /\ plan'[r] = plan[r] \ batch
  BY <1>1 DEF IInv, Typed
<1>5. SeenRight(r) /\ PlanRight(r)
  BY DEF IInv
<1>6. SeenRight(r)'
  BY <1>1, <1>4, <1>5 DEF SeenRight, PageSeen
<1>7. PlanRight(r)'
  BY <1>1, <1>4, <1>5 DEF PlanRight
<1>8. ASSUME NEW p \in Runs \ {r}
      PROVE  SeenRight(p)' /\ PlanRight(p)'
  BY <1>1, <1>3, RunKept DEF IInv, Others
<1>9. \A q \in requests : q.run = r => ~q.waited
  BY <1>1, NothingWaited
<1>10. ASSUME NEW q \in requests
       PROVE  RequestRight(q)'
  <2>1. RequestRight(q) /\ q.run \in Runs
    BY DEF IInv, RequestRight
  <2>2. QED BY <1>1, <1>3, <1>9, <2>1, RequestKept DEF IInv, Others
<1>11. answer[r] = "none" /\ answer'[r] = "none"
  BY <1>1 DEF IInv, Typed
<1>12. RequestRight(q0)'
  <2>1. /\ q0.run = r /\ q0.changes = batch /\ q0.opt = opt[r] /\ q0.waited = TRUE
        /\ q0 = [run |-> q0.run, changes |-> q0.changes, opt |-> q0.opt, waited |-> q0.waited]
    BY <1>0
  <2>2. \A c \in batch : Own(c, opt[r]) /\ Faithful(c, srv, stable[r])
    BY <1>2, <1>5 DEF PlanRight
  <2>3. srv' = srv /\ stable'[r] = stable[r]
    BY <1>1
  <2>4. \A c \in batch : Faithful(c, srv', stable'[r])
    BY <2>2, <2>3
  <2>5. QED BY <1>4, <1>11, <2>1, <2>2, <2>4 DEF RequestRight
<1>13. OneWaited'
  <2>1. OneWaited /\ q0.run = r
    BY <1>0 DEF IInv
  <2>2. QED BY <1>1, <1>9, <2>1 DEF OneWaited
<1>14. QED BY <1>1, <1>3, <1>6, <1>7, <1>8, <1>10, <1>12, <1>13 DEF IInv

LEMMA FailsKeeps ==
  ASSUME IInv, NEW r \in Runs, Fails(r)
  PROVE  IInv'
<1>1. /\ requests' = {[run |-> q.run, changes |-> q.changes, opt |-> q.opt,
                       waited |-> q.waited /\ q.run # r] : q \in requests}
      /\ End(r, "failed") /\ UNCHANGED <<srv, stable>>
  BY DEF Fails
<1>2. Others(r) /\ Typed' /\ SeenRight(r)' /\ PlanRight(r)'
  BY <1>1, Ended DEF IInv
<1>3. ASSUME NEW p \in Runs \ {r}
      PROVE  SeenRight(p)' /\ PlanRight(p)'
  BY <1>1, <1>2, RunKept DEF IInv, Others
<1>4. ASSUME NEW p \in requests'
      PROVE  /\ \E q \in requests : /\ p.run = q.run /\ p.changes = q.changes /\ p.opt = q.opt
                                    /\ p.waited = (q.waited /\ q.run # r)
             /\ p = [run |-> p.run, changes |-> p.changes, opt |-> p.opt, waited |-> p.waited]
             /\ p.waited \in BOOLEAN
  <2>1. PICK q \in requests : p = [run |-> q.run, changes |-> q.changes, opt |-> q.opt,
                                   waited |-> q.waited /\ q.run # r]
    BY <1>1, <1>4
  <2>2. /\ p.run = q.run /\ p.changes = q.changes /\ p.opt = q.opt
        /\ p.waited = (q.waited /\ q.run # r)
    BY <2>1
  <2>3. p = [run |-> p.run, changes |-> p.changes, opt |-> p.opt, waited |-> p.waited]
    BY <2>1, <2>2
  <2>4. QED BY <2>2, <2>3
<1>5. ASSUME NEW p \in requests'
      PROVE  RequestRight(p)' /\ (p.waited => p \in requests /\ p.run # r)
  <2>1. PICK q \in requests : /\ p.run = q.run /\ p.changes = q.changes /\ p.opt = q.opt
                              /\ p.waited = (q.waited /\ q.run # r)
    BY <1>4
  <2>2. RequestRight(q) /\ q.run \in Runs
    BY DEF IInv, RequestRight
  <2>3. CASE ~p.waited
    BY <1>4, <2>1, <2>2, <2>3 DEF RequestRight
  <2>4. CASE p.waited
    <3>1. p.waited = TRUE /\ q.waited = TRUE /\ q.run # r
      BY <1>4, <2>1, <2>2, <2>4 DEF RequestRight
    <3>2. p = q
      BY <1>4, <2>1, <2>2, <3>1 DEF RequestRight
    <3>3. RequestRight(q)'
      BY <1>1, <1>2, <2>2, <3>1, RequestKept DEF IInv, Others
    <3>4. QED BY <3>1, <3>2, <3>3
  <2>5. QED BY <2>3, <2>4
<1>6. OneWaited'
  BY <1>5 DEF IInv, OneWaited
<1>7. QED BY <1>2, <1>3, <1>5, <1>6 DEF IInv

LEMMA ExecuteKeeps ==
  ASSUME IInv, NEW q \in requests, Execute(q)
  PROVE  IInv'
<1>1. /\ requests' = requests \ {q} /\ UNCHANGED <<srv, pc, opt, cursor, seen, plan, stable>>
      /\ \/ ~q.waited /\ answer' = answer
         \/ /\ q.waited
            /\ \E a \in {"applied", "refused"} : answer' = [answer EXCEPT ![q.run] = a]
  BY DEF Execute
<1>2. RequestRight(q) /\ q.run \in Runs
  BY DEF IInv, RequestRight
<1>3. Typed'
  BY <1>1, <1>2 DEF IInv, Typed, RequestRight
<1>4. ASSUME NEW r \in Runs
      PROVE  SeenRight(r)' /\ PlanRight(r)'
  BY <1>1, RunKept DEF IInv
<1>5. ASSUME NEW p \in requests \ {q}
      PROVE  RequestRight(p)'
  <2>1. RequestRight(p) /\ p.run \in Runs
    BY DEF IInv, RequestRight
  <2>2. p.waited => answer'[p.run] = answer[p.run]
    BY <1>1, <1>2, <2>1 DEF IInv, OneWaited, Typed, RequestRight
  <2>3. QED BY <1>1, <2>1, <2>2, RequestKept DEF IInv
<1>6. OneWaited'
  BY <1>1 DEF IInv, OneWaited
<1>7. QED BY <1>1, <1>3, <1>4, <1>5, <1>6 DEF IInv

\* The servers change, one at a time.
LEMMA ServersChange ==
  ASSUME IInv, Surroundings
  PROVE  DOMAIN srv' = Server /\ \A s \in Server : srv'[s].state \in ServerStates
<1>1. DOMAIN srv = Server /\ \A s \in Server : srv[s].state \in ServerStates
  BY DEF IInv, Typed
<1>2. CASE \E s \in Server, p \in Ports, a \in Addresses \cup {NoAddress} : SetAddress(s, p, a)
  BY <1>1, <1>2 DEF SetAddress
<1>3. CASE \E s \in Server, p \in Ports, a \in Addresses \cup {NoAddress} : Join(s, p, a)
  BY <1>1, <1>3 DEF Join, ServerStates
<1>4. CASE \E s \in Server, p \in Ports : AddPort(s, p)
  BY <1>1, <1>4 DEF AddPort
<1>5. CASE \E s \in Server : Leave(s)
  BY <1>1, <1>5 DEF Leave, ServerStates, Absent
<1>6. CASE \E n \in Name, rec \in Edits \cup {NoRecord} : EditRecord(n, rec)
  BY <1>1, <1>6 DEF EditRecord
<1>7. QED BY <1>2, <1>3, <1>4, <1>5, <1>6 DEF Surroundings

LEMMA SurroundingsKeeps ==
  ASSUME IInv, Surroundings
  PROVE  IInv'
<1>1. /\ UNCHANGED <<requests, pc, opt, cursor, seen, plan, answer>>
      /\ stable' = [x \in Runs |-> {s \in stable[x] : srv'[s] = srv[s]}]
  BY DEF Surroundings, local
<1>2. Typed'
  BY <1>1, ServersChange DEF IInv, Typed
<1>3. ASSUME NEW r \in Runs
      PROVE  SeenRight(r)' /\ PlanRight(r)'
  BY <1>1, RunKept DEF IInv
<1>4. ASSUME NEW q \in requests
      PROVE  RequestRight(q)'
  <2>1. RequestRight(q) /\ q.run \in Runs
    BY DEF IInv, RequestRight
  <2>2. QED BY <1>1, <2>1, RequestKept DEF IInv
<1>5. OneWaited'
  BY <1>1 DEF IInv, OneWaited
<1>6. QED BY <1>1, <1>2, <1>3, <1>4, <1>5 DEF IInv

LEMMA NextKeeps ==
  ASSUME IInv, [Next]_vars
  PROVE  IInv'
<1>1. CASE \E r \in Runs, o \in Options \cup {FullRun} : Start(r, o)
  BY <1>1, StartKeeps
<1>2. CASE \E r \in Runs : RunStep(r) \/ Fails(r)
  BY <1>2, ListServersKeeps, ListRecordsKeeps, ApplyKeeps, WaitedKeeps, FailsKeeps DEF RunStep
<1>3. CASE \E q \in requests : Execute(q)
  BY <1>3, ExecuteKeeps
<1>4. CASE Surroundings
  BY <1>4, SurroundingsKeeps
<1>5. CASE UNCHANGED vars
  <2>1. UNCHANGED <<srv, requests, pc, opt, cursor, seen, plan, answer, stable>>
    BY <1>5 DEF vars, world, local
  <2>2. Typed'
    BY <2>1 DEF IInv, Typed
  <2>3. \A r \in Runs : SeenRight(r)' /\ PlanRight(r)'
    BY <2>1, RunKept DEF IInv
  <2>4. \A q \in requests : RequestRight(q)'
    BY <2>1, RequestKept DEF IInv
  <2>5. OneWaited'
    BY <2>1 DEF IInv, OneWaited
  <2>6. QED BY <2>1, <2>2, <2>3, <2>4, <2>5 DEF IInv
<1>6. QED BY <1>1, <1>2, <1>3, <1>4, <1>5 DEF Next

LEMMA InitRight == Init => IInv
<1> SUFFICES ASSUME Init PROVE IInv
  OBVIOUS
<1> USE DEF Init
<1>1. DOMAIN srv = Server /\ \A s \in Server : srv[s].state \in ServerStates
  BY PrivateDnsAssumption DEF Server
<1>2. Typed
  BY <1>1, OptionsTyped DEF Typed, Phases
<1>3. \A r \in Runs : SeenRight(r) /\ PlanRight(r)
  BY DEF SeenRight, PlanRight, EmptyInventory, PageSeen
<1>4. QED BY <1>2, <1>3 DEF IInv, OneWaited

(***************************************************************************)
(* A run that is not disturbed                                             *)
(***************************************************************************)
\* What should be is the same as long as the servers are.
LEMMA WorldKept ==
  ASSUME NEW r, srv' = srv, opt'[r] = opt[r]
  PROVE  \A n : /\ Target(r, n)' = Target(r, n)
                /\ Answerable(opt[r], n)' = Answerable(opt[r], n)
BY DEF Target, Answerable, Inventory

\* A step that is none of run r's.
LEMMA InformedKept ==
  ASSUME NEW r \in Runs, Informed(r),
         undisturbed'[r] => /\ undisturbed[r] /\ srv' = srv
                            /\ \A n \in Name : zone'[n] = zone[n],
         pc'[r] = pc[r], opt'[r] = opt[r], cursor'[r] = cursor[r], seen'[r] = seen[r],
         existing'[r] = existing[r], stable'[r] = stable[r] \/ ~undisturbed'[r],
         Pending(r)' \subseteq Pending(r),
         answer'[r] = "refused" \/ (answer'[r] = answer[r] /\ Pending(r)' = Pending(r))
  PROVE  Informed(r)'
<1>1. SUFFICES ASSUME undisturbed'[r] PROVE Informed(r)'
  BY DEF Informed
<1>2. undisturbed[r] /\ srv' = srv /\ stable'[r] = stable[r] /\ \A n \in Name : zone'[n] = zone[n]
  BY <1>1
<1>3. \A n : Target(r, n)' = Target(r, n) /\ Answerable(opt[r], n)' = Answerable(opt[r], n)
  BY <1>2, WorldKept
<1>4. Inventory(opt[r])' = Inventory(opt[r])
  BY <1>2 DEF Inventory
<1>5. \A j \in 1..Len(Names) : Names[j] \in Name
  BY NamesShown
<1>6. QED BY <1>2, <1>3, <1>4, <1>5 DEF Informed

\* A step of run r leaves what the others know alone.
LEMMA LocalKnows ==
  ASSUME IInv, Knows, NEW r \in Runs, Others(r), UNCHANGED <<srv, zone, requests>>,
         \A x \in Runs \ {r} : existing'[x] = existing[x] /\ undisturbed'[x] = undisturbed[x],
         undisturbed' \in [Runs -> BOOLEAN], DOMAIN existing' = Runs, DOMAIN result' = Runs,
         Informed(r)'
  PROVE  Knows'
<1>1. ASSUME NEW x \in Runs \ {r}
      PROVE  Informed(x)'
  <2>1. Pending(x)' = Pending(x)
    BY DEF Pending, Others
  <2>2. QED BY <2>1, InformedKept DEF Knows, Others
<1>2. QED BY <1>1 DEF Knows

\* A run that has ended has nothing more to know.
LEMMA EndKnows ==
  ASSUME IInv, Knows, NEW r \in Runs, NEW status, End(r, status),
         UNCHANGED <<srv, zone, requests, undisturbed, stable>>
  PROVE  Knows'
<1>1. Others(r) /\ pc'[r] = "idle"
  BY Ended DEF IInv, End, Typed
<1>2. DOMAIN existing' = Runs /\ DOMAIN result' = Runs
      /\ \A x \in Runs \ {r} : existing'[x] = existing[x]
  BY DEF End, Knows
<1>3. Informed(r)'
  BY <1>1 DEF Informed, Knows
<1>4. QED BY <1>1, <1>2, <1>3, LocalKnows DEF Knows

LEMMA StartKnows ==
  ASSUME IInv, Knows, NEW r \in Runs, NEW o \in Options \cup {FullRun}, Start(r, o)
  PROVE  Knows'
<1>1. /\ undisturbed' = [undisturbed EXCEPT ![r] = TRUE] /\ pc'[r] = "servers"
      /\ stable'[r] = Server /\ UNCHANGED <<srv, zone, requests, existing>>
      /\ result' = [result EXCEPT ![r] = "none"]
  BY DEF Start, world, IInv, Typed
<1>2. Others(r)
  BY DEF Start, IInv, Typed, Others
<1>3. Informed(r)'
  BY <1>1 DEF Informed
<1>4. QED BY <1>1, <1>2, <1>3, LocalKnows DEF Knows

\* After the last page such a run has seen every server as it is.
LEMMA ListServersKnows ==
  ASSUME IInv, Knows, NEW r \in Runs, ListServers(r)
  PROVE  Knows'
<1> DEFINE page == {s \in Range(Page(Servers, cursor[r])) :
                      srv[s].state # "absent" /\ (opt[r].filtered => s \in Selected)}
           known == DOMAIN seen[r]
           all == [s \in known \cup page |-> IF s \in known THEN seen[r][s] ELSE srv[s]]
<1>1. /\ pc[r] = "servers" /\ UNCHANGED <<srv, zone, requests, undisturbed, stable>>
      /\ \/ seen' = [seen EXCEPT ![r] = all] /\ UNCHANGED <<pc, opt, existing, plan, answer, result>>
            /\ cursor' = [cursor EXCEPT ![r] = @ + 1]
         \/ /\ seen' = [seen EXCEPT ![r] = all] /\ cursor' = [cursor EXCEPT ![r] = 0]
            /\ pc' = [pc EXCEPT ![r] = "records"] /\ UNCHANGED <<opt, existing, plan, answer, result>>
         \/ End(r, "failed")
  BY DEF ListServers, world
<1>2. all = [s \in DOMAIN all |-> all[s]]
  OBVIOUS
<1> HIDE DEF page, known, all
<1>3. CASE End(r, "failed")
  BY <1>1, <1>3, EndKnows
<1>4. CASE /\ seen' = [seen EXCEPT ![r] = all] /\ UNCHANGED <<pc, opt, existing, plan, answer, result>>
           /\ cursor' = [cursor EXCEPT ![r] = @ + 1]
  <2>1. Others(r) /\ pc'[r] = "servers"
    BY <1>1, <1>4 DEF IInv, Typed, Others
  <2>2. Informed(r)'
    BY <1>1, <2>1 DEF Knows, Informed
  <2>3. QED BY <1>1, <1>4, <2>1, <2>2, LocalKnows DEF Knows
<1>5. CASE /\ seen' = [seen EXCEPT ![r] = all] /\ cursor' = [cursor EXCEPT ![r] = 0]
           /\ pc' = [pc EXCEPT ![r] = "records"] /\ UNCHANGED <<opt, existing, plan, answer, result>>
  <2>1. Others(r) /\ pc'[r] = "records" /\ seen'[r] = all /\ cursor'[r] = 0 /\ opt'[r] = opt[r]
    BY <1>1, <1>5 DEF IInv, Typed, Others
  <2>2. SeenRight(r)'
    BY ListServersKeeps DEF IInv
  <2>3. ASSUME undisturbed[r]
        PROVE  all = Inventory(opt[r])
    <3>1. stable[r] = Server
      BY <2>3 DEF Knows, Informed
    <3>2. /\ \A s \in DOMAIN all : /\ s \in Server /\ (opt[r].filtered => s \in Selected)
                                   /\ all[s] = srv[s] /\ srv[s].state # "absent"
          /\ \A s \in Server : (opt[r].filtered => s \in Selected) /\ srv[s].state # "absent"
                                 => s \in DOMAIN all
      BY <1>1, <2>1, <2>2, <3>1 DEF SeenRight, Listable, PageSeen
    <3>3. DOMAIN all = {s \in Server : srv[s].state # "absent" /\ (opt[r].filtered => s \in Selected)}
      BY <3>2
    <3>4. QED BY <1>2, <3>2, <3>3 DEF Inventory
  <2>4. \A j \in 1..Len(Names) : ~(j <= 0 * PageSize)
    BY PageBounds, NamesShown
  <2>5. Informed(r)'
    <3>1. Inventory(opt[r])' = Inventory(opt[r])
      BY <1>1, <2>1 DEF Inventory
    <3>2. QED BY <1>1, <2>1, <2>3, <2>4, <3>1 DEF Knows, Informed
  <2>6. QED BY <1>1, <1>5, <2>1, <2>5, LocalKnows DEF Knows
<1>6. QED BY <1>1, <1>3, <1>4, <1>5

\* A plan has a change for every record that is not as it should be.
LEMMA PlanComplete ==
  ASSUME NEW o, NEW have, NEW n \in Name, Answerable(o, n),
         have[n] # Desired(Inventory(o), n)
  PROVE  \E c \in PlanChanges(Inventory(o), have, o) : c.name = n
<1> DEFINE inv == Inventory(o)
           want == [m \in Name |-> Desired(inv, m)]
           todo(m) == IF want[m] # NoRecord THEN have[m] # want[m]
                      ELSE have[m] # NoRecord /\ Managed(m) /\ m[1] \in PruneScope(inv, o)
<1>1. want[n] = Desired(inv, n)
  OBVIOUS
<1>2. want[n] # NoRecord => todo(n)
  BY <1>1
<1>3. ASSUME want[n] = NoRecord
      PROVE  todo(n)
  <2>1. PICK l \in Labels, p \in Range(PrefixList) : n = <<l, p>>
    BY DEF Answerable
  <2>2. Managed(n) /\ n[1] = l
    BY <2>1 DEF Managed
  <2>3. o.prune /\ (~o.filtered \/ \E s \in ActiveIn(inv) : n[1] = LabelOf[s])
    BY <1>1, <1>3 DEF Answerable
  <2>4. n[1] \in PruneScope(inv, o)
    BY <2>2, <2>3 DEF PruneScope
  <2>5. QED BY <1>1, <1>3, <2>2, <2>4
<1>4. todo(n)
  BY <1>2, <1>3
<1>5. [name |-> n, from |-> have[n], to |-> want[n]] \in PlanChanges(inv, have, o)
  BY <1>4 DEF PlanChanges
<1>6. QED BY <1>5

\* After the last page such a run knows every record, and all that is to change.
LEMMA RecordsKnown ==
  ASSUME IInv, Knows, NEW r \in Runs, pc[r] = "records", undisturbed[r], NEW all,
         all = [n \in Name |-> IF n \in Range(Page(Names, cursor[r])) THEN zone[n]
                               ELSE existing[r][n]]
  PROVE  /\ seen[r] = Inventory(opt[r])
         /\ \A j \in 1..Len(Names) : j <= (cursor[r] + 1) * PageSize => all[Names[j]] = zone[Names[j]]
         /\ LastPage(Names, cursor[r]) => \A n \in Name : all[n] = zone[n]
<1>1. cursor[r] \in Nat
  BY DEF IInv, Typed
<1>2. /\ seen[r] = Inventory(opt[r])
      /\ \A j \in 1..Len(Names) :
           j <= cursor[r] * PageSize => existing[r][Names[j]] = zone[Names[j]]
  BY DEF Knows, Informed
<1>3. ASSUME NEW j \in 1..Len(Names), j <= (cursor[r] + 1) * PageSize
      PROVE  all[Names[j]] = zone[Names[j]]
  <2>1. Names[j] \in Name /\ j \in Nat /\ cursor[r] * PageSize \in Nat
    BY <1>1, NamesShown, PageBounds
  <2>2. CASE j <= cursor[r] * PageSize
    BY <1>2, <2>1, <2>2
  <2>3. CASE cursor[r] * PageSize < j
    <3>1. Names[j] \in Range(Page(Names, cursor[r]))
      BY <1>1, <1>3, <2>3, NamesShown
    <3>2. QED BY <2>1, <3>1
  <2>4. j <= cursor[r] * PageSize \/ cursor[r] * PageSize < j
    BY <2>1
  <2>5. QED BY <2>2, <2>3, <2>4
<1>4. ASSUME LastPage(Names, cursor[r]), NEW n \in Name
      PROVE  all[n] = zone[n]
  <2>1. PICK j \in 1..Len(Names) : Names[j] = n
    BY <1>1, NamesShown
  <2>2. j <= (cursor[r] + 1) * PageSize
    BY <1>1, <1>4, NamesShown
  <2>3. QED BY <1>3, <2>1, <2>2
<1>5. QED BY <1>2, <1>3, <1>4

LEMMA ListRecordsKnows ==
  ASSUME IInv, Knows, NEW r \in Runs, ListRecords(r)
  PROVE  /\ Knows'
         /\ result'[r] = "ok" /\ result[r] # "ok" /\ undisturbed[r] /\ ~opt[r].dry => Synced(opt[r])
<1>0. PICK all : all = [n \in Name |-> IF n \in Range(Page(Names, cursor[r])) THEN zone[n]
                                       ELSE existing[r][n]]
  OBVIOUS
<1>1. PICK changes : changes = PlanChanges(seen[r], all, opt[r])
  OBVIOUS
<1>2. /\ pc[r] = "records" /\ UNCHANGED <<srv, zone, requests, undisturbed, stable>>
      /\ \/ /\ existing' = [existing EXCEPT ![r] = all] /\ cursor' = [cursor EXCEPT ![r] = @ + 1]
            /\ UNCHANGED <<pc, opt, seen, plan, answer, result>>
         \/ /\ LastPage(Names, cursor[r])
            /\ plan' = [plan EXCEPT ![r] = changes] /\ pc' = [pc EXCEPT ![r] = "apply"]
            /\ existing' = [existing EXCEPT ![r] = EmptyZone]
            /\ cursor' = [cursor EXCEPT ![r] = 0]
            /\ UNCHANGED <<opt, seen, answer, result>>
         \/ LastPage(Names, cursor[r]) /\ (changes = {} \/ opt[r].dry) /\ End(r, "ok")
  BY <1>0, <1>1 DEF ListRecords, world
<1>3. undisturbed[r] =>
        /\ seen[r] = Inventory(opt[r])
        /\ \A j \in 1..Len(Names) : j <= (cursor[r] + 1) * PageSize => all[Names[j]] = zone[Names[j]]
        /\ LastPage(Names, cursor[r]) => \A n \in Name : all[n] = zone[n]
  BY <1>0, <1>2, RecordsKnown
<1>4. \A q \in requests : q.run = r => ~q.waited
  BY <1>2, NothingWaited
<1>5. undisturbed[r] /\ LastPage(Names, cursor[r]) =>
        /\ \A c \in changes : c.to = Target(r, c.name)
        /\ \A n \in Name : Answerable(opt[r], n) =>
             zone[n] = Target(r, n) \/ \E c \in changes : c.name = n
  BY <1>1, <1>3, PlanHas, PlanComplete DEF Target
<1>6. CASE /\ existing' = [existing EXCEPT ![r] = all] /\ cursor' = [cursor EXCEPT ![r] = @ + 1]
           /\ UNCHANGED <<pc, opt, seen, plan, answer, result>>
  <2>1. Others(r) /\ pc'[r] = "records" /\ cursor'[r] = cursor[r] + 1 /\ existing'[r] = all
    BY <1>2, <1>6 DEF IInv, Typed, Others, Knows
  <2>2. Informed(r)'
    <3>1. Inventory(opt[r])' = Inventory(opt[r])
      BY <1>2, <1>6 DEF Inventory
    <3>2. QED BY <1>2, <1>3, <1>6, <2>1, <3>1 DEF Knows, Informed
  <2>3. Knows'
    BY <1>2, <1>6, <2>1, <2>2, LocalKnows DEF Knows
  <2>4. QED BY <1>6, <2>3
<1>7. CASE /\ LastPage(Names, cursor[r])
           /\ plan' = [plan EXCEPT ![r] = changes] /\ pc' = [pc EXCEPT ![r] = "apply"]
           /\ existing' = [existing EXCEPT ![r] = EmptyZone] /\ cursor' = [cursor EXCEPT ![r] = 0]
           /\ UNCHANGED <<opt, seen, answer, result>>
  <2>1. Others(r) /\ pc'[r] = "apply" /\ plan'[r] = changes
    BY <1>2, <1>7 DEF IInv, Typed, Others, Knows
  <2>2. Pending(r)' = changes
    BY <1>2, <1>4, <2>1 DEF Pending
  <2>3. Informed(r)'
    <3>1. \A n : Target(r, n)' = Target(r, n) /\ Answerable(opt[r], n)' = Answerable(opt[r], n)
      BY <1>2, <1>7, WorldKept
    <3>2. QED BY <1>2, <1>5, <1>7, <2>1, <2>2, <3>1 DEF Knows, Informed
  <2>4. Knows'
    BY <1>2, <1>7, <2>1, <2>3, LocalKnows DEF Knows
  <2>5. QED BY <1>7, <2>4
<1>8. CASE LastPage(Names, cursor[r]) /\ (changes = {} \/ opt[r].dry) /\ End(r, "ok")
  <2>1. Knows'
    BY <1>2, <1>8, EndKnows
  <2>2. undisturbed[r] /\ ~opt[r].dry => Synced(opt[r])
    BY <1>5, <1>8 DEF Synced, Target
  <2>3. QED BY <2>1, <2>2
<1>9. QED BY <1>2, <1>6, <1>7, <1>8

LEMMA ApplyKnows ==
  ASSUME IInv, Knows, NEW r \in Runs, Apply(r)
  PROVE  Knows'
<1>0. PICK batch, q0 : /\ batch = Batch(plan[r])
                       /\ q0 = [run |-> r, changes |-> batch, opt |-> opt[r], waited |-> TRUE]
  OBVIOUS
<1>1. /\ pc[r] = "apply" /\ requests' = requests \cup {q0}
      /\ plan' = [plan EXCEPT ![r] = @ \ batch] /\ pc' = [pc EXCEPT ![r] = "wait"]
      /\ UNCHANGED <<srv, zone, opt, cursor, seen, existing, answer, result, undisturbed, stable>>
  BY <1>0 DEF Apply
<1>2. batch \subseteq plan[r] /\ q0.run = r /\ q0.changes = batch /\ q0.waited = TRUE
  BY <1>0 DEF Batch
<1>3. pc'[r] = "wait" /\ plan'[r] = plan[r] \ batch
  BY <1>1 DEF IInv, Typed
<1>4. \A x \in Runs \ {r} : pc'[x] = pc[x] /\ plan'[x] = plan[x]
  BY <1>1 DEF IInv, Typed
<1>5. Pending(r)' = Pending(r)
  BY <1>1, <1>2, <1>3, NothingWaited DEF Pending
<1>6. ASSUME NEW x \in Runs \ {r}
      PROVE  Informed(x)'
  <2>1. Pending(x)' = Pending(x)
    BY <1>1, <1>2, <1>4 DEF Pending
  <2>2. QED BY <1>1, <1>4, <2>1, InformedKept DEF Knows
<1>7. Informed(r)'
  <2>1. \A n : Target(r, n)' = Target(r, n) /\ Answerable(opt[r], n)' = Answerable(opt[r], n)
    BY <1>1, WorldKept
  <2>2. QED BY <1>1, <1>3, <1>5, <2>1 DEF Knows, Informed
<1>8. QED BY <1>1, <1>6, <1>7 DEF Knows

\* A run whose last batch is done has changed what was to change.
LEMMA WaitedKnows ==
  ASSUME IInv, Knows, NEW r \in Runs, Waited(r)
  PROVE  /\ Knows'
         /\ result'[r] = "ok" /\ result[r] # "ok" /\ undisturbed[r] => Synced(opt[r])
<1>1. /\ pc[r] = "wait" /\ answer[r] # "none"
      /\ UNCHANGED <<srv, zone, requests, undisturbed, stable>>
      /\ \/ End(r, "failed")
         \/ answer[r] # "refused" /\ plan[r] = {} /\ End(r, "ok")
         \/ /\ answer[r] # "refused" /\ pc' = [pc EXCEPT ![r] = "apply"]
            /\ answer' = [answer EXCEPT ![r] = "none"]
            /\ UNCHANGED <<opt, cursor, seen, existing, plan, result>>
  BY DEF Waited, world
<1>2. \A q \in requests : q.run = r => ~q.waited
  BY <1>1, NothingWaited
<1>3. CASE End(r, "failed")
  BY <1>1, <1>3, EndKnows DEF End, Knows
<1>4. CASE answer[r] # "refused" /\ plan[r] = {} /\ End(r, "ok")
  <2>1. Pending(r) = {}
    BY <1>2, <1>4 DEF Pending
  <2>2. undisturbed[r] => Synced(opt[r])
    BY <1>1, <1>4, <2>1 DEF Knows, Informed, Synced, Target
  <2>3. QED BY <1>1, <1>4, <2>2, EndKnows
<1>5. CASE /\ answer[r] # "refused" /\ pc' = [pc EXCEPT ![r] = "apply"]
           /\ answer' = [answer EXCEPT ![r] = "none"]
           /\ UNCHANGED <<opt, cursor, seen, existing, plan, result>>
  <2>1. Others(r) /\ pc'[r] = "apply" /\ Pending(r)' = Pending(r)
    BY <1>1, <1>5 DEF IInv, Typed, Others, Pending
  <2>2. Informed(r)'
    <3>1. \A n : Target(r, n)' = Target(r, n) /\ Answerable(opt[r], n)' = Answerable(opt[r], n)
      BY <1>1, <1>5, WorldKept
    <3>2. QED BY <1>1, <1>5, <2>1, <3>1 DEF Knows, Informed
  <2>3. Knows'
    BY <1>1, <1>5, <2>1, <2>2, LocalKnows DEF Knows
  <2>4. QED BY <1>5, <2>3
<1>6. QED BY <1>1, <1>3, <1>4, <1>5

LEMMA FailsKnows ==
  ASSUME IInv, Knows, NEW r \in Runs, Fails(r)
  PROVE  Knows'
<1>1. /\ requests' = {[run |-> q.run, changes |-> q.changes, opt |-> q.opt,
                       waited |-> q.waited /\ q.run # r] : q \in requests}
      /\ End(r, "failed") /\ UNCHANGED <<srv, zone, undisturbed, stable>>
  BY DEF Fails
<1>2. Others(r) /\ pc'[r] = "idle"
  BY <1>1, Ended DEF IInv, End, Typed
<1>3. ASSUME NEW x \in Runs \ {r}
      PROVE  Pending(x)' = Pending(x)
  <2>1. ASSUME NEW q \in requests, q.run = x
        PROVE  q \in requests'
    <3>1. /\ q = [run |-> q.run, changes |-> q.changes, opt |-> q.opt, waited |-> q.waited]
          /\ q.waited \in BOOLEAN
      BY DEF IInv, RequestRight
    <3>2. (q.waited /\ q.run # r) = q.waited
      BY <2>1, <3>1
    <3>3. QED BY <1>1, <3>1, <3>2
  <2>2. ASSUME NEW p \in requests', p.run = x
        PROVE  p \in requests
    <3>1. PICK q \in requests : p = [run |-> q.run, changes |-> q.changes, opt |-> q.opt,
                                     waited |-> q.waited /\ q.run # r]
      BY <1>1
    <3>2. /\ q = [run |-> q.run, changes |-> q.changes, opt |-> q.opt, waited |-> q.waited]
          /\ q.waited \in BOOLEAN
      BY DEF IInv, RequestRight
    <3>3. (q.waited /\ q.run # r) = q.waited
      BY <2>2, <3>1, <3>2
    <3>4. p = q
      BY <3>1, <3>2, <3>3
    <3>5. QED BY <3>4
  <2>3. {q \in requests' : q.run = x /\ q.waited} = {q \in requests : q.run = x /\ q.waited}
    BY <2>1, <2>2
  <2>4. QED BY <1>2, <2>3 DEF Pending, Others
<1>4. /\ DOMAIN existing' = Runs /\ DOMAIN result' = Runs
      /\ \A x \in Runs \ {r} : existing'[x] = existing[x]
  BY <1>1 DEF End, Knows
<1>5. ASSUME NEW x \in Runs \ {r}
      PROVE  Informed(x)'
  BY <1>1, <1>2, <1>3, <1>4, InformedKept DEF Knows, Others
<1>6. Informed(r)'
  <2>1. UNCHANGED <<undisturbed, stable>>
    BY <1>1
  <2>2. QED BY <1>2, <2>1 DEF Informed, Knows
<1>7. QED BY <1>1, <1>4, <1>5, <1>6 DEF Knows

\* A batch that is executed makes the changes that were pending in it; after one
\* that is refused the run knows nothing more.
LEMMA ExecuteKnows ==
  ASSUME IInv, Knows, NEW q \in requests, Execute(q)
  PROVE  Knows'
<1>0. PICK ok \in BOOLEAN : ok = \A c \in q.changes : zone[c.name] = c.from
  OBVIOUS
<1>1. /\ requests' = requests \ {q}
      /\ UNCHANGED <<srv, pc, opt, cursor, seen, existing, plan, result, stable>>
      /\ \A n \in Name :
           \/ zone'[n] = zone[n] /\ (ok => \A c \in q.changes : c.name # n)
           \/ ok /\ \E c \in q.changes : c.name = n /\ zone'[n] = c.to
  <2>1. /\ requests' = requests \ {q}
        /\ UNCHANGED <<srv, pc, opt, cursor, seen, existing, plan, result, stable>>
        /\ \A n \in Name : zone'[n] = IF ok /\ \E c \in q.changes : c.name = n
                                      THEN (CHOOSE c \in q.changes : c.name = n).to ELSE zone[n]
    BY <1>0 DEF Execute
  <2>2. ASSUME NEW n \in Name, ok, NEW d \in q.changes, d.name = n
        PROVE  \E c \in q.changes : c.name = n /\ zone'[n] = c.to
    <3>1. PICK c : c = CHOOSE x \in q.changes : x.name = n
      OBVIOUS
    <3>2. c \in q.changes /\ c.name = n
      BY <2>2, <3>1
    <3>3. zone'[n] = c.to
      BY <2>1, <2>2, <3>1
    <3>4. QED BY <3>2, <3>3
  <2>3. ASSUME NEW n \in Name
        PROVE  \/ zone'[n] = zone[n] /\ (ok => \A c \in q.changes : c.name # n)
               \/ ok /\ \E c \in q.changes : c.name = n /\ zone'[n] = c.to
    <3>1. CASE ok /\ \E c \in q.changes : c.name = n
      <4>1. PICK d \in q.changes : d.name = n
        BY <3>1
      <4>2. QED BY <2>2, <3>1, <4>1
    <3>2. CASE ~(ok /\ \E c \in q.changes : c.name = n)
      <4>1. zone'[n] = zone[n]
        BY <2>1, <3>2
      <4>2. QED BY <3>2, <4>1
    <3>3. QED BY <3>1, <3>2
  <2>4. QED BY <2>1, <2>3
<1>2. /\ undisturbed' = IF ~ok THEN undisturbed
                        ELSE [x \in Runs |-> undisturbed[x] /\ x = q.run /\ q.waited]
      /\ answer' = IF q.waited
                   THEN [answer EXCEPT ![q.run] = IF ok THEN "applied" ELSE "refused"]
                   ELSE answer
  BY <1>0 DEF Execute
<1>3. q.run \in Runs /\ q.waited \in BOOLEAN /\ (q.waited => pc[q.run] = "wait" /\ answer[q.run] = "none")
  BY DEF IInv, RequestRight
<1>4. undisturbed' \in [Runs -> BOOLEAN]
  BY <1>2, <1>3 DEF Knows
<1>5. \A x \in Runs : Pending(x)' \subseteq Pending(x)
  BY <1>1 DEF Pending
<1>6. ASSUME NEW x \in Runs, ~ok
      PROVE  Informed(x)'
  <2>1. undisturbed' = undisturbed /\ \A n \in Name : zone'[n] = zone[n]
    BY <1>1, <1>2, <1>6
  <2>2. CASE q.waited /\ x = q.run
    <3>1. answer'[x] = "refused"
      BY <1>2, <1>6, <2>2 DEF IInv, Typed
    <3>2. QED BY <1>1, <1>5, <2>1, <3>1, InformedKept DEF Knows
  <2>3. CASE ~(q.waited /\ x = q.run)
    <3>1. answer'[x] = answer[x]
      BY <1>2, <1>3, <2>3 DEF IInv, Typed
    <3>2. Pending(x)' = Pending(x)
      BY <1>1, <2>3 DEF Pending
    <3>3. QED BY <1>1, <2>1, <3>1, <3>2, InformedKept DEF Knows
  <2>4. QED BY <2>2, <2>3
<1>7. ASSUME NEW x \in Runs, ok
      PROVE  Informed(x)'
  <2>1. SUFFICES ASSUME undisturbed'[x] PROVE Informed(x)'
    BY DEF Informed
  <2>2. undisturbed[x] /\ x = q.run /\ q.waited
    BY <1>2, <1>7, <2>1
  <2>3. /\ pc[x] = "wait" /\ answer[x] = "none" /\ stable[x] = Server
        /\ \A c \in Pending(x) : c.to = Target(x, c.name)
        /\ \A n \in Name : Answerable(opt[x], n) =>
             zone[n] = Target(x, n) \/ \E c \in Pending(x) : c.name = n
    BY <1>3, <2>2 DEF Knows, Informed
  <2>4. \A p \in requests : p.run = x /\ p.waited => p = q
    BY <2>2 DEF IInv, OneWaited
  <2>5. Pending(x)' = plan[x] /\ Pending(x) = plan[x] \cup q.changes
    BY <1>1, <2>2, <2>4 DEF Pending
  <2>6. ASSUME NEW n \in Name, Answerable(opt[x], n)
        PROVE  zone'[n] = Target(x, n) \/ \E c \in plan[x] : c.name = n
    BY <1>1, <1>7, <2>3, <2>5, <2>6
  <2>7. \A n : Target(x, n)' = Target(x, n) /\ Answerable(opt[x], n)' = Answerable(opt[x], n)
    BY <1>1, WorldKept
  <2>8. QED BY <1>1, <2>3, <2>5, <2>6, <2>7 DEF Informed
<1>8. QED BY <1>1, <1>4, <1>6, <1>7 DEF Knows

LEMMA SurroundingsKnows ==
  ASSUME IInv, Knows, Surroundings
  PROVE  Knows'
<1>1. undisturbed' = [x \in Runs |-> FALSE] /\ UNCHANGED <<existing, result>>
  BY DEF Surroundings, local
<1>2. QED BY <1>1 DEF Knows, Informed

LEMMA NextKnows ==
  ASSUME IInv, Knows, [Next]_vars
  PROVE  Knows'
<1>1. CASE \E r \in Runs, o \in Options \cup {FullRun} : Start(r, o)
  BY <1>1, StartKnows
<1>2. CASE \E r \in Runs : RunStep(r) \/ Fails(r)
  BY <1>2, ListServersKnows, ListRecordsKnows, ApplyKnows, WaitedKnows, FailsKnows DEF RunStep
<1>3. CASE \E q \in requests : Execute(q)
  BY <1>3, ExecuteKnows
<1>4. CASE Surroundings
  BY <1>4, SurroundingsKnows
<1>5. CASE UNCHANGED vars
  <2>1. UNCHANGED <<srv, zone, requests, pc, opt, cursor, seen, existing, plan, answer, result,
                    undisturbed, stable>>
    BY <1>5 DEF vars, world, local
  <2>2. ASSUME NEW r \in Runs
        PROVE  Informed(r)'
    <3>1. Pending(r)' = Pending(r)
      BY <2>1 DEF Pending
    <3>2. QED BY <2>1, <3>1, InformedKept DEF Knows
  <2>3. QED BY <2>1, <2>2 DEF Knows
<1>6. QED BY <1>1, <1>2, <1>3, <1>4, <1>5 DEF Next

LEMMA InitKnows == Init => Knows
BY DEF Init, Knows, Informed

\* How a run may end well.
LEMMA OnlyTheseEnd ==
  ASSUME Knows, Next, NEW r \in Runs, result[r] = "none", result'[r] = "ok"
  PROVE  ListRecords(r) \/ Waited(r)
<1>1. CASE \E x \in Runs, o \in Options \cup {FullRun} : Start(x, o)
  BY <1>1 DEF Start, Knows
<1>2. CASE \E x \in Runs : Fails(x)
  BY <1>2 DEF Fails, End, Knows
<1>3. CASE \E x \in Runs : ListServers(x)
  BY <1>3 DEF ListServers, End, Knows
<1>4. CASE \E x \in Runs : Apply(x)
  BY <1>4 DEF Apply
<1>5. CASE \E x \in Runs : ListRecords(x) \/ Waited(x)
  <2>1. PICK x \in Runs : ListRecords(x) \/ Waited(x)
    BY <1>5
  <2>2. \A y \in Runs \ {x} : result'[y] = result[y]
    BY <2>1 DEF ListRecords, Waited, End, Knows
  <2>3. x = r
    BY <2>2
  <2>4. QED BY <2>1, <2>3
<1>6. CASE \E q \in requests : Execute(q)
  BY <1>6 DEF Execute
<1>7. CASE Surroundings
  BY <1>7 DEF Surroundings, local
<1>8. QED BY <1>1, <1>2, <1>3, <1>4, <1>5, <1>6, <1>7 DEF Next, RunStep

(***************************************************************************)
(* The addresses of the servers                                            *)
(***************************************************************************)
LEMMA InitApart == Init => OwnAddresses
<1> SUFFICES ASSUME Init PROVE OwnAddresses
  OBVIOUS
<1>1. srv \in InitServers
  BY DEF Init
<1>2. DOMAIN srv = Server
  BY <1>1, PrivateDnsAssumption DEF Server
<1>3. ASSUME NEW s \in Server
      PROVE  srv[s] = [state |-> srv[s].state, addr |-> srv[s].addr] /\ Apart(srv[s].addr)
  <2>1. /\ srv[s] = [state |-> srv[s].state, addr |-> srv[s].addr]
        /\ srv[s].addr \in [DOMAIN srv[s].addr -> Addresses \cup {NoAddress}]
        /\ \A p, q \in DOMAIN srv[s].addr :
             srv[s].addr[p] = srv[s].addr[q] => p = q \/ srv[s].addr[p] = NoAddress
    BY <1>1, <1>2, PrivateDnsAssumption
  <2>2. QED BY <2>1 DEF Apart
<1>4. QED BY <1>2, <1>3 DEF OwnAddresses

\* An address that a port gets is one that no port has.
LEMMA SetApart ==
  ASSUME OwnAddresses, NEW s \in Server, NEW p, NEW a, Free(a), SetAddress(s, p, a)
  PROVE  OwnAddresses'
<1>1. srv[s] = [state |-> srv[s].state, addr |-> srv[s].addr] /\ Apart(srv[s].addr) /\ DOMAIN srv = Server
  BY DEF OwnAddresses
<1>2. PICK addr : addr = srv[s].addr
  OBVIOUS
<1>3. /\ srv' = [srv EXCEPT ![s].addr[p] = a]
      /\ p \in DOMAIN addr /\ (a = NoAddress \/ a \notin Range(addr))
  BY <1>2 DEF SetAddress, Free
<1>4. srv'[s] = [state |-> srv[s].state, addr |-> [addr EXCEPT ![p] = a]]
  BY <1>1, <1>2, <1>3
<1>5. Apart([addr EXCEPT ![p] = a])
  <2>1. \A q \in DOMAIN addr : addr[q] = a => a = NoAddress
    BY <1>3 DEF Range
  <2>2. QED BY <1>1, <1>2, <1>3, <2>1 DEF Apart
<1>6. \A t \in Server \ {s} : srv'[t] = srv[t]
  BY <1>1, <1>3
<1>7. DOMAIN srv' = Server
  BY <1>1, <1>3
<1>8. srv'[s] = [state |-> srv'[s].state, addr |-> srv'[s].addr] /\ Apart(srv'[s].addr)
  BY <1>4, <1>5
<1>9. \A t \in Server \ {s} :
        srv'[t] = [state |-> srv'[t].state, addr |-> srv'[t].addr] /\ Apart(srv'[t].addr)
  BY <1>6 DEF OwnAddresses
<1>10. QED BY <1>7, <1>8, <1>9 DEF OwnAddresses

LEMMA AddPortApart ==
  ASSUME OwnAddresses, NEW s \in Server, NEW p, AddPort(s, p)
  PROVE  OwnAddresses'
<1>1. srv[s] = [state |-> srv[s].state, addr |-> srv[s].addr] /\ Apart(srv[s].addr) /\ DOMAIN srv = Server
  BY DEF OwnAddresses
<1>2. PICK addr : addr = [x \in DOMAIN srv[s].addr \cup {p} |->
                            IF x = p THEN NoAddress ELSE srv[s].addr[x]]
  OBVIOUS
<1>3. srv' = [srv EXCEPT ![s].addr = addr] /\ p \notin DOMAIN srv[s].addr
  BY <1>2 DEF AddPort
<1>4. srv'[s] = [state |-> srv[s].state, addr |-> addr]
  BY <1>1, <1>3
<1>5. Apart(addr)
  BY <1>1, <1>2, <1>3 DEF Apart
<1>6. DOMAIN srv' = Server /\ \A t \in Server \ {s} : srv'[t] = srv[t]
  BY <1>1, <1>3
<1>7. QED BY <1>4, <1>5, <1>6 DEF OwnAddresses

LEMMA LeaveApart ==
  ASSUME OwnAddresses, NEW s \in Server, Leave(s)
  PROVE  OwnAddresses'
<1>1. srv[s] = [state |-> srv[s].state, addr |-> srv[s].addr] /\ Apart(srv[s].addr) /\ DOMAIN srv = Server
  BY DEF OwnAddresses
<1>2. srv' = [srv EXCEPT ![s] = IF @.state = "active" THEN [@ EXCEPT !.state = "deleting"] ELSE Absent]
  BY DEF Leave
<1>3. \/ srv'[s] = [state |-> "deleting", addr |-> srv[s].addr]
      \/ srv'[s] = [state |-> "absent", addr |-> << >>]
  BY <1>1, <1>2 DEF Absent
<1>4. Apart(<< >>)
  BY DEF Apart
<1>5. DOMAIN srv' = Server /\ \A t \in Server \ {s} : srv'[t] = srv[t]
  BY <1>1, <1>2
<1>6. srv'[s] = [state |-> srv'[s].state, addr |-> srv'[s].addr] /\ Apart(srv'[s].addr)
  BY <1>1, <1>3, <1>4
<1>7. QED BY <1>5, <1>6 DEF OwnAddresses

LEMMA JoinApart ==
  ASSUME OwnAddresses, NEW s \in Server, NEW p, NEW a, Join(s, p, a)
  PROVE  OwnAddresses'
<1>1. DOMAIN srv = Server
  BY DEF OwnAddresses
<1>2. srv' = [srv EXCEPT ![s] = [state |-> "active", addr |-> [x \in {p} |-> a]]]
  BY DEF Join
<1>3. Apart([x \in {p} |-> a])
  BY DEF Apart
<1>4. QED BY <1>1, <1>2, <1>3 DEF OwnAddresses

LEMMA NextApart ==
  ASSUME OwnAddresses, [Next]_vars
  PROVE  OwnAddresses'
<1>1. CASE Surroundings
  <2>1. CASE \E s \in Server, p \in Ports, a \in Addresses \cup {NoAddress} :
               Free(a) /\ (SetAddress(s, p, a) \/ Join(s, p, a))
    BY <2>1, SetApart, JoinApart
  <2>2. CASE \E s \in Server, p \in Ports : AddPort(s, p)
    BY <2>2, AddPortApart
  <2>3. CASE \E s \in Server : Leave(s)
    BY <2>3, LeaveApart
  <2>4. CASE \E n \in Name, rec \in Edits \cup {NoRecord} : EditRecord(n, rec)
    BY <2>4 DEF EditRecord, OwnAddresses
  <2>5. QED BY <1>1, <2>1, <2>2, <2>3, <2>4 DEF Surroundings
<1>2. CASE UNCHANGED srv
  BY <1>2 DEF OwnAddresses
<1>3. [Next]_vars => Surroundings \/ UNCHANGED srv
  BY DEF Next, Start, RunStep, ListServers, ListRecords, Apply, Waited, Fails, Execute, world, vars
<1>4. QED BY <1>1, <1>2, <1>3

(***************************************************************************)
(* What follows from it                                                    *)
(***************************************************************************)
\* A record changes only by a batch, and as the batch says, or by hand.
LEMMA RecordChanges ==
  ASSUME Next, NEW q \in Executed, NEW n \in Name, zone'[n] # zone[n]
  PROVE  \E c \in q.changes : c.name = n /\ zone'[n] = c.to
<1>1. CASE \E p \in requests : Execute(p)
  <2>1. PICK p \in requests : Execute(p)
    BY <1>1
  <2>2. p = q
    BY <2>1 DEF Execute, Executed
  <2>3. /\ \E c \in q.changes : c.name = n
        /\ zone'[n] = (CHOOSE c \in q.changes : c.name = n).to
    BY <2>1, <2>2 DEF Execute
  <2>4. QED BY <2>3
<1>2. CASE Surroundings
  BY <1>2 DEF Surroundings, Executed
<1>3. CASE \/ \E r \in Runs, o \in Options \cup {FullRun} : Start(r, o)
           \/ \E r \in Runs : RunStep(r) \/ Fails(r)
  BY <1>3 DEF Start, RunStep, ListServers, ListRecords, Apply, Waited, Fails, world
<1>4. QED BY <1>1, <1>2, <1>3 DEF Next

\* A run changes no record but its own names, deletes none with --no-prune,
\* and with --filter deletes only those of servers the filter matches.
THEOREM OwnRecords == Spec => OwnRecordsOnly
<1> DEFINE Good == \A q \in Executed, n \in Name : zone'[n] # zone[n] =>
                     /\ n \in {<<l, p>> : l \in Labels, p \in Range(PrefixList)}
                     /\ zone'[n] = NoRecord =>
                          /\ q.opt.prune
                          /\ q.opt.filtered => \E s \in Selected : n[1] = LabelOf[s]
<1>1. IInv /\ [Next]_vars => [Good]_vars
  <2> SUFFICES ASSUME IInv, Next, NEW q \in Executed, NEW n \in Name, zone'[n] # zone[n]
               PROVE  /\ n \in {<<l, p>> : l \in Labels, p \in Range(PrefixList)}
                      /\ zone'[n] = NoRecord =>
                           /\ q.opt.prune
                           /\ q.opt.filtered => \E s \in Selected : n[1] = LabelOf[s]
    OBVIOUS
  <2>1. PICK c \in q.changes : c.name = n /\ zone'[n] = c.to
    BY RecordChanges
  <2>2. Own(c, q.opt)
    BY DEF IInv, RequestRight, Executed
  <2>3. QED BY <2>1, <2>2 DEF Own
<1>2. IInv /\ [Next]_vars => IInv'
  BY NextKeeps
<1>3. QED BY <1>1, <1>2, InitRight, PTL DEF Spec, OwnRecordsOnly

\* Whatever the pages, the batches, the options and the other runs: no batch
\* that is waited for takes away or spoils the record of a server that has
\* been there, under a name of its own, since the run began.
THEOREM LiveServersKept == Spec => LiveKept
<1> DEFINE Good == \A q \in Executed : \A s \in stable[q.run], i \in DOMAIN PrefixList :
                     LET a == Published(srv, s, i)
                     IN  q.waited /\ srv[s].state = "active" /\ OnlyOfItsName(s, q.run)
                         /\ a # NoAddress =>
                           \A n \in Name : n = <<LabelOf[s], PrefixList[i]>> =>
                             zone'[n] \in {zone[n], Record(a)}
<1>1. IInv /\ [Next]_vars => [Good]_vars
  <2> SUFFICES ASSUME IInv, Next, NEW q \in Executed, NEW s \in stable[q.run],
                      NEW i \in DOMAIN PrefixList, q.waited, srv[s].state = "active",
                      OnlyOfItsName(s, q.run), Published(srv, s, i) # NoAddress,
                      NEW n \in Name, n = <<LabelOf[s], PrefixList[i]>>, zone'[n] # zone[n]
               PROVE  zone'[n] = Record(Published(srv, s, i))
    OBVIOUS
  <2>1. PICK c \in q.changes : c.name = n /\ zone'[n] = c.to
    BY RecordChanges
  <2>2. Faithful(c, srv, stable[q.run])
    BY DEF IInv, RequestRight, Executed
  <2>3. Alone(s, srv, stable[q.run])
    BY DEF Alone, OnlyOfItsName
  <2>4. QED BY <2>1, <2>2, <2>3 DEF Faithful
<1>2. IInv /\ [Next]_vars => IInv'
  BY NextKeeps
<1>3. QED BY <1>1, <1>2, InitRight, PTL DEF Spec, LiveKept

\* A run that ends well, and during which nobody else changed the servers or
\* the zone, leaves every record it answers for as the servers want it:
\* whatever the pages and the batches, and whichever other runs go on.
THEOREM DoneIsSynced == Spec => DoneMeansSynced
<1> DEFINE Good == \A r \in Runs :
                     result[r] = "none" /\ result'[r] = "ok" /\ undisturbed[r] /\ ~opt[r].dry
                       => Synced(opt[r])
<1>1. IInv /\ Knows /\ [Next]_vars => [Good]_vars
  <2> SUFFICES ASSUME IInv, Knows, Next, NEW r \in Runs, result[r] = "none", result'[r] = "ok",
                      undisturbed[r], ~opt[r].dry
               PROVE  Synced(opt[r])
    OBVIOUS
  <2>1. ListRecords(r) \/ Waited(r)
    BY OnlyTheseEnd
  <2>2. QED BY <2>1, ListRecordsKnows, WaitedKnows
<1>2. IInv /\ Knows /\ [Next]_vars => IInv' /\ Knows'
  BY NextKeeps, NextKnows
<1>3. QED BY <1>1, <1>2, InitRight, InitKnows, PTL DEF Spec, DoneMeansSynced

\* The address of a port stays under its name, and no other name gets it, while
\* the ports of the server stay the same.
THEOREM NamesStay == Spec => NamesDoNotShift
<1> DEFINE Good == \A s \in Server : DOMAIN srv'[s].addr = DOMAIN srv[s].addr =>
                     \A p \in DOMAIN srv[s].addr : srv[s].addr[p] = srv'[s].addr[p] =>
                       \A i \in DOMAIN PrefixList :
                         srv[s].addr[p] # NoAddress =>
                           ((Published(srv, s, i) = srv[s].addr[p])
                              <=> (Published(srv, s, i)' = srv[s].addr[p]))
<1>1. OwnAddresses /\ OwnAddresses' => Good
  <2> SUFFICES ASSUME OwnAddresses, OwnAddresses', NEW s \in Server,
                      DOMAIN srv'[s].addr = DOMAIN srv[s].addr,
                      NEW p \in DOMAIN srv[s].addr, srv[s].addr[p] = srv'[s].addr[p],
                      NEW i \in DOMAIN PrefixList, srv[s].addr[p] # NoAddress
               PROVE  (Published(srv, s, i) = srv[s].addr[p])
                        <=> (Published(srv, s, i)' = srv[s].addr[p])
    OBVIOUS
  <2>1. PICK slots : slots = Slots(DOMAIN srv[s].addr, i)
    OBVIOUS
  <2>2. PICK port : port = CHOOSE q \in slots : TRUE
    OBVIOUS
  <2>3. /\ Published(srv, s, i) = IF slots = {} THEN NoAddress ELSE srv[s].addr[port]
        /\ Published(srv, s, i)' = IF slots = {} THEN NoAddress ELSE srv'[s].addr[port]
    BY <2>1, <2>2 DEF Published
  <2>4. slots # {} => port \in DOMAIN srv[s].addr
    BY <2>1, <2>2 DEF Slots
  <2>5. ASSUME slots # {}
        PROVE  /\ srv[s].addr[port] = srv[s].addr[p] <=> port = p
               /\ srv'[s].addr[port] = srv[s].addr[p] <=> port = p
    <3>1. \A q \in DOMAIN srv[s].addr : srv[s].addr[q] = srv[s].addr[p] => q = p
      BY DEF OwnAddresses, Apart
    <3>2. \A q \in DOMAIN srv[s].addr : srv'[s].addr[q] = srv'[s].addr[p] => q = p
      BY DEF OwnAddresses, Apart
    <3>3. QED BY <2>4, <2>5, <3>1, <3>2
  <2>6. QED BY <2>3, <2>5
<1>2. OwnAddresses /\ [Next]_vars => OwnAddresses'
  BY NextApart
<1>3. QED BY <1>1, <1>2, InitApart, PTL DEF Spec, NamesDoNotShift

=============================================================================
