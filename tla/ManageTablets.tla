--------------------------- MODULE ManageTablets ---------------------------
(***************************************************************************)
(* admin/viewer/manage_tablets.py: stop or start the tablets of the        *)
(* objects of a kind under a prefix.  A run walks the directories, looks   *)
(* below the tables for indexes and changefeeds, reads the tablets of each *)
(* object in a thread pool, and asks Hive to stop or start each tablet in  *)
(* another pool.  The database changes meanwhile; any request may fail     *)
(* after its retries, and the answer of Hive may be lost.                  *)
(***************************************************************************)
EXTENDS SchemeShard

CONSTANTS
  Cases,      \* what a run may be asked for, the paths there are at first, and
              \* bounds: changes of the database, failed requests and lost answers
  SysDirs,    \* directories whose name begins with a dot
  Threads     \* --threads

\* --type
SelectableKinds == {"TOPIC", "TABLE", "COLUMN_STORE", "COLUMN_TABLE"}
Option == [action : {"stop", "start"}, kinds : SUBSET SelectableKinds, prefix : Path,
           sys : BOOLEAN, wait : BOOLEAN, dry : BOOLEAN, hiveId : BOOLEAN, retries : Nat \ {0}]

ASSUME ManageAssumption ==
  /\ SysDirs \subseteq {p \in Path : KindOf[p] \in Holders}
  /\ \A c \in Cases :
       /\ c.opt \in Option /\ c.changes \in Nat /\ c.faults \in Nat /\ c.here \subseteq Path
       /\ \A p \in c.here : \A n \in 0..Len(p) : SubSeq(p, 1, n) \in c.here
  /\ Threads \in Nat \ {0}

VARIABLES
  asked, pc, status,
  queue,       \* directories to list
  objects,     \* paths whose tablets are wanted
  nested,      \* nested[p]: below the table p, what is still to be described
  errors,      \* listing_errors and describe_errors: the paths
  task,        \* task[p]: of the pool that reads tablets
  collected,   \* <<path, tablet>>
  walk,        \* the walk over SchemeShard of the thread with _HIDDEN_LOCK
  cache,       \* _HIDDEN_CACHE
  act,         \* act[x]: of the pool that asks Hive, for each target
  accepted,    \* --no-wait: what Hive has accepted and not done yet
  faults,      \* what is left of asked.faults
  readFailed,  \* history: a request for a page has failed
  untouched,   \* history: the paths there have been since the run began
  denied       \* history: paths said to have no shards while they had some

opt == asked.opt
finding == <<queue, objects, nested, errors>>
reading == <<task, collected, walk, cache, denied>>
acting == <<act, accepted>>
run == <<asked, pc, status, finding, reading, acting, readFailed>>
vars == <<scheme, hive, run, faults, untouched>>

(***************************************************************************)
(* Prefixes and kinds                                                      *)
(***************************************************************************)
DirectoryTypes == {"DIRECTORY", "COLUMN_STORE"}

MatchesPrefix(p) == IsPrefix(opt.prefix, p)
Intersects(p) == IsPrefix(opt.prefix, p) \/ IsPrefix(p, opt.prefix)
WantCdc == "TOPIC" \in opt.kinds
WantIndexTablets == "TABLE" \in opt.kinds
Selects(p) == KindOf[p] \in opt.kinds /\ MatchesPrefix(p)

NoWalk == [by |-> {}, txs |-> {}, slots |-> {}, map |-> << >>]
NoCache == [error |-> FALSE, map |-> << >>, filled |-> FALSE]
None == [p \in {} |-> {}]

Init ==
  /\ \E c \in Cases : asked = c /\ faults = c.faults /\ SchemeInit(c.here, c.changes)
  /\ pc = "hive" /\ status = "none"
  /\ queue = << >> /\ objects = {} /\ nested = None /\ errors = {}
  /\ task = None /\ collected = {} /\ walk = NoWalk /\ cache = NoCache
  /\ act = None /\ accepted = {} /\ readFailed = FALSE
  /\ untouched = {p \in Path : here[p] = "yes"} /\ denied = {}

Spend == faults > 0 /\ faults' = faults - 1 /\ readFailed' = TRUE
Keep == UNCHANGED <<faults, readFailed>>
Quiet == UNCHANGED <<scheme, hive, untouched, asked>>

(***************************************************************************)
(* Discovery                                                               *)
(***************************************************************************)
\* main: the describe of the database, a single attempt, which names the Hive;
\* --hive-id does without it.
ResolveHive ==
  /\ pc = "hive"
  /\ \/ pc' = "start" /\ status' = status /\ Keep
     \/ ~opt.hiveId /\ pc' = "exit" /\ status' = "1" /\ Spend
  /\ Quiet /\ UNCHANGED <<finding, reading, acting>>

\* resolve_start_path: the deepest directory on the way to the prefix that can
\* be listed; a listing that fails makes it a directory above.
ResolveStartPath ==
  LET ways == {p \in Path : /\ IsPrefix(p, opt.prefix)
                            /\ \/ p = << >>
                               \/ Visible(p) /\ KindOf[p] \in DirectoryTypes}
      deepest == CHOOSE p \in ways : \A q \in ways : Len(q) <= Len(p)
  IN  /\ pc = "start" /\ pc' = "walk"
      /\ \E p \in ways : queue' = <<p>> /\ IF p = deepest THEN Keep ELSE Spend
      /\ Quiet /\ UNCHANGED <<status, objects, nested, errors, reading, acting>>

Descends(p) ==
  KindOf[p] \in DirectoryTypes /\ (opt.sys \/ p \notin SysDirs) /\ Intersects(p)

\* collect_objects: one directory of the queue.
ListDirectory ==
  LET p == Head(queue)
      children == {q \in listed : q # << >> /\ Front(q) = p}
  IN  /\ pc = "walk" /\ queue # << >>
      /\ \/ /\ Visible(p) /\ Keep /\ UNCHANGED errors
            /\ objects' = objects \cup {q \in children \cup {p} : Selects(q)}
            /\ nested' = [q \in DOMAIN nested \cup
                                {q \in children : /\ WantCdc \/ WantIndexTablets
                                                  /\ KindOf[q] = "TABLE" /\ Intersects(q)} |-> <<q>>]
            /\ queue' = Tail(queue) \o SetToSeq({q \in children : Descends(q)})
         \/ /\ IF Visible(p) THEN Spend ELSE Keep
            /\ errors' = errors \cup {p} /\ queue' = Tail(queue)
            /\ UNCHANGED <<objects, nested>>
      /\ Quiet /\ UNCHANGED <<pc, status, reading, acting>>

\* What a describe of p adds to the objects, and what has to be described
\* next: cdc_topics_under, index_impl_paths, pq_children_of_stream.
Impls(p) == {q \in Children(p) : KindOf[q] = "TABLE"}
Finds(p) ==
  CASE KindOf[p] = "TABLE_INDEX" -> {q \in Impls(p) : WantIndexTablets /\ MatchesPrefix(q)}
    [] KindOf[p] = "CDC_STREAM" ->
         LET topics == {q \in Children(p) : KindOf[q] = "TOPIC"}
             impl == Append(p, "streamImpl")
         IN  {q \in (IF Children(p) = {} THEN {impl} ELSE topics) : MatchesPrefix(q)}
    [] OTHER -> {}

\* Mutant of Below: the changefeeds of an index are forgotten.
BelowTableOnly(table, p) ==
  IF KindOf[p] # "TABLE" THEN << >>
  ELSE SetToSeq({q \in Children(p) : KindOf[q] = "CDC_STREAM" /\ WantCdc /\ Intersects(q)})
       \o SetToSeq({q \in Children(p) : p = table /\ KindOf[q] = "TABLE_INDEX" /\ Intersects(q)})
Below(table, p) ==
  CASE KindOf[p] = "TABLE" ->
         SetToSeq({q \in Children(p) : KindOf[q] = "CDC_STREAM" /\ WantCdc /\ Intersects(q)})
         \o SetToSeq({q \in Children(p) : p = table /\ KindOf[q] = "TABLE_INDEX" /\ Intersects(q)})
    [] KindOf[p] = "TABLE_INDEX" -> SetToSeq({q \in Impls(p) : WantCdc /\ Intersects(q)})
    [] OTHER -> << >>

\* discover_nested_for_table: the next describe below one table.
DiscoverNested(table) ==
  LET p == Head(nested[table])
  IN  /\ pc = "walk" /\ queue = << >> /\ nested[table] # << >>
      /\ \/ /\ Visible(p) /\ Keep /\ UNCHANGED errors
            /\ objects' = objects \cup Finds(p)
            /\ nested' = [nested EXCEPT ![table] = Below(table, p) \o Tail(@)]
         \/ /\ IF Visible(p) THEN Spend ELSE Keep
            /\ errors' = errors \cup {p} /\ nested' = [nested EXCEPT ![table] = Tail(@)]
            /\ UNCHANGED objects
      /\ Quiet /\ UNCHANGED <<pc, status, queue, reading, acting>>

\* merge_objects, and the pool that reads tablets.
BeginReading ==
  /\ pc = "walk" /\ queue = << >> /\ \A p \in DOMAIN nested : nested[p] = << >>
  /\ pc' = "read" /\ task' = [p \in objects |-> "todo"]
  /\ Quiet /\ Keep /\ UNCHANGED <<status, finding, collected, walk, cache, denied, acting>>

(***************************************************************************)
(* The tablets of one object: collect_tablets_for_object                   *)
(***************************************************************************)
Finished(p, tablets) ==
  /\ task' = [task EXCEPT ![p] = "done"]
  /\ collected' = collected \cup {<<p, t>> : t \in tablets}
Reading == pc = "read" /\ Quiet /\ UNCHANGED <<pc, status, queue, objects, nested, acting>>

Describe(p) ==
  /\ Reading /\ task[p] = "todo"
  /\ Cardinality({q \in objects : task[q] = "hidden"}) < Threads
  /\ \/ Visible(p) /\ Finished(p, shards[p]) /\ Keep /\ UNCHANGED errors
     \/ /\ Visible(p) /\ Finished(p, {}) /\ Spend /\ errors' = errors \cup {p}
     \/ /\ ~Visible(p) /\ task' = [task EXCEPT ![p] = "hidden"] /\ Keep
        /\ UNCHANGED <<collected, errors>>
  /\ UNCHANGED <<walk, cache, denied>>

\* tablets_when_describe_hides_path: what the map says of the path.
Fallback(p, map) ==
  LET found == IF p \in DOMAIN map THEN map[p] ELSE {}
  IN  /\ Finished(p, found)
      /\ errors' = IF found = {} THEN errors \cup {p} ELSE errors
      /\ denied' = IF found = {} /\ shards[p] # {} THEN denied \cup {p} ELSE denied

\* hidden_tablets_by_path with the lock: the cache, or the first request of
\* fetch_inflight_tablets.
UseCache(p) ==
  /\ Reading /\ task[p] = "hidden" /\ walk = NoWalk /\ cache.filled
  /\ IF cache.error THEN Finished(p, {}) /\ errors' = errors \cup {p} /\ denied' = denied
     ELSE Fallback(p, cache.map)
  /\ Keep /\ UNCHANGED <<walk, cache>>

BeginWalk(p) ==
  /\ Reading /\ task[p] = "hidden" /\ walk = NoWalk /\ ~cache.filled
  /\ walk' = [by |-> {p}, txs |-> InFlight, slots |-> {}, map |-> None]
  /\ Keep /\ UNCHANGED <<task, collected, cache, errors, denied>>

\* A failure anywhere ends the walk, for this thread and, by the cache, for
\* every later one.
WalkFails ==
  /\ Reading /\ walk # NoWalk /\ Spend
  /\ \E p \in walk.by : Finished(p, {}) /\ errors' = errors \cup {p}
  /\ walk' = NoWalk /\ cache' = [error |-> TRUE, map |-> None, filled |-> TRUE]
  /\ UNCHANGED denied

\* Mutant of Backup: the tablets in progress count for every path of the operation.
BackupOfAny(o) == o.left
\* The tablets in progress are those of the path only if there is one.
Backup(o) == IF Cardinality(o.refs) = 1 THEN o.left ELSE {}

\* Page=TxInfo of one operation; one that has left is skipped.
ReadTx(p) ==
  /\ Reading /\ p \in walk.txs
  /\ walk' = [walk EXCEPT !.txs = @ \ {p},
                !.slots = @ \cup {[path |-> q, tx |-> p, backup |-> Backup(op[p])] :
                                    q \in op[p].refs}]
  /\ Keep /\ UNCHANGED <<task, collected, cache, errors, denied>>

\* Page=PathInfo of one path.
ReadPath(p) ==
  LET mine == {s \in walk.slots : s.path = p}
      backups == {s \in mine : s.backup # {}}
      found == IF shards[p] # {} THEN shards[p]
               ELSE IF Cardinality(mine) = 1 THEN UNION {s.backup : s \in backups} ELSE {}
  IN  /\ Reading /\ walk.txs = {} /\ mine # {}
      /\ walk' = [walk EXCEPT !.slots = @ \ mine,
                    !.map = [q \in DOMAIN @ \cup {p} |-> IF q = p THEN found ELSE @[q]]]
      /\ Keep /\ UNCHANGED <<task, collected, cache, errors, denied>>

EndWalk ==
  /\ Reading /\ walk # NoWalk /\ walk.txs = {} /\ walk.slots = {}
  /\ cache' = [error |-> FALSE, map |-> walk.map, filled |-> TRUE]
  /\ \E p \in walk.by : Fallback(p, walk.map)
  /\ walk' = NoWalk /\ Keep

(***************************************************************************)
(* Hive                                                                    *)
(***************************************************************************)
\* Mutant of Dedupe: every target of every object.
DedupeNot(targets) == targets
\* dedupe_targets: one target for each tablet.
Dedupe(targets) ==
  {CHOOSE x \in targets : x[2] = t : t \in {x[2] : x \in targets}}

\* The pool that asks Hive, or the end of a dry run.
BeginActing ==
  /\ pc = "read" /\ \A p \in objects : task[p] = "done"
  /\ IF opt.dry THEN pc' = "exit" /\ act' = act /\ status' = IF errors = {} THEN "0" ELSE "2"
     ELSE /\ pc' = "act" /\ status' = status
          /\ act' = [x \in Dedupe(collected) |-> [state |-> "todo", tries |-> 0]]
  /\ Quiet /\ Keep /\ UNCHANGED <<finding, reading, accepted>>

Goal == IF opt.action = "stop" THEN "stopped" ELSE "running"

\* hive_tablet_action: the POST is under way.
Post(x) ==
  /\ pc = "act" /\ act[x].state = "todo"
  /\ Cardinality({y \in DOMAIN act : act[y].state = "sent"}) < Threads
  /\ act' = [act EXCEPT ![x].state = "sent"]
  /\ Quiet /\ Keep /\ UNCHANGED <<pc, status, finding, reading, accepted>>

\* Mutant of Answered: ALREADY is not a success.
AnsweredOnce(t) == IF hive[t] = "gone" THEN "error" ELSE IF hive[t] = Goal THEN "retry" ELSE "ok"
\* parse_hive_response: OK and ALREADY are both a success, a tablet that is
\* not found is not tried again.
Answered(t) == IF hive[t] = "gone" THEN "error" ELSE "ok"

\* Mutant of After: everything but a success is tried again.
AfterForever(x, reply) ==
  act' = [act EXCEPT ![x].state = IF reply = "ok" THEN reply ELSE "todo"]
\* hive_action_with_retries: what is next after a reply.
After(x, reply) ==
  act' = [act EXCEPT ![x] =
            [state |-> IF reply # "retry" THEN reply
                       ELSE IF @.tries + 1 < opt.retries THEN "todo" ELSE "error",
             tries |-> @.tries + 1]]

Done(t) == hive' = [hive EXCEPT ![t] = IF @ = "gone" THEN @ ELSE Goal]

PostQuiet == UNCHANGED <<scheme, untouched, asked, pc, status, finding, reading, readFailed>>

\* Hive does it and answers; with --no-wait it accepts and does it later.
Reply(x) ==
  /\ pc = "act" /\ act[x].state = "sent" /\ After(x, Answered(x[2])) /\ faults' = faults
  /\ IF opt.wait THEN Done(x[2]) /\ accepted' = accepted
     ELSE hive' = hive /\ accepted' = accepted \cup {x[2]}
  /\ PostQuiet

\* No answer or one that is an error, whether Hive has done it or not.
NoReply(x) ==
  /\ pc = "act" /\ act[x].state = "sent" /\ After(x, "retry")
  /\ faults > 0 /\ faults' = faults - 1
  /\ hive' = hive \/ Done(x[2])
  /\ accepted' = accepted /\ PostQuiet

\* Access is denied, or the page wants another method: Hive has done nothing,
\* and this answer is not tried again.
Refuse(x) ==
  /\ pc = "act" /\ act[x].state = "sent" /\ After(x, "refused")
  /\ UNCHANGED <<hive, accepted, faults>> /\ PostQuiet

HiveDoes(t) ==
  /\ t \in accepted /\ Done(t) /\ accepted' = accepted \ {t}
  /\ UNCHANGED <<scheme, untouched, asked, pc, status, finding, reading, readFailed, act, faults>>

Exit ==
  /\ pc = "act" /\ \A x \in DOMAIN act : act[x].state \in {"ok", "error", "refused"}
  /\ pc' = "exit"
  /\ status' = IF errors = {} /\ \A x \in DOMAIN act : act[x].state = "ok" THEN "0" ELSE "2"
  /\ Quiet /\ Keep /\ UNCHANGED <<finding, reading, acting>>

(***************************************************************************)
(* The whole                                                               *)
(***************************************************************************)
Surroundings ==
  /\ pc # "exit" /\ SchemeStep
  /\ untouched' = {p \in untouched : here'[p] = "yes"}
  /\ UNCHANGED <<run, faults>>

ReadStep == \/ \E p \in objects : Describe(p) \/ UseCache(p) \/ BeginWalk(p)
            \/ \E p \in Path : ReadTx(p) \/ ReadPath(p)
            \/ EndWalk \/ WalkFails

Step == \/ ResolveHive \/ ResolveStartPath \/ ListDirectory
        \/ \E p \in DOMAIN nested : DiscoverNested(p)
        \/ BeginReading \/ (pc = "read" /\ ReadStep) \/ BeginActing
        \/ \E x \in DOMAIN act : Post(x) \/ Reply(x) \/ Refuse(x) \/ NoReply(x)
        \/ Exit

Over == pc = "exit" /\ accepted = {} /\ UNCHANGED vars

Next == Step \/ Surroundings \/ (\E t \in accepted : HiveDoes(t)) \/ Over

Spec == Init /\ [][Next]_vars
\* The pools go on as long as there is work.
FairSpec == Spec /\ WF_vars(Step) /\ WF_vars(\E t \in accepted : HiveDoes(t))

(***************************************************************************)
(* Properties                                                              *)
(***************************************************************************)
\* No system directory above p that is not on the way to the prefix.
Open(p) == opt.sys \/ \A d \in SysDirs : IsStrictPrefix(d, p) => IsPrefix(d, opt.prefix)
\* No system directory above p at all: when the prefix is below one, a listing
\* that fails makes the run start above it and pass it by.
Wanted(p) == Selects(p) /\ (opt.sys \/ \A d \in SysDirs : ~IsStrictPrefix(d, p))
Results == {"none", "0", "1", "2"}

\* Every variable has its type; the lock has an owner exactly while somebody
\* walks; nothing is asked of Hive before the pool of reads is over.
TypeOK ==
  /\ asked \in Cases /\ status \in Results
  /\ pc \in {"hive", "start", "walk", "read", "act", "exit"}
  /\ objects \cup errors \cup untouched \cup denied \subseteq Path
  /\ Range(queue) \cup DOMAIN nested \subseteq Path
  /\ \A p \in DOMAIN task : task[p] \in {"todo", "hidden", "done"}
  /\ collected \subseteq Path \X Tablet /\ DOMAIN act \subseteq collected
  /\ walk # NoWalk => ~cache.filled /\ \A p \in walk.by : task[p] = "hidden"
  /\ \A x \in DOMAIN act : act[x].tries <= opt.retries /\ pc \in {"act", "exit"}
  /\ accepted \subseteq Tablet /\ faults \in 0..asked.faults /\ (status = "none" <=> pc # "exit")

\* A tablet that Hive is asked about belongs to an object of a wanted kind
\* under the prefix and outside the directories a run leaves alone, also when it
\* was found on the pages of operations in flight, which name other paths and
\* other tablets.
OnlySelected ==
  \A x \in DOMAIN act : \E p \in Path : Selects(p) /\ Open(p) /\ x[2] \in ShardsOf[p]

\* Two threads are never busy with the same tablet.
OneThreadPerTablet ==
  \A x, y \in DOMAIN act : act[x].state = "sent" /\ act[y].state = "sent" /\ x[2] = y[2] => x = y

\* Exit status 0 is a promise: every tablet of an object that was there all
\* the time, and of one that was dropped after it had been listed, is stopped
\* (or started), or about to be, or deleted.
ZeroMeansDone ==
  status = "0" /\ ~opt.dry =>
    \A p \in objects \cup {p \in untouched : Wanted(p)} :
      \A t \in ShardsOf[p] : hive[t] \in {Goal, "gone"} \/ t \in accepted

\* A run does not complain without a reason: as long as every page can be
\* read, it reports no path that has been there all the time, and it gives up
\* a tablet that Hive was willing to answer for only when the tablet is gone or as
\* many answers were lost as there are attempts: a second request for what has
\* been done is a success.  A tablet for which access was denied is given up at
\* once (lines 1625-1630), and reported with that answer.
NoFalseAlarm ==
  ~readFailed =>
    /\ errors \cap untouched = {}
    /\ \A x \in DOMAIN act : act[x].state = "error" =>
         hive[x[2]] = "gone" \/ asked.faults - faults >= opt.retries

\* Whatever fails or disappears, and whoever holds the lock, a run ends.
RunEnds == <>(pc = "exit")

\* "SchemeShard has no shards for this path" (line 1498) is true when it is
\* said, as the module comment has it (lines 31-38).
SaysTrue == denied = {}
=============================================================================
