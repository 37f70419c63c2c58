---------------------------- MODULE MissingCommits ----------------------------
(***************************************************************************)
(* tools/version-analyzer: find_missing_commits.py lists the commits of a  *)
(* branch that were probably not applied to another, and                   *)
(* validate_find_missing_output.py checks such a list later on.            *)
(*                                                                         *)
(* Neither holds a snapshot of the repository: every git command looks up  *)
(* the names of the branches again, four of them at the same time, while   *)
(* people push and other processes fetch into the same clone.              *)
(***************************************************************************)
EXTENDS Naturals, FiniteSets, Sequences, SequencesExt

CONSTANTS
  Commit, Parents,    \* the history: Parents[c] is a set of commits
  Date,               \* committer time
  IdsOf,              \* IdsOf[c]: the #ids in the message of c
  FilesOf,            \* FilesOf[c]: the paths `git show --name-only` has for c
  SkipPrefixes,       \* --skip-file, paths and prefixes as sequences of names
  Since,
  Options,            \* the options of a run, see Option
  Tracked,            \* the branches a plain `git fetch` updates
  InitRefs,           \* initial values of [server, tracking, head]
  NoRef,
  Moves               \* bound: how often the server or the clone changes

Branch == {"previous", "next", "base"}
AllTime == 0
\* How a branch is given: x; <remote>/x, remotes/<remote>/x or refs/remotes/<remote>/x;
\* refs/heads/x; a tag, a ref of another remote or any other full ref.
Form == {"short", "tracking", "head", "other"}
Option == [fetch : BOOLEAN, base : BOOLEAN, skip : BOOLEAN, window : Nat, form : [Branch -> Form]]

\* Clocks are right: with a child older than its parent, git log --since may
\* end before it has seen everything.
ASSUME CommitsAssumption ==
  /\ Parents \in [Commit -> SUBSET Commit] /\ NoRef \notin Commit
  /\ Date \in [Commit -> Nat \ {0}] /\ \A c \in Commit : \A p \in Parents[c] : Date[p] < Date[c]
  /\ Options \subseteq Option /\ Tracked \subseteq Branch /\ Moves \in Nat /\ Since \in Nat

VARIABLES
  server, tracking, head,  \* branch tips: on the server, refs/remotes, and refs/heads or
                           \* the other ref a branch is given as
  moves,
  opt, who,     \* "tool", or "validator" when the same rules are applied again
  pc,
  toFetch, noted,
  ref,          \* ref[b]: the name resolve_ref has chosen
  left,         \* the futures that have no result yet
  got,          \* their results: issue ids, commits, file lists
  pending, out, \* commits to look at; the report, or what is recomputed
  report,
  verdict,
  wasServer, wasTip, wasMoved  \* history: the server at the start, the tips when
                \* the commands begin, moves when the tool has fetched

refs == <<server, tracking, head, moves>>
history == <<wasServer, wasTip, wasMoved>>
results == <<left, got, pending, out>>
vars == <<refs, opt, who, pc, toFetch, noted, ref, results, report, verdict, history>>

Used == IF opt.base THEN Branch ELSE {"previous", "next"}

(***************************************************************************)
(* git                                                                     *)
(***************************************************************************)
\* A tip and everything reachable from it: what every set has that has the tip
\* and, with a commit, the parents of it.
Closed(S) == \A c \in S : Parents[c] \subseteq S
Reachable == [tip \in Commit |->
  {c \in Commit : \A S \in SUBSET Commit : tip \in S /\ Closed(S) => c \in S}]
History(tip) == IF tip = NoRef THEN {} ELSE Reachable[tip]

\* Nobody has rewritten a branch: what the clone has of one the server still
\* has is part of it.
AnyTips == [Branch -> Commit \cup {NoRef}]
ASSUME RefsAssumption == \A r \in InitRefs :
  /\ r.server \in AnyTips /\ r.tracking \in AnyTips /\ r.head \in AnyTips
  /\ \A b \in Branch : r.server[b] # NoRef /\ r.tracking[b] # NoRef =>
                          r.tracking[b] \in History(r.server[b])

\* git log <tip> ^<without> --since=<date>
Log(tip, without, date) == {c \in History(tip) \ History(without) : Date[c] >= date}

\* git log does not name the files of a merge.
LogFiles(c) == IF Cardinality(Parents[c]) > 1 THEN {} ELSE FilesOf[c]

TipOf(name, b) == IF name = "tracking" THEN tracking[b] ELSE head[b]
Tip(b) == TipOf(ref[b], b)
Tips == [b \in Branch |-> IF b \in Used THEN Tip(b) ELSE NoRef]

(***************************************************************************)
(* The rules                                                               *)
(***************************************************************************)
\* path_matches_skip, for a whole commit; without files it counts as skipped.
OnlySkipped(files) == \A f \in files : \E p \in SkipPrefixes : IsPrefix(p, f)

\* Mutant of Squelched: a commit without ids is squelched.
SquelchedWithoutIds(ids, known) == ids \subseteq known
Squelched(ids, known) == ids # {} /\ ids \subseteq known

Issues(tip, date) == UNION {IdsOf[c] : c \in Log(tip, NoRef, date)}

NoResults == [next |-> {}, base |-> {}, commits |-> {}, names |-> [c \in {} |-> {}]]
Futures == {"next", "commits"} \cup (IF opt.base THEN {"base"} ELSE {})
                               \cup (IF opt.skip THEN {"names"} ELSE {})

Init ==
  /\ \E r \in InitRefs : server = r.server /\ tracking = r.tracking /\ head = r.head
  /\ moves = Moves /\ opt \in Options /\ who = "tool" /\ pc = "fetch"
  /\ toFetch = {} /\ noted = {} /\ ref = [b \in Branch |-> "none"]
  /\ left = {} /\ got = NoResults /\ pending = {} /\ out = {} /\ report = {}
  /\ verdict = "none" /\ wasServer = server
  /\ wasTip = [b \in Branch |-> NoRef] /\ wasMoved = Moves

(***************************************************************************)
(* Fetching and resolving the branches                                     *)
(***************************************************************************)
Fail == /\ pc' = "failed"
        /\ UNCHANGED <<refs, opt, who, toFetch, noted, ref, results, report, verdict, history>>

\* Mutant of Names: the base branch is not fetched by its name.
NamesWithoutBase == {b \in {"previous", "next"} : opt.form[b] # "other"}
\* _server_branch_name_for_fetch: what is fetched by its name.
Names == {b \in Used : opt.form[b] # "other"}

\* git fetch --prune, unless --no-fetch.
FetchAll ==
  /\ pc = "fetch"
  /\ IF opt.fetch
     THEN /\ tracking' = [b \in Branch |-> IF b \in Tracked THEN server[b] ELSE tracking[b]]
          /\ toFetch' = Names /\ pc' = IF Names = {} THEN "resolve" ELSE "fetchOne"
     ELSE UNCHANGED <<tracking, toFetch>> /\ pc' = "resolve"
  /\ wasMoved' = moves
  /\ UNCHANGED <<server, head, moves, opt, who, noted, ref, results, report, verdict, wasServer, wasTip>>

\* fetch_one_remote_branch: a branch the server does not have may be an old
\* one of the clone.
FetchOne(b) ==
  /\ pc = "fetchOne" /\ b \in toFetch /\ toFetch' = toFetch \ {b}
  /\ server[b] # NoRef \/ head[b] # NoRef \/ tracking[b] # NoRef
  /\ tracking' = [tracking EXCEPT ![b] = IF server[b] # NoRef THEN server[b] ELSE @]
  /\ noted' = IF server[b] # NoRef THEN noted ELSE noted \cup {b}
  /\ pc' = (IF toFetch' = {} THEN "resolve" ELSE pc) /\ wasMoved' = moves
  /\ UNCHANGED <<server, head, moves, opt, who, ref, results, report, verdict, wasServer, wasTip>>

FetchFails ==
  /\ pc \in {"fetch", "fetchOne"} /\ opt.fetch
  /\ \/ moves > 0 /\ Fail
     \/ /\ \E b \in toFetch : server[b] = NoRef /\ head[b] = NoRef /\ tracking[b] = NoRef
        /\ Fail

\* What resolve_ref tries: a full ref is taken as it is given, so refs/heads/x is
\* the branch of the clone, whatever the fetch has brought.
Tried(b) == CASE opt.form[b] = "short" -> {"tracking", "head"}
              [] opt.form[b] = "tracking" -> {"tracking"}
              [] OTHER -> {"head"}

\* resolve_ref, for one branch after the other: the name is chosen here, what
\* it stands for is looked up by every command again.
Resolve(b) ==
  /\ pc = "resolve" /\ b \in Used /\ ref[b] = "none"
  /\ \E name \in Tried(b) :
       /\ TipOf(name, b) # NoRef
       /\ name = "head" /\ "tracking" \in Tried(b) => tracking[b] = NoRef
       /\ ref' = [ref EXCEPT ![b] = name]
  /\ UNCHANGED <<refs, opt, who, pc, toFetch, noted, results, report, verdict, history>>

\* A branch that is nowhere, now or when a command looks it up again.
Unresolved ==
  /\ pc \in {"resolve", "logs", "judge", "check"}
  /\ \E b \in Used : \A name \in (IF ref[b] = "none" THEN Tried(b) ELSE {ref[b]}) :
                       TipOf(name, b) = NoRef
  /\ Fail

(***************************************************************************)
(* find_probable_missing                                                   *)
(***************************************************************************)
\* Mutant of Candidates: next is not excluded.
CandidatesAll == Log(Tip("previous"), NoRef, Since)
Candidates == Log(Tip("previous"), Tip("next"), Since)

\* find_probable_missing begins, or the validator with its own list of candidates.
BeginLogs ==
  /\ pc = "resolve" /\ \A b \in Used : ref[b] # "none" /\ Tip(b) # NoRef
  /\ wasTip' = Tips
  /\ IF who = "tool"
     THEN pc' = "logs" /\ left' = Futures /\ pending' = {} /\ got' = got
     ELSE pc' = "check" /\ left' = {} /\ pending' = report /\ got' = [got EXCEPT !.commits = Candidates]
  /\ UNCHANGED <<refs, opt, who, toFetch, noted, ref, out, report, verdict, wasServer, wasMoved>>

Future(f, value) ==
  /\ pc = "logs" /\ f \in left /\ \A b \in Used : Tip(b) # NoRef
  /\ got' = [got EXCEPT ![f] = value] /\ left' = left \ {f}
  /\ UNCHANGED <<refs, opt, who, pc, toFetch, noted, ref, pending, out, report, verdict, history>>

LogNext == Future("next", Issues(Tip("next"), opt.window))
LogBase == Future("base", Issues(Tip("base"), opt.window))
LogCommits == Future("commits", Candidates)
LogNames == Future("names", [c \in Candidates |-> LogFiles(c)])

\* _resolve_file_lists_with_fallback: git show where log has no files.
Shown(c) ==
  IF c \in DOMAIN got.names /\ got.names[c] # {} THEN got.names[c] ELSE FilesOf[c]

Gathered ==
  /\ pc = "logs" /\ left = {} /\ pc' = "judge"
  /\ pending' = {c \in got.commits :
                   /\ opt.skip => ~OnlySkipped(Shown(c))
                   /\ ~Squelched(IdsOf[c], got.next)}
  /\ UNCHANGED <<refs, opt, who, toFetch, noted, ref, left, got, out, report, verdict, history>>

\* With --base every commit is looked up on the base branch, in log's order.
Judge(c) ==
  /\ pc = "judge" /\ c \in pending /\ \A d \in pending : Date[c] <= Date[d]
  /\ opt.base => Tip("base") # NoRef
  /\ pending' = pending \ {c}
  /\ out' = IF opt.base /\ (c \in History(Tip("base")) \/ Squelched(IdsOf[c], got.base))
            THEN out ELSE out \cup {c}
  /\ UNCHANGED <<refs, opt, who, pc, toFetch, noted, ref, left, got, report, verdict, history>>

Report ==
  /\ pc = "judge" /\ pending = {} /\ who = "tool"
  /\ report' = out /\ pc' = "reported"
  /\ UNCHANGED <<refs, opt, who, toFetch, noted, ref, results, verdict, history>>

(***************************************************************************)
(* validate_find_missing_output, --recompute-expected                      *)
(***************************************************************************)
Validate ==
  /\ pc = "reported" /\ who' = "validator" /\ pc' = "resolve"
  /\ ref' = [b \in Branch |-> "none"]
  /\ left' = {} /\ got' = NoResults /\ pending' = {} /\ out' = {}
  /\ UNCHANGED <<refs, opt, toFetch, noted, report, verdict, history>>

\* Mutant of Sound: the arguments of merge-base are swapped for previous.
SoundSwapped(c) ==
  /\ c \in got.commits /\ c \notin History(Tip("next")) /\ Tip("previous") \in History(c)
  /\ opt.base => c \notin History(Tip("base"))
Sound(c) ==
  /\ c \in got.commits /\ c \notin History(Tip("next")) /\ c \in History(Tip("previous"))
  /\ opt.base => c \notin History(Tip("base"))

Judged(status) ==
  /\ pc' = "judged" /\ verdict' = status
  /\ left' = {} /\ got' = NoResults /\ pending' = {} /\ out' = {}
  /\ UNCHANGED <<refs, opt, who, toFetch, noted, ref, report, history>>

\* One commit of the report, each branch looked up once.
Check(c) ==
  /\ pc = "check" /\ c \in pending /\ \A b \in Used : Tip(b) # NoRef
  /\ IF Sound(c)
     THEN /\ pending' = pending \ {c}
          /\ UNCHANGED <<refs, opt, who, pc, toFetch, noted, ref, left, got, out, report, verdict, history>>
     ELSE Judged("bad")

Recompute ==
  /\ pc = "check" /\ pending = {} /\ \A b \in Used : Tip(b) # NoRef
  /\ pc' = "logs" /\ left' = Futures /\ got' = NoResults /\ UNCHANGED <<pending, out>>
  /\ UNCHANGED <<refs, opt, who, toFetch, noted, ref, report, verdict, history>>

\* Mutant of Agrees: only what is in the file and not expected is looked for.
AgreesOneWay == report \subseteq out
Agrees == report = out

Compare ==
  /\ pc = "judge" /\ pending = {} /\ who = "validator"
  /\ Judged(IF Agrees THEN "ok" ELSE "bad")

(***************************************************************************)
(* The server and the clone                                                *)
(***************************************************************************)
\* A branch moves forward; it is deleted; another process fetches or prunes.
Push(b) == \E c \in Commit : /\ server[b] \in History(c) \ {c}
                             /\ server' = [server EXCEPT ![b] = c] /\ UNCHANGED tracking
Delete(b) == server[b] # NoRef /\ server' = [server EXCEPT ![b] = NoRef] /\ UNCHANGED tracking
OtherFetch(b) == /\ tracking[b] # server[b] /\ tracking' = [tracking EXCEPT ![b] = server[b]]
                 /\ UNCHANGED server

Surroundings ==
  /\ pc \notin {"failed", "judged"} /\ moves > 0 /\ moves' = moves - 1
  /\ \E b \in Branch : Push(b) \/ Delete(b) \/ OtherFetch(b)
  /\ UNCHANGED <<head, opt, who, pc, toFetch, noted, ref, results, report, verdict, history>>

Over == pc \in {"failed", "judged"} /\ UNCHANGED vars

Next ==
  \/ FetchAll \/ FetchFails \/ Unresolved \/ BeginLogs
  \/ \E b \in Branch : FetchOne(b) \/ Resolve(b)
  \/ LogNext \/ LogBase \/ LogCommits \/ LogNames \/ Gathered
  \/ \E c \in Commit : Judge(c) \/ Check(c)
  \/ Report \/ Validate \/ Recompute \/ Compare
  \/ Surroundings \/ Over

Spec == Init /\ [][Next]_vars

(***************************************************************************)
(* Properties                                                              *)
(***************************************************************************)
\* The reasons the README gives for leaving a commit out, for given tips.
Tracks(tip, c) ==
  IdsOf[c] # {} /\ \A i \in IdsOf[c] : \E d \in History(tip) : Date[d] >= opt.window /\ i \in IdsOf[d]
LeftOut(c, tip) ==
  \/ \E b \in Used \ {"previous"} : c \in History(tip[b]) \/ Tracks(tip[b], c)
  \/ opt.skip /\ OnlySkipped(FilesOf[c])

\* A branch that went away during the run has no tip any more.
AllThere == \A b \in Used : Tip(b) # NoRef
Complete(list, was) ==
  \A c \in Log(was["previous"], NoRef, Since) : c \in list \/ LeftOut(c, Tips)
Real(list, was) == \A c \in list : c \in Log(Tip("previous"), NoRef, Since) /\ ~LeftOut(c, was)

\* Nothing is lost between the commands: what was on the source branch when
\* they began is listed, or there is a reason against it at the end.
NothingLost == pc = "reported" /\ AllThere => Complete(report, wasTip)

\* What is listed is on the source branch, and nothing spoke against it when
\* the commands began.
MissingAreReal == pc = "reported" /\ AllThere => Real(report, wasTip)

\* If the branches have not moved since the report was made, it is accepted.
ValidatorAgrees == pc = "judged" /\ verdict = "bad" => moves < wasMoved

\* A report the validator accepts, however old, still is complete and real.
AcceptedIsCurrent == pc = "judged" /\ verdict = "ok" /\ AllThere =>
  Complete(report, wasTip) /\ Real(report, wasTip)

\* "analysis uses the current server tip" (fetch_branches_for_analysis): with a
\* fetch, the tips the commands find first have all the server had when the run
\* began, for every branch that is given by its short name or as one of the remote,
\* that the server still has and no note was made of.  It says nothing of
\* refs/heads/x, which is fetched as well, but resolved to the clone's own branch.
FetchedIsCurrent ==
  pc \in {"logs", "judge", "reported"} /\ who = "tool" /\ opt.fetch =>
    \A b \in Used \ noted :
      opt.form[b] \in {"short", "tracking"} /\ wasServer[b] # NoRef /\ server[b] # NoRef =>
        wasServer[b] \in History(wasTip[b])
=============================================================================
