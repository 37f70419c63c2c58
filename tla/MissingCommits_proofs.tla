------------------------ MODULE MissingCommits_proofs ------------------------
(***************************************************************************)
(* Proofs about MissingCommits, for any history, any options and any       *)
(* number of pushes, deletions and fetches between the git commands.       *)
(*                                                                         *)
(* What makes the report right without a snapshot of the repository: the   *)
(* tips a name stands for only move forward until the name is gone, so the *)
(* result of a command lies between what it would have been at the start   *)
(* and what it would be now.                                               *)
(***************************************************************************)
EXTENDS MissingCommits, TLAPS

RefName == {"none", "tracking", "head"}

Typed ==
  /\ server \in AnyTips /\ tracking \in AnyTips /\ head \in AnyTips
  /\ wasServer \in AnyTips /\ wasTip \in AnyTips
  /\ ref \in [Branch -> RefName]
  /\ moves \in Nat /\ wasMoved \in Nat /\ moves <= wasMoved

-----------------------------------------------------------------------------
(* The inductive invariant.                                                *)

Running == {"logs", "judge", "reported", "check"}

\* The clone is behind the server, and what is gone from both does not come back.
Forward ==
  \A b \in Branch :
    /\ server[b] # NoRef /\ tracking[b] # NoRef => tracking[b] \in History(server[b])
    /\ ref[b] = "tracking" /\ tracking[b] = NoRef => server[b] = NoRef
    /\ server[b] # NoRef /\ wasServer[b] # NoRef => wasServer[b] \in History(server[b])

\* Who runs, and what is chosen, at each step.
Stages ==
  /\ who \in {"tool", "validator"}
  /\ pc \in {"fetch", "fetchOne", "reported"} => who = "tool"
  /\ pc \in {"check", "judged"} => who = "validator"
  /\ pc \in {"fetch", "fetchOne"} => \A b \in Branch : ref[b] = "none"
  /\ pc \in Running \cup {"fetch", "resolve"} => toFetch = {}
  /\ pc \in Running => \A b \in Used : ref[b] # "none" /\ wasTip[b] # NoRef
  /\ pc = "judge" => left = {}
  /\ "base" \in left => opt.base
  /\ pc \notin {"judge", "reported", "failed"} => out = {}
  /\ got = [next |-> got.next, base |-> got.base, commits |-> got.commits, names |-> got.names]
  /\ \A c \in DOMAIN got.names : got.names[c] \in {{}, FilesOf[c]}

\* With a fetch the clone has what the server had when the run began.
Fetched ==
  /\ opt.fetch /\ pc \notin {"fetch", "failed"} =>
       \A b \in (Used \ noted) \ toFetch :
         opt.form[b] \in {"short", "tracking"} /\ server[b] # NoRef /\ wasServer[b] # NoRef =>
           /\ tracking[b] # NoRef /\ wasServer[b] \in History(tracking[b])
           /\ ref[b] # "head"
  /\ FetchedIsCurrent

\* The tips the commands found first are part of those they find now.
Grown(b) == Tip(b) = NoRef \/ wasTip[b] \in History(Tip(b))

\* The result of a log of issues lies between then and now.
IssuesBetween(ids, b) ==
  /\ Issues(wasTip[b], opt.window) \subseteq ids
  /\ Tip(b) # NoRef => ids \subseteq Issues(Tip(b), opt.window)

\* So do the commits to look at.
FromPrevious(c) ==
  /\ Date[c] >= Since
  /\ Tip("previous") # NoRef => c \in History(Tip("previous"))
  /\ c \notin History(wasTip["next"])

Listed(list) ==
  \A c \in Log(wasTip["previous"], NoRef, Since) :
    c \in list \/ (Tip("next") # NoRef => c \in History(Tip("next")))

Gathering ==
  pc \in {"logs", "judge"} =>
    /\ "next" \notin left => IssuesBetween(got.next, "next")
    /\ opt.base /\ "base" \notin left => IssuesBetween(got.base, "base")
    /\ "commits" \notin left => Listed(got.commits) /\ \A c \in got.commits : FromPrevious(c)

\* Nothing spoke against c when the commands began, but for the base branch.
NotLeftOut(c) ==
  /\ FromPrevious(c)
  /\ ~ Tracks(wasTip["next"], c)
  /\ opt.skip => ~ OnlySkipped(FilesOf[c])

NotOnBase(c) ==
  opt.base => c \notin History(wasTip["base"]) /\ ~ Tracks(wasTip["base"], c)

Judging ==
  pc = "judge" =>
    /\ \A c \in pending : NotLeftOut(c)
    /\ \A c \in out : NotLeftOut(c) /\ NotOnBase(c)
    /\ AllThere => Complete(pending \cup out, wasTip)

Reported ==
  /\ pc = "reported" /\ AllThere => Complete(report, wasTip) /\ Real(report, wasTip)
  /\ AcceptedIsCurrent

-----------------------------------------------------------------------------
(* While nothing has moved since the fetch.                                *)

Choice(b) ==
  IF opt.form[b] = "tracking" \/ (opt.form[b] = "short" /\ tracking[b] # NoRef)
  THEN "tracking" ELSE "head"
Now(b) == TipOf(Choice(b), b)

ToList == Log(Now("previous"), Now("next"), Since)

\* What is left of a list before, and after, the base branch is looked at.
Gathers(c) ==
  /\ opt.skip => ~ OnlySkipped(FilesOf[c])
  /\ ~ Squelched(IdsOf[c], Issues(Now("next"), opt.window))

OnBase(c) ==
  opt.base /\ \/ c \in History(Now("base"))
              \/ Squelched(IdsOf[c], Issues(Now("base"), opt.window))

Expected == {c \in ToList : Gathers(c) /\ ~ OnBase(c)}

Unmoved ==
  moves = wasMoved =>
    /\ \A b \in Branch : ref[b] \in {"none", Choice(b)}
    /\ pc \in {"logs", "judge"} =>
         /\ "next" \notin left => got.next = Issues(Now("next"), opt.window)
         /\ opt.base /\ "base" \notin left => got.base = Issues(Now("base"), opt.window)
         /\ "commits" \notin left => got.commits = ToList
    /\ pc = "judge" =>
         /\ \A c \in pending : c \in ToList /\ Gathers(c)
         /\ out = {c \in ToList \ pending : Gathers(c) /\ ~ OnBase(c)}
    /\ pc = "reported" \/ (who = "validator" /\ pc # "failed") => report = Expected
    /\ pc = "check" => got.commits = ToList /\ pending \subseteq report
    /\ pc = "judged" => verdict # "bad"

Inv ==
  /\ Typed /\ Forward /\ Stages /\ Fetched
  /\ pc \in Running => \A b \in Used : Grown(b)
  /\ Gathering /\ Judging /\ Reported /\ Unmoved

-----------------------------------------------------------------------------
(* git                                                                     *)

\* A commit is reachable from itself, and reachability is transitive.
LEMMA HistoryFacts ==
  /\ History(NoRef) = {}
  /\ \A c \in Commit : c \in History(c) /\ History(c) \subseteq Commit
  /\ \A c \in Commit : \A d \in History(c) : History(d) \subseteq History(c)
  <1>1. History(NoRef) = {}  BY DEF History
  <1>2. NoRef \notin Commit  BY CommitsAssumption
  <1>3. ASSUME NEW c \in Commit
        PROVE  History(c) = {d \in Commit : \A S \in SUBSET Commit : c \in S /\ Closed(S) => d \in S}
    BY <1>2 DEF History, Reachable
  <1>4. \A c \in Commit : c \in History(c) /\ History(c) \subseteq Commit  BY <1>3
  <1>5. ASSUME NEW c \in Commit, NEW d \in History(c), NEW e \in History(d)
        PROVE  e \in History(c)
    <2>1. d \in Commit  BY <1>4
    <2>2. ASSUME NEW S \in SUBSET Commit, c \in S, Closed(S)  PROVE e \in S
      <3>1. d \in S  BY <1>3, <2>2
      <3>2. e \in Commit /\ \A T \in SUBSET Commit : d \in T /\ Closed(T) => e \in T
        BY <1>3, <2>1
      <3> QED  BY <2>2, <3>1, <3>2
    <2>3. e \in Commit  BY <1>3, <2>1
    <2> QED  BY <1>3, <2>2, <2>3
  <1> QED  BY <1>1, <1>4, <1>5

\* A tip t has moved to u.
Ahead(t, u) == u = NoRef \/ (t # NoRef /\ t \in History(u))

\* What is read of a tip that has moved forward only grows.
LEMMA AheadGrows ==
  ASSUME NEW t \in Commit \cup {NoRef}, NEW u \in Commit, Ahead(t, u)
  PROVE  /\ History(t) \subseteq History(u)
         /\ \A date : Issues(t, date) \subseteq Issues(u, date)
  <1>1. u # NoRef  BY CommitsAssumption
  <1>2. History(t) \subseteq History(u)  BY <1>1, HistoryFacts DEF Ahead
  <1>3. ASSUME NEW date  PROVE Issues(t, date) \subseteq Issues(u, date)
    BY <1>2 DEF Issues, Log
  <1> QED  BY <1>2, <1>3

\* A log without a second branch.
LEMMA PlainLog ==
  ASSUME NEW t, NEW date
  PROVE  Log(t, NoRef, date) = {c \in History(t) : Date[c] >= date}
  BY HistoryFacts DEF Log

\* The README's reason about ids is the rule of the code, for given tips.
LEMMA TracksIsSquelched ==
  ASSUME NEW t, NEW c
  PROVE  Tracks(t, c) <=> Squelched(IdsOf[c], Issues(t, opt.window))
  <1>1. \A i : i \in Issues(t, opt.window) <=>
               \E d \in History(t) : Date[d] >= opt.window /\ i \in IdsOf[d]
    BY PlainLog DEF Issues
  <1> QED  BY <1>1 DEF Tracks, Squelched

\* A commit is left out because of a branch, or of its files.
LEMMA LeftOutByBranch ==
  ASSUME NEW c
  PROVE  LeftOut(c, Tips) <=>
           \/ \E b \in Used \ {"previous"} : c \in History(Tip(b)) \/ Tracks(Tip(b), c)
           \/ opt.skip /\ OnlySkipped(FilesOf[c])
  BY DEF LeftOut, Tips, Used, Branch

\* Which branches are used.
LEMMA UsedFacts ==
  /\ Used \subseteq Branch /\ "next" \in Used /\ "previous" \in Used
  /\ "base" \in Used <=> opt.base
  /\ \A b \in Used \ {"previous"} : b = "next" \/ (opt.base /\ b = "base")
  BY DEF Used, Branch

\* A tip that is there is a commit.
LEMMA TipIsCommit ==
  ASSUME Typed, NEW b \in Branch
  PROVE  /\ Tip(b) \in Commit \cup {NoRef} /\ Now(b) \in Commit \cup {NoRef}
         /\ wasTip[b] \in Commit \cup {NoRef}
         /\ Tip(b) # NoRef => Tip(b) \in Commit
         /\ wasTip[b] # NoRef => wasTip[b] \in Commit
  BY DEF Typed, AnyTips, Tip, TipOf, Now, Choice

\* What a run would find and choose now does not depend on the names of a run.
LEMMA SameNow ==
  ASSUME UNCHANGED <<tracking, head, opt>>
  PROVE  /\ \A b : Now(b)' = Now(b) /\ Choice(b)' = Choice(b)
         /\ \A c : Gathers(c)' <=> Gathers(c)
         /\ \A c : OnBase(c)' <=> OnBase(c)
         /\ ToList' = ToList /\ Expected' = Expected
  <1>1. \A b : Now(b)' = Now(b) /\ Choice(b)' = Choice(b)
    BY DEF TipOf, Now, Choice
  <1>2. Now("next")' = Now("next") /\ Now("base")' = Now("base")
        /\ Now("previous")' = Now("previous")
    BY <1>1
  <1>3. \A c : Gathers(c)' <=> Gathers(c)  BY <1>2 DEF Gathers
  <1>4. \A c : OnBase(c)' <=> OnBase(c)  BY <1>2 DEF OnBase
  <1>5. ToList' = ToList  BY <1>2 DEF ToList
  <1>6. Expected' = Expected  BY <1>3, <1>4, <1>5 DEF Expected
  <1> QED  BY <1>1, <1>3, <1>4, <1>5, <1>6

\* When the branches and the names chosen stay, every command finds what it found.
SameTips == UNCHANGED <<server, tracking, head, ref, opt>>

LEMMA SameLookup ==
  ASSUME SameTips
  PROVE  /\ \A b : Tip(b)' = Tip(b) /\ Now(b)' = Now(b) /\ Choice(b)' = Choice(b)
         /\ Used' = Used
         /\ Tips' = Tips
         /\ AllThere' <=> AllThere
         /\ \A t, c : Tracks(t, c)' <=> Tracks(t, c)
         /\ \A c : Gathers(c)' <=> Gathers(c)
         /\ \A c : OnBase(c)' <=> OnBase(c)
         /\ ToList' = ToList /\ Expected' = Expected
  <1>1. \A b : Tip(b)' = Tip(b)  BY DEF SameTips, Tip, TipOf
  <1>2. Used' = Used  BY DEF SameTips, Used
  <1>3. Tips' = Tips /\ (AllThere' <=> AllThere)  BY <1>1, <1>2 DEF Tips, AllThere
  <1>4. \A t, c : Tracks(t, c)' <=> Tracks(t, c)  BY DEF SameTips, Tracks
  <1>5. UNCHANGED <<tracking, head, opt>>  BY DEF SameTips
  <1> QED  BY <1>1, <1>2, <1>3, <1>4, <1>5, SameNow

-----------------------------------------------------------------------------
(* The server and the clone                                                *)

\* A step of the surroundings: the server and the clone move forward.
LEMMA RefsMoveForward ==
  ASSUME Inv, Surroundings
  PROVE  /\ Typed' /\ Forward'
         /\ \A b \in Branch :
              /\ ref[b] = "tracking" /\ tracking[b] = NoRef => tracking'[b] = NoRef
              /\ tracking[b] # NoRef /\ tracking'[b] # NoRef =>
                   tracking[b] \in History(tracking'[b])
              /\ server'[b] # NoRef => server[b] # NoRef
              /\ server'[b] # NoRef /\ tracking[b] # NoRef =>
                   tracking'[b] # NoRef /\ tracking[b] \in History(tracking'[b])
  <1>1. Typed /\ Forward  BY DEF Inv
  <1>2. UNCHANGED <<head, ref, wasServer, wasTip, wasMoved>> /\ moves > 0 /\ moves' = moves - 1
    BY DEF Surroundings, history
  <1>3. /\ server \in [Branch -> Commit \cup {NoRef}]
        /\ tracking \in [Branch -> Commit \cup {NoRef}]
        /\ head \in [Branch -> Commit \cup {NoRef}]
        /\ NoRef \notin Commit
    BY <1>1, CommitsAssumption DEF Typed, AnyTips
  <1>4. moves' \in Nat /\ moves' <= wasMoved'  BY <1>1, <1>2 DEF Typed
  <1>5. \A t \in Commit \cup {NoRef} : t = NoRef \/ Ahead(t, t)
    BY HistoryFacts DEF Ahead
  <1>6. PICK x \in Branch : Push(x) \/ Delete(x) \/ OtherFetch(x)
    BY DEF Surroundings
  <1> DEFINE SAhead(b) == Ahead(server[b], server'[b])
             Keeps(b) == server'[b] # NoRef /\ tracking[b] # NoRef =>
                           tracking'[b] # NoRef /\ tracking[b] \in History(tracking'[b])
  <1>7. /\ server' \in [Branch -> Commit \cup {NoRef}]
        /\ tracking' \in [Branch -> Commit \cup {NoRef}]
        /\ \A b \in Branch : server'[b] = NoRef \/ SAhead(b)
        /\ \A b \in Branch : tracking'[b] = tracking[b] \/
             (tracking'[b] = server[b] /\ server'[b] = server[b] /\ tracking[b] # server[b])
    <2>1. CASE Push(x)
      <3>1. PICK c \in Commit : /\ server[x] \in History(c) \ {c}
                                /\ server' = [server EXCEPT ![x] = c]
                                /\ UNCHANGED tracking
        BY <2>1 DEF Push
      <3>2. server[x] # NoRef  BY <1>3, <3>1, HistoryFacts
      <3>3. Ahead(server[x], c)  BY <3>1, <3>2 DEF Ahead
      <3>4. \A b \in Branch : server'[b] = NoRef \/ SAhead(b)
        BY <1>3, <1>5, <3>1, <3>3
      <3> QED  BY <1>3, <3>1, <3>4
    <2>2. CASE Delete(x)
      <3>1. server' = [server EXCEPT ![x] = NoRef] /\ UNCHANGED tracking
        BY <2>2 DEF Delete
      <3>2. \A b \in Branch : server'[b] = NoRef \/ SAhead(b)  BY <1>3, <1>5, <3>1
      <3> QED  BY <1>3, <3>1, <3>2
    <2>3. CASE OtherFetch(x)
      <3>1. /\ tracking' = [tracking EXCEPT ![x] = server[x]] /\ UNCHANGED server
            /\ tracking[x] # server[x]
        BY <2>3 DEF OtherFetch
      <3>2. \A b \in Branch : server'[b] = NoRef \/ SAhead(b)  BY <1>3, <1>5, <3>1
      <3> QED  BY <1>3, <3>1, <3>2
    <2> QED  BY <1>6, <2>1, <2>2, <2>3
  <1>8. Typed'  BY <1>1, <1>2, <1>4, <1>7 DEF Typed, AnyTips
  <1>9. ASSUME NEW b \in Branch
        PROVE  /\ server'[b] # NoRef => server[b] # NoRef /\ server[b] \in History(server'[b])
               /\ server'[b] # NoRef => History(server[b]) \subseteq History(server'[b])
    <2>1. server'[b] # NoRef => server[b] # NoRef /\ server[b] \in History(server'[b])
      BY <1>7 DEF Ahead
    <2>2. server'[b] # NoRef => server'[b] \in Commit  BY <1>7
    <2> QED  BY <2>1, <2>2, HistoryFacts
  <1>10. ASSUME NEW b \in Branch
         PROVE  /\ server[b] # NoRef /\ tracking[b] # NoRef => tracking[b] \in History(server[b])
                /\ ref[b] = "tracking" /\ tracking[b] = NoRef => server[b] = NoRef
                /\ server[b] # NoRef /\ wasServer[b] # NoRef => wasServer[b] \in History(server[b])
    BY <1>1 DEF Forward
  <1>11. ASSUME NEW b \in Branch
         PROVE  tracking[b] # NoRef /\ tracking'[b] # NoRef => tracking[b] \in History(tracking'[b])
    <2>1. CASE tracking'[b] = tracking[b]  BY <1>3, <2>1, HistoryFacts
    <2>2. CASE tracking'[b] = server[b]  BY <1>10, <2>2
    <2> QED  BY <1>7, <2>1, <2>2
  <1>12. ASSUME NEW b \in Branch
         PROVE  /\ server'[b] # NoRef /\ tracking'[b] # NoRef => tracking'[b] \in History(server'[b])
                /\ ref'[b] = "tracking" /\ tracking'[b] = NoRef => server'[b] = NoRef
                /\ server'[b] # NoRef /\ wasServer'[b] # NoRef => wasServer'[b] \in History(server'[b])
    <2>1. CASE tracking'[b] = tracking[b]  BY <1>2, <1>9, <1>10, <2>1
    <2>2. CASE tracking'[b] = server[b] /\ server'[b] = server[b]
      BY <1>2, <1>3, <1>10, <2>2, HistoryFacts
    <2> QED  BY <1>7, <2>1, <2>2
  <1>13. Forward'  BY <1>12 DEF Forward
  <1>14. ASSUME NEW b \in Branch  PROVE Keeps(b)
    <2>1. server'[b] # NoRef /\ tracking[b] # NoRef => tracking'[b] # NoRef
      BY <1>7
    <2> QED  BY <1>11, <2>1
  <1>15. ASSUME NEW b \in Branch, ref[b] = "tracking", tracking[b] = NoRef
         PROVE  tracking'[b] = NoRef
    BY <1>7, <1>10, <1>15
  <1> QED  BY <1>8, <1>9, <1>11, <1>13, <1>14, <1>15

\* So do the tips the commands find.
LEMMA TipsMoveForward ==
  ASSUME Inv, Surroundings, NEW b \in Branch
  PROVE  Ahead(Tip(b), Tip(b)')
  <1>1. head[b] \in Commit \cup {NoRef} /\ ref' = ref /\ head' = head
    BY DEF Inv, Typed, AnyTips, Surroundings
  <1>2. CASE ref[b] = "tracking"
    <2>1. Tip(b) = tracking[b] /\ Tip(b)' = tracking'[b]
      BY <1>1, <1>2 DEF Tip, TipOf
    <2> QED  BY <1>2, <2>1, RefsMoveForward DEF Ahead
  <1>3. CASE ref[b] # "tracking"
    <2>1. Tip(b) = head[b] /\ Tip(b)' = head[b]  BY <1>1, <1>3 DEF Tip, TipOf
    <2>2. head[b] = NoRef \/ Ahead(head[b], head[b])  BY <1>1, HistoryFacts DEF Ahead
    <2> QED  BY <2>1, <2>2 DEF Ahead
  <1> QED  BY <1>2, <1>3

\* While the tips move forward, what was between then and now stays so.
LEMMA SurroundingsKeeps ==
  ASSUME Inv, Surroundings
  PROVE  Inv'
  <1>1. /\ Typed /\ Forward /\ Stages /\ Fetched /\ Gathering /\ Judging /\ Reported
        /\ pc \in Running => \A b \in Used : Grown(b)
    BY DEF Inv
  <1>2. /\ UNCHANGED <<head, opt, who, pc, toFetch, noted, ref, left, got, pending, out,
                       report, verdict, wasServer, wasTip, wasMoved>>
        /\ pc \notin {"failed", "judged"} /\ moves > 0 /\ moves' = moves - 1
    BY DEF Surroundings, history, results
  <1>3. Typed' /\ Forward'  BY RefsMoveForward
  <1>4. Used' = Used  BY <1>2 DEF Used
  <1>5. Stages'  BY <1>1, <1>2, <1>4 DEF Stages
  <1>5a. \A b \in Branch :
           /\ server'[b] # NoRef => server[b] # NoRef
           /\ server'[b] # NoRef /\ tracking[b] # NoRef =>
                tracking'[b] # NoRef /\ tracking[b] \in History(tracking'[b])
    BY RefsMoveForward
  <1>6. ASSUME NEW b \in Branch, server'[b] # NoRef, tracking[b] # NoRef,
               wasServer[b] \in History(tracking[b])
        PROVE  tracking'[b] # NoRef /\ wasServer[b] \in History(tracking'[b])
    <2>1. tracking'[b] # NoRef /\ tracking[b] \in History(tracking'[b])
      BY <1>6, <1>5a
    <2>2. tracking'[b] \in Commit  BY <1>3, <2>1 DEF Typed, AnyTips
    <2> QED  BY <1>6, <2>1, <2>2, HistoryFacts
  <1>7. Fetched'
    <2>1. FetchedIsCurrent'
      BY <1>1, <1>2, <1>4, <1>5a, UsedFacts DEF Fetched, FetchedIsCurrent
    <2>2. ASSUME opt.fetch, pc \notin {"fetch", "failed"},
                 NEW b \in (Used \ noted) \ toFetch, server'[b] # NoRef, wasServer[b] # NoRef,
                 opt.form[b] \in {"short", "tracking"}
          PROVE  /\ tracking'[b] # NoRef /\ wasServer[b] \in History(tracking'[b])
                 /\ ref[b] # "head"
      <3>1. b \in Branch /\ server[b] # NoRef  BY <2>2, <1>5a, UsedFacts
      <3>2. /\ tracking[b] # NoRef /\ wasServer[b] \in History(tracking[b])
            /\ ref[b] # "head"
        BY <1>1, <2>2, <3>1 DEF Fetched
      <3> QED  BY <1>6, <2>2, <3>1, <3>2
    <2> QED  BY <1>2, <1>4, <2>1, <2>2 DEF Fetched
  <1>8. ASSUME NEW b \in Branch, Tip(b)' # NoRef
        PROVE  /\ Tip(b) # NoRef /\ Tip(b) \in History(Tip(b)')
               /\ History(Tip(b)) \subseteq History(Tip(b)')
               /\ \A date : Issues(Tip(b), date) \subseteq Issues(Tip(b)', date)
    <2>1. Ahead(Tip(b), Tip(b)')  BY TipsMoveForward
    <2>2. Tip(b) \in Commit \cup {NoRef}  BY <1>1, TipIsCommit
    <2>3. Tip(b)' \in Commit
      BY <1>3, <1>8 DEF Typed, AnyTips, Tip, TipOf
    <2>4. PICK t, u : t = Tip(b) /\ u = Tip(b)'  OBVIOUS
    <2> QED  BY <1>8, <2>1, <2>2, <2>3, <2>4, AheadGrows DEF Ahead
  <1>9. pc \in Running => \A b \in Used : Grown(b)'
    BY <1>1, <1>2, <1>8, UsedFacts DEF Grown
  <1>10. ASSUME NEW ids, NEW b \in Branch, IssuesBetween(ids, b)
         PROVE  IssuesBetween(ids, b)'
    BY <1>2, <1>8, <1>10 DEF IssuesBetween
  <1>11. "previous" \in Branch /\ "next" \in Branch /\ "base" \in Branch  BY DEF Branch
  <1>12. \A c : FromPrevious(c) => FromPrevious(c)'
    BY <1>2, <1>8, <1>11 DEF FromPrevious
  <1>13. \A list : Listed(list) => Listed(list)'
    BY <1>2, <1>8, <1>11 DEF Listed
  <1>14. Gathering'
    BY <1>1, <1>2, <1>10, <1>11, <1>12, <1>13 DEF Gathering
  <1>15. \A t, c : Tracks(t, c)' <=> Tracks(t, c)  BY <1>2 DEF Tracks
  <1>16. AllThere' => AllThere  BY <1>4, <1>8, UsedFacts DEF AllThere
  <1>17. ASSUME NEW b \in Branch, Tip(b)' # NoRef, NEW c, Tracks(Tip(b), c)
         PROVE  Tracks(Tip(b)', c)
    <2>1. History(Tip(b)) \subseteq History(Tip(b)')  BY <1>8, <1>17
    <2>2. PICK t, u : t = Tip(b) /\ u = Tip(b)'  OBVIOUS
    <2> QED  BY <1>17, <2>1, <2>2 DEF Tracks
  <1>18. ASSUME AllThere', NEW c, LeftOut(c, Tips)  PROVE LeftOut(c, Tips)'
    <2>1. CASE opt.skip /\ OnlySkipped(FilesOf[c])  BY <1>2, <2>1 DEF LeftOut
    <2>2. ASSUME NEW b \in Used \ {"previous"}, c \in History(Tip(b)) \/ Tracks(Tip(b), c)
          PROVE  LeftOut(c, Tips)'
      <3>1. b \in Branch /\ Tip(b)' # NoRef
        BY <1>4, <1>18, <2>2, UsedFacts DEF AllThere
      <3>2. c \in History(Tip(b)') \/ Tracks(Tip(b)', c)
        BY <1>8, <1>17, <2>2, <3>1
      <3>3. Tips'[b] = Tip(b)'  BY <1>4, <2>2, <3>1 DEF Tips
      <3>4. c \in History(Tips'[b]) \/ Tracks(Tips'[b], c)  BY <3>2, <3>3
      <3>5. (c \in History(Tips[b]) \/ Tracks(Tips[b], c))'
        BY <1>2, <3>4 DEF Tracks
      <3> QED  BY <1>4, <2>2, <3>5 DEF LeftOut
    <2> QED  BY <1>18, <2>1, <2>2, LeftOutByBranch
  <1>19. \A c : LeftOut(c, wasTip)' <=> LeftOut(c, wasTip)
    BY <1>2, <1>4, <1>15 DEF LeftOut
  <1>20. ASSUME AllThere', NEW list, Complete(list, wasTip)  PROVE Complete(list, wasTip)'
    BY <1>2, <1>18, <1>20 DEF Complete
  <1>21. ASSUME AllThere', NEW list, Real(list, wasTip)  PROVE Real(list, wasTip)'
    <2>1. Tip("previous")' # NoRef
      BY <1>21, <1>4, UsedFacts DEF AllThere
    <2>2. History(Tip("previous")) \subseteq History(Tip("previous")')  BY <1>8, <1>11, <2>1
    <2>3. ASSUME NEW c \in Log(Tip("previous"), NoRef, Since)
          PROVE  c \in Log(Tip("previous"), NoRef, Since)'
      BY <2>2, <2>3, HistoryFacts DEF Log
    <2> QED  BY <1>19, <1>21, <2>3 DEF Real
  <1>22. \A c : /\ NotLeftOut(c) => NotLeftOut(c)'
                /\ NotOnBase(c) => NotOnBase(c)'
    BY <1>2, <1>12, <1>15 DEF NotLeftOut, NotOnBase
  <1>23. Judging'
    <2>1. SUFFICES ASSUME pc = "judge"
                   PROVE  /\ \A c \in pending : NotLeftOut(c)'
                          /\ \A c \in out : NotLeftOut(c)' /\ NotOnBase(c)'
                          /\ AllThere' => Complete(pending \cup out, wasTip)'
      BY <1>2 DEF Judging, Complete
    <2>2. ASSUME AllThere'  PROVE Complete(pending \cup out, wasTip)'
      <3>1. PICK list : list = pending \cup out  OBVIOUS
      <3>2. Complete(list, wasTip)  BY <1>1, <1>16, <2>1, <2>2, <3>1 DEF Judging
      <3>3. Complete(list, wasTip)'  BY <1>20, <2>2, <3>2
      <3> QED  BY <1>2, <3>1, <3>3 DEF Complete
    <2>3. \A c \in pending : NotLeftOut(c)  BY <1>1, <2>1 DEF Judging
    <2>4. \A c \in out : NotLeftOut(c) /\ NotOnBase(c)  BY <1>1, <2>1 DEF Judging
    <2> QED  BY <1>22, <2>2, <2>3, <2>4
  <1>24. Reported'
    <2>1. AcceptedIsCurrent'  BY <1>2 DEF AcceptedIsCurrent
    <2>2. ASSUME pc = "reported", AllThere'
          PROVE  Complete(report, wasTip)' /\ Real(report, wasTip)'
      <3>1. Complete(report, wasTip) /\ Real(report, wasTip)
        BY <1>1, <1>16, <2>2 DEF Reported
      <3>2. PICK list : list = report  OBVIOUS
      <3>3. Complete(list, wasTip)' /\ Real(list, wasTip)'
        BY <1>20, <1>21, <2>2, <3>1, <3>2
      <3> QED  BY <1>2, <3>2, <3>3 DEF Complete, Real
    <2> QED  BY <1>2, <2>1, <2>2 DEF Reported
  <1>25. Unmoved'
    <2>1. moves' < wasMoved'  BY <1>1, <1>2 DEF Typed
    <2> QED  BY <1>3, <2>1 DEF Unmoved, Typed
  <1> QED  BY <1>2, <1>3, <1>4, <1>5, <1>7, <1>9, <1>14, <1>23, <1>24, <1>25 DEF Inv

-----------------------------------------------------------------------------
(* Fetching and resolving the branches                                     *)

\* A run that ends with an error claims nothing.
LEMMA FailKeeps ==
  ASSUME Inv, Fail
  PROVE  Inv'
  <1>1. Typed /\ Forward /\ Stages /\ Unmoved  BY DEF Inv
  <1>2. /\ UNCHANGED <<server, tracking, head, moves, opt, who, toFetch, noted, ref, left,
                       got, pending, out, report, verdict, wasServer, wasTip, wasMoved>>
        /\ pc' = "failed"
    BY DEF Fail, refs, results, history
  <1>3. Typed' /\ Forward'  BY <1>1, <1>2 DEF Typed, Forward
  <1>4. Stages'  BY <1>1, <1>2 DEF Stages, Running
  <1>5. Fetched'  BY <1>2 DEF Fetched, FetchedIsCurrent
  <1>6. Gathering' /\ Judging' /\ Reported'
    BY <1>2 DEF Gathering, Judging, Reported, AcceptedIsCurrent
  <1>7. Unmoved'  BY <1>1, <1>2 DEF Unmoved, Choice
  <1> QED  BY <1>2, <1>3, <1>4, <1>5, <1>6, <1>7 DEF Inv, Running

\* Nothing is claimed before the commands begin.
LEMMA BeforeTheCommands ==
  ASSUME pc' \in {"fetchOne", "resolve"}
  PROVE  /\ FetchedIsCurrent' /\ Gathering' /\ Judging' /\ Reported'
         /\ pc' \notin Running
  BY DEF FetchedIsCurrent, Gathering, Judging, Reported, AcceptedIsCurrent, Running

\* A fetch brings the clone nearer to the server.
LEMMA FetchAllKeeps ==
  ASSUME Inv, FetchAll
  PROVE  Inv'
  <1>1. Typed /\ Forward /\ Stages  BY DEF Inv
  <1>2. /\ UNCHANGED <<server, head, moves, opt, who, noted, ref, left, got, pending, out,
                       report, verdict, wasServer, wasTip>>
        /\ pc = "fetch" /\ wasMoved' = moves
    BY DEF FetchAll, results
  <1>3. /\ pc' \in {"fetchOne", "resolve"}
        /\ opt.fetch => toFetch' = Names
        /\ pc' = "resolve" => IF opt.fetch THEN Names = {} ELSE toFetch' = toFetch
    BY DEF FetchAll
  <1>4. /\ tracking' \in [Branch -> Commit \cup {NoRef}]
        /\ \A b \in Branch : tracking'[b] \in {tracking[b], server[b]}
    <2>1. /\ tracking \in [Branch -> Commit \cup {NoRef}]
          /\ server \in [Branch -> Commit \cup {NoRef}]
      BY <1>1 DEF Typed, AnyTips
    <2>2. CASE opt.fetch
      <3>1. tracking' = [b \in Branch |-> IF b \in Tracked THEN server[b] ELSE tracking[b]]
        BY <2>2 DEF FetchAll
      <3> QED  BY <2>1, <3>1
    <2>3. CASE ~ opt.fetch
      <3>1. tracking' = tracking  BY <2>3 DEF FetchAll
      <3> QED  BY <2>1, <3>1
    <2> QED  BY <2>2, <2>3
  <1>5. Typed'  BY <1>1, <1>2, <1>4 DEF Typed, AnyTips
  <1>6. \A b \in Branch : ref[b] = "none"  BY <1>1, <1>2 DEF Stages
  <1>7. Forward'
    <2>1. \A b \in Branch : server[b] = NoRef \/ server[b] \in Commit
      BY <1>1 DEF Typed, AnyTips
    <2> QED  BY <1>1, <1>2, <1>4, <1>6, <2>1, HistoryFacts DEF Forward
  <1>8. Stages'
    BY <1>1, <1>2, <1>3, <1>6 DEF Stages, Running
  <1>9. Used' = Used  BY <1>2 DEF Used
  <1>10. Fetched'
    <2>1. FetchedIsCurrent'  BY <1>3, BeforeTheCommands
    <2>2. opt'.fetch => \A b \in (Used' \ noted') \ toFetch' : opt'.form[b] = "other"
      BY <1>2, <1>3, <1>9 DEF Names
    <2> QED  BY <2>1, <2>2 DEF Fetched
  <1>11. Unmoved'
    BY <1>1, <1>2, <1>3, <1>6 DEF Unmoved, Stages
  <1> QED  BY <1>3, <1>5, <1>7, <1>8, <1>10, <1>11, BeforeTheCommands DEF Inv

LEMMA FetchOneKeeps ==
  ASSUME Inv, NEW b \in Branch, FetchOne(b)
  PROVE  Inv'
  <1>1. Typed /\ Forward /\ Stages /\ Fetched  BY DEF Inv
  <1>2. /\ UNCHANGED <<server, head, moves, opt, who, ref, left, got, pending, out,
                       report, verdict, wasServer, wasTip>>
        /\ pc = "fetchOne" /\ wasMoved' = moves
        /\ toFetch' = toFetch \ {b}
        /\ pc' = IF toFetch' = {} THEN "resolve" ELSE pc
    BY DEF FetchOne, results
  <1>3. /\ tracking' = [tracking EXCEPT ![b] = IF server[b] # NoRef THEN server[b] ELSE @]
        /\ noted' = IF server[b] # NoRef THEN noted ELSE noted \cup {b}
    BY DEF FetchOne
  <1>4. /\ tracking \in [Branch -> Commit \cup {NoRef}]
        /\ server \in [Branch -> Commit \cup {NoRef}]
    BY <1>1 DEF Typed, AnyTips
  <1>5. /\ tracking' \in [Branch -> Commit \cup {NoRef}]
        /\ server[b] # NoRef => tracking'[b] = server[b]
        /\ server[b] = NoRef => tracking'[b] = tracking[b]
        /\ \A x \in Branch \ {b} : tracking'[x] = tracking[x]
    BY <1>3, <1>4
  <1>6. Typed'  BY <1>1, <1>2, <1>5 DEF Typed, AnyTips
  <1>7. \A x \in Branch : ref[x] = "none"  BY <1>1, <1>2 DEF Stages
  <1>8. Forward'
    <2>1. \A x \in Branch : tracking'[x] \in {tracking[x], server[x]}  BY <1>5
    <2>2. \A x \in Branch : server[x] = NoRef \/ server[x] \in Commit  BY <1>4
    <2> QED  BY <1>1, <1>2, <1>7, <2>1, <2>2, HistoryFacts DEF Forward
  <1>9. pc' \in {"fetchOne", "resolve"} /\ (pc' = "resolve" => toFetch' = {})  BY <1>2
  <1>10. Stages'  BY <1>1, <1>2, <1>7, <1>9 DEF Stages, Running
  <1>11. Used' = Used  BY <1>2 DEF Used
  <1>12. Fetched'
    <2>1. FetchedIsCurrent'  BY <1>9, BeforeTheCommands
    <2>2. ASSUME opt.fetch, NEW x \in (Used \ noted') \ toFetch',
                 server[x] # NoRef, wasServer[x] # NoRef, opt.form[x] \in {"short", "tracking"}
          PROVE  /\ tracking'[x] # NoRef /\ wasServer[x] \in History(tracking'[x])
                 /\ ref[x] # "head"
      <3>1. x \in Branch /\ ref[x] = "none"  BY <1>7, <2>2, UsedFacts
      <3>2. CASE x = b
        <4>1. tracking'[x] = server[x]  BY <1>5, <2>2, <3>2
        <4>2. wasServer[x] \in History(server[x])  BY <1>1, <2>2, <3>1 DEF Forward
        <4> QED  BY <2>2, <3>1, <4>1, <4>2
      <3>3. CASE x # b
        <4>1. x \in (Used \ noted) \ toFetch  BY <1>2, <1>3, <2>2, <3>3
        <4>2. tracking[x] # NoRef /\ wasServer[x] \in History(tracking[x])
          BY <1>1, <1>2, <2>2, <4>1 DEF Fetched
        <4>3. tracking'[x] = tracking[x]  BY <1>5, <3>1, <3>3
        <4> QED  BY <3>1, <4>2, <4>3
      <3> QED  BY <3>2, <3>3
    <2> QED  BY <1>2, <1>11, <2>1, <2>2 DEF Fetched
  <1>13. Unmoved'
    BY <1>1, <1>2, <1>7, <1>9 DEF Unmoved, Stages
  <1> QED  BY <1>6, <1>8, <1>9, <1>10, <1>12, <1>13, BeforeTheCommands DEF Inv

\* The name is chosen by what is there.
LEMMA ResolveKeeps ==
  ASSUME Inv, NEW b \in Branch, Resolve(b)
  PROVE  Inv'
  <1>1. Typed /\ Forward /\ Stages /\ Fetched /\ Unmoved  BY DEF Inv
  <1>2. /\ UNCHANGED <<server, tracking, head, moves, opt, who, pc, toFetch, noted, left, got,
                       pending, out, report, verdict, wasServer, wasTip, wasMoved>>
        /\ pc = "resolve"
    BY DEF Resolve, refs, results, history
  <1>2a. PICK name \in Tried(b) : /\ TipOf(name, b) # NoRef
                                  /\ name = "head" /\ "tracking" \in Tried(b) => tracking[b] = NoRef
                                  /\ ref' = [ref EXCEPT ![b] = name]
    BY Zenon DEF Resolve
  <1>2b. name \in {"tracking", "head"} /\ (name = "tracking" => tracking[b] # NoRef)
    BY <1>2a DEF Tried, TipOf
  <1>2c. name = Choice(b)
    BY <1>2a, <1>2b DEF Tried, TipOf, Choice
  <1>3. /\ ref' \in [Branch -> RefName]
        /\ ref'[b] = Choice(b)
        /\ \A x \in Branch \ {b} : ref'[x] = ref[x]
    BY <1>1, <1>2a, <1>2b, <1>2c DEF Typed, RefName
  <1>4. Typed'  BY <1>1, <1>2, <1>3 DEF Typed
  <1>5. Choice(b) = "tracking" => tracking[b] # NoRef  BY <1>2b, <1>2c
  <1>6. Choice(b) = "head" /\ opt.form[b] \in {"short", "tracking"} => tracking[b] = NoRef
    BY DEF Choice
  <1>7. Forward'
    <2>1. ASSUME NEW x \in Branch, ref'[x] = "tracking", tracking[x] = NoRef
          PROVE  server[x] = NoRef
      BY <1>1, <1>3, <1>5, <2>1 DEF Forward
    <2> QED  BY <1>1, <1>2, <2>1 DEF Forward
  <1>8. Stages'  BY <1>1, <1>2 DEF Stages, Running
  <1>9. Used' = Used  BY <1>2 DEF Used
  <1>10. Fetched'
    <2>1. FetchedIsCurrent'  BY <1>2, BeforeTheCommands
    <2>2. ASSUME opt.fetch, NEW x \in (Used \ noted) \ toFetch,
                 server[x] # NoRef, wasServer[x] # NoRef, opt.form[x] \in {"short", "tracking"}
          PROVE  /\ tracking[x] # NoRef /\ wasServer[x] \in History(tracking[x])
                 /\ ref'[x] # "head"
      <3>1. x \in Branch  BY <2>2, UsedFacts
      <3>2. /\ tracking[x] # NoRef /\ wasServer[x] \in History(tracking[x])
            /\ ref[x] # "head"
        BY <1>1, <1>2, <2>2 DEF Fetched
      <3> QED  BY <1>3, <1>6, <2>2, <3>1, <3>2
    <2> QED  BY <1>2, <1>9, <2>1, <2>2 DEF Fetched
  <1>11. Unmoved'
    <2>1. (\A x : Choice(x)' = Choice(x)) /\ Expected' = Expected
      BY <1>2, SameNow
    <2>2. moves = wasMoved => \A x \in Branch : ref'[x] \in {"none", Choice(x)}
      BY <1>1, <1>3 DEF Unmoved
    <2> QED  BY <1>1, <1>2, <2>1, <2>2 DEF Unmoved
  <1> QED  BY <1>2, <1>4, <1>7, <1>8, <1>10, <1>11, BeforeTheCommands DEF Inv

-----------------------------------------------------------------------------
(* The commands                                                            *)

\* A step between two commands, or of one that does not touch the branches.
Quiet ==
  /\ UNCHANGED <<server, tracking, head, moves, opt, toFetch, noted, ref, wasServer, wasMoved>>
  /\ pc \notin {"fetch", "failed"}

LEMMA QuietKeeps ==
  ASSUME Inv, Quiet, wasTip' \in AnyTips, FetchedIsCurrent'
  PROVE  /\ Typed' /\ Forward' /\ Fetched' /\ SameTips
         /\ moves' = wasMoved' => \A b \in Branch : ref'[b] \in {"none", Choice(b)'}
  <1>1. Typed /\ Forward /\ Fetched /\ Unmoved  BY DEF Inv
  <1>2. Typed' /\ Forward' /\ SameTips
    BY <1>1 DEF Quiet, Typed, Forward, SameTips
  <1>3. Used' = Used  BY <1>2, SameLookup
  <1>4. Fetched'  BY <1>1, <1>3 DEF Fetched, Quiet
  <1>5. moves' = wasMoved' => \A b \in Branch : ref'[b] \in {"none", Choice(b)'}
    BY <1>1 DEF Unmoved, Quiet, Choice
  <1> QED  BY <1>2, <1>4, <1>5

\* What lies between then and now, when neither changes.
LEMMA SameBetween ==
  ASSUME SameTips, wasTip' = wasTip
  PROVE  /\ \A ids, b : IssuesBetween(ids, b)' <=> IssuesBetween(ids, b)
         /\ \A c : FromPrevious(c)' <=> FromPrevious(c)
         /\ \A list : Listed(list)' <=> Listed(list)
         /\ \A c : NotLeftOut(c)' <=> NotLeftOut(c)
         /\ \A c : NotOnBase(c)' <=> NotOnBase(c)
         /\ \A list : Complete(list, wasTip)' <=> Complete(list, wasTip)
         /\ \A list : Real(list, wasTip)' <=> Real(list, wasTip)
         /\ \A b : Grown(b)' <=> Grown(b)
  <1>1. opt' = opt  BY DEF SameTips
  <1>2. /\ \A b : Tip(b)' = Tip(b)
        /\ \A t, c : Tracks(t, c)' <=> Tracks(t, c)
        /\ Used' = Used /\ Tips' = Tips
    BY SameLookup
  <1>3. \A ids, b : IssuesBetween(ids, b)' <=> IssuesBetween(ids, b)
    BY <1>1, <1>2 DEF IssuesBetween
  <1>4. Tip("previous")' = Tip("previous") /\ Tip("next")' = Tip("next")  BY <1>2
  <1>5. \A c : FromPrevious(c)' <=> FromPrevious(c)  BY <1>4 DEF FromPrevious
  <1>6. \A list : Listed(list)' <=> Listed(list)  BY <1>4 DEF Listed
  <1>7. \A c : NotLeftOut(c)' <=> NotLeftOut(c)  BY <1>1, <1>2, <1>5 DEF NotLeftOut
  <1>8. \A c : NotOnBase(c)' <=> NotOnBase(c)  BY <1>1, <1>2 DEF NotOnBase
  <1>9. \A c : /\ LeftOut(c, Tips)' <=> LeftOut(c, Tips)
               /\ LeftOut(c, wasTip)' <=> LeftOut(c, wasTip)
    BY <1>1, <1>2 DEF LeftOut
  <1>10. \A list : Complete(list, wasTip)' <=> Complete(list, wasTip)
    BY <1>9 DEF Complete
  <1>11. \A list : Real(list, wasTip)' <=> Real(list, wasTip)
    BY <1>4, <1>9 DEF Real
  <1>12. \A b : Grown(b)' <=> Grown(b)  BY <1>2 DEF Grown
  <1> QED  BY <1>3, <1>5, <1>6, <1>7, <1>8, <1>10, <1>11, <1>12

\* The tips a run uses are those of its choice, when nothing has moved.
LEMMA TipIsNow ==
  ASSUME Inv, moves = wasMoved, NEW b \in Branch, ref[b] # "none"
  PROVE  Tip(b) = Now(b)
  BY DEF Inv, Unmoved, Tip, Now

\* The tips are written down when the commands begin.
LEMMA BeginLogsKeeps ==
  ASSUME Inv, BeginLogs
  PROVE  Inv'
  <1>1. Typed /\ Stages /\ Fetched /\ Unmoved  BY DEF Inv
  <1>2. /\ UNCHANGED <<server, tracking, head, moves, opt, who, toFetch, noted, ref, out,
                       report, verdict, wasServer, wasMoved>>
        /\ pc = "resolve" /\ wasTip' = Tips
        /\ \A b \in Used : ref[b] # "none" /\ Tip(b) # NoRef
    BY DEF BeginLogs, refs
  <1>3. \/ /\ who = "tool" /\ pc' = "logs" /\ left' = Futures /\ got' = got
        \/ /\ who # "tool" /\ pc' = "check" /\ left' = {} /\ pending' = report
           /\ got' = [got EXCEPT !.commits = Candidates]
    BY DEF BeginLogs
  <1>4. \A b \in Used : wasTip'[b] = Tip(b)  BY <1>2, UsedFacts DEF Tips
  <1>5. wasTip' \in AnyTips
    <2>1. \A b \in Branch : Tip(b) \in Commit \cup {NoRef}  BY <1>1, TipIsCommit
    <2> QED  BY <1>2, <2>1 DEF Tips, AnyTips
  <1>6. Used' = Used  BY <1>2 DEF Used
  <1>7. toFetch = {}  BY <1>1, <1>2 DEF Stages
  <1>8. FetchedIsCurrent'
    <2>1. ASSUME opt.fetch, NEW b \in Used \ noted, wasServer[b] # NoRef, server[b] # NoRef,
                 opt.form[b] \in {"short", "tracking"}
          PROVE  wasServer[b] \in History(wasTip'[b])
      <3>1. /\ tracking[b] # NoRef /\ wasServer[b] \in History(tracking[b])
            /\ ref[b] # "head"
        BY <1>1, <1>2, <1>7, <2>1 DEF Fetched
      <3>2. ref[b] = "tracking"
        <4>1. ref[b] \in RefName  BY <1>1, <2>1, UsedFacts DEF Typed
        <4>2. ref[b] # "none"  BY <1>2, <2>1
        <4> QED  BY <3>1, <4>1, <4>2 DEF RefName
      <3>3. wasTip'[b] = tracking[b]  BY <1>4, <2>1, <3>2 DEF Tip, TipOf
      <3> QED  BY <3>1, <3>3
    <2> QED  BY <1>2, <1>6, <2>1 DEF FetchedIsCurrent
  <1>9. Quiet  BY <1>2 DEF Quiet
  <1>10. /\ Typed' /\ Forward' /\ Fetched' /\ SameTips
         /\ moves' = wasMoved' => \A b \in Branch : ref'[b] \in {"none", Choice(b)'}
    BY <1>5, <1>8, <1>9, QuietKeeps
  <1>11. \A b \in Used : Grown(b)'
    <2>1. ASSUME NEW b \in Used  PROVE Grown(b)'
      <3>1. Tip(b) \in Commit /\ Tip(b)' = Tip(b)
        BY <1>1, <1>2, <1>10, UsedFacts, TipIsCommit, SameLookup
      <3> QED  BY <1>4, <3>1, HistoryFacts DEF Grown
    <2> QED  BY <2>1
  <1>12. /\ got' = [next |-> got'.next, base |-> got'.base,
                    commits |-> got'.commits, names |-> got'.names]
         /\ got'.names = got.names
         /\ pc' = "check" => got'.commits = Candidates
    BY <1>1, <1>3 DEF Stages
  <1>13. Stages'
    <2>1. \A c \in DOMAIN got'.names : got'.names[c] \in {{}, FilesOf[c]}
      BY <1>1, <1>12 DEF Stages
    <2>2. \A b \in Used : ref'[b] # "none" /\ wasTip'[b] # NoRef  BY <1>2, <1>4
    <2>3. pc' \in {"logs", "check"} /\ out' = {}
      BY <1>1, <1>2, <1>3 DEF Stages
    <2>4. pc' = "check" => who' = "validator"
      BY <1>1, <1>2, <1>3 DEF Stages
    <2>5. who' \in {"tool", "validator"}  BY <1>1, <1>2 DEF Stages
    <2>6. "base" \in left' => opt'.base  BY <1>2, <1>3 DEF Futures
    <2> QED  BY <1>2, <1>6, <1>7, <1>12, <2>1, <2>2, <2>3, <2>4, <2>5, <2>6 DEF Stages
  <1>14. Gathering'
    <2>1. pc' = "logs" => "next" \in left' /\ "commits" \in left' /\ (opt.base => "base" \in left')
      BY <1>3 DEF Futures
    <2> QED  BY <1>2, <1>3, <2>1 DEF Gathering
  <1>15. Judging' /\ Reported'
    BY <1>3 DEF Judging, Reported, AcceptedIsCurrent
  <1>16. Unmoved'
    <2>1. SUFFICES ASSUME moves = wasMoved  PROVE Unmoved'
      BY <1>2 DEF Unmoved
    <2>2. Candidates = ToList
      <3>1. Tip("previous") = Now("previous") /\ Tip("next") = Now("next")
        BY <1>2, <2>1, UsedFacts, TipIsNow
      <3> QED  BY <3>1 DEF Candidates, ToList
    <2>3. ToList' = ToList /\ Expected' = Expected  BY <1>10, SameLookup
    <2>4. pc' = "logs" => "next" \in left' /\ "commits" \in left' /\ (opt.base => "base" \in left')
      BY <1>3 DEF Futures
    <2>5. pc' = "check" => got'.commits = ToList' /\ pending' \subseteq report'
      BY <1>2, <1>3, <1>12, <2>2, <2>3
    <2>6. who = "validator" => report = Expected  BY <1>1, <1>2, <2>1 DEF Unmoved
    <2> QED  BY <1>2, <1>3, <1>10, <2>1, <2>3, <2>4, <2>5, <2>6 DEF Unmoved
  <1> QED  BY <1>6, <1>10, <1>11, <1>13, <1>14, <1>15, <1>16 DEF Inv

\* A command that ends while nothing else happens.
LEMMA FutureFrame ==
  ASSUME Inv, NEW f, NEW value, Future(f, value)
  PROVE  /\ UNCHANGED <<server, tracking, head, moves, opt, who, pc, toFetch, noted, ref,
                        pending, out, report, verdict, wasServer, wasTip, wasMoved>>
         /\ pc = "logs" /\ left' = left \ {f}
         /\ got' = [got EXCEPT ![f] = value]
         /\ \A b \in Used : Tip(b) # NoRef /\ ref[b] # "none" /\ wasTip[b] # NoRef
         /\ Typed' /\ Forward' /\ Fetched' /\ SameTips
         /\ \A b \in Used' : Grown(b)'
         /\ Judging' /\ Reported'
  <1>1. /\ UNCHANGED <<server, tracking, head, moves, opt, who, pc, toFetch, noted, ref,
                       pending, out, report, verdict, wasServer, wasTip, wasMoved>>
        /\ pc = "logs" /\ left' = left \ {f}
        /\ got' = [got EXCEPT ![f] = value]
        /\ \A b \in Used : Tip(b) # NoRef
    BY DEF Future, refs, history
  <1>2. Typed /\ Stages /\ Fetched  BY DEF Inv
  <1>3. Quiet  BY <1>1 DEF Quiet
  <1>4. Used' = Used  BY <1>1 DEF Used
  <1>5. FetchedIsCurrent'  BY <1>1, <1>2, <1>4 DEF Fetched, FetchedIsCurrent
  <1>6. wasTip' \in AnyTips  BY <1>1, <1>2 DEF Typed
  <1>7. Typed' /\ Forward' /\ Fetched' /\ SameTips  BY <1>3, <1>5, <1>6, QuietKeeps
  <1>8. \A b \in Used' : Grown(b)'
    <2>1. \A b \in Used : Grown(b)  BY <1>1 DEF Inv, Running
    <2> QED  BY <1>1, <1>4, <1>7, <2>1, SameBetween
  <1>9. Judging' /\ Reported'
    BY <1>1 DEF Judging, Reported, AcceptedIsCurrent
  <1>10. \A b \in Used : ref[b] # "none" /\ wasTip[b] # NoRef
    BY <1>1, <1>2 DEF Stages, Running
  <1> QED  BY <1>1, <1>7, <1>8, <1>9, <1>10

\* One of the four commands ends, with a result that is right for its time.
LEMMA FutureKeeps ==
  ASSUME Inv, NEW f \in {"next", "base", "commits", "names"}, NEW value, Future(f, value),
         f = "next" => /\ IssuesBetween(value, "next")
                       /\ moves = wasMoved => value = Issues(Now("next"), opt.window),
         f = "base" => /\ IssuesBetween(value, "base")
                       /\ moves = wasMoved => value = Issues(Now("base"), opt.window),
         f = "commits" => /\ Listed(value) /\ \A c \in value : FromPrevious(c)
                          /\ moves = wasMoved => value = ToList,
         f = "names" => \A c \in DOMAIN value : value[c] \in {{}, FilesOf[c]}
  PROVE  Inv'
  <1>1. Stages /\ Gathering /\ Unmoved  BY DEF Inv
  <1>2. /\ UNCHANGED <<server, tracking, head, moves, opt, who, pc, toFetch, noted, ref,
                       pending, out, report, verdict, wasServer, wasTip, wasMoved>>
        /\ pc = "logs" /\ left' = left \ {f}
        /\ got' = [got EXCEPT ![f] = value]
    BY FutureFrame
  <1>3. Typed' /\ Forward' /\ Fetched' /\ SameTips /\ Judging' /\ Reported'
        /\ \A b \in Used' : Grown(b)'
    BY FutureFrame
  <1>4. got = [next |-> got.next, base |-> got.base, commits |-> got.commits, names |-> got.names]
    BY <1>1 DEF Stages
  <1>5. /\ got'.next = IF f = "next" THEN value ELSE got.next
        /\ got'.base = IF f = "base" THEN value ELSE got.base
        /\ got'.commits = IF f = "commits" THEN value ELSE got.commits
        /\ got'.names = IF f = "names" THEN value ELSE got.names
        /\ got' = [next |-> got'.next, base |-> got'.base,
                   commits |-> got'.commits, names |-> got'.names]
    <2>1. CASE f = "next"  BY <1>2, <1>4, <2>1
    <2>2. CASE f = "base"  BY <1>2, <1>4, <2>2
    <2>3. CASE f = "commits"  BY <1>2, <1>4, <2>3
    <2>4. CASE f = "names"  BY <1>2, <1>4, <2>4
    <2> QED  BY <2>1, <2>2, <2>3, <2>4
  <1>6. Stages'
    <2>1. \A c \in DOMAIN got'.names : got'.names[c] \in {{}, FilesOf[c]}
      <3>1. CASE f = "names"
        <4>1. got'.names = value  BY <1>5, <3>1
        <4> QED  BY <3>1, <4>1
      <3>2. CASE f # "names"
        <4>1. got'.names = got.names  BY <1>5, <3>2
        <4> QED  BY <1>1, <4>1 DEF Stages
      <3> QED  BY <3>1, <3>2
    <2>2. \A b \in Used' : ref'[b] # "none" /\ wasTip'[b] # NoRef
      <3>1. Used' = Used  BY <1>2 DEF Used
      <3> QED  BY <1>1, <1>2, <3>1 DEF Stages, Running
    <2>3. /\ who' \in {"tool", "validator"} /\ out' = {} /\ toFetch' = {}
          /\ "base" \in left' => opt'.base
      BY <1>1, <1>2 DEF Stages, Running
    <2>4. pc' = "logs"  BY <1>2
    <2>5. got' = [next |-> got'.next, base |-> got'.base,
                  commits |-> got'.commits, names |-> got'.names]
      BY <1>5
    <2> QED  BY <2>1, <2>2, <2>3, <2>4, <2>5 DEF Stages
  <1>7. Gathering'
    <2>1. "next" \notin left' => IssuesBetween(got'.next, "next")
      BY <1>1, <1>2, <1>5 DEF Gathering
    <2>2. opt.base /\ "base" \notin left' => IssuesBetween(got'.base, "base")
      BY <1>1, <1>2, <1>5 DEF Gathering
    <2>3. "commits" \notin left' => Listed(got'.commits) /\ \A c \in got'.commits : FromPrevious(c)
      BY <1>1, <1>2, <1>5 DEF Gathering
    <2>4. wasTip' = wasTip /\ opt' = opt  BY <1>2
    <2>5. /\ \A ids, b : IssuesBetween(ids, b)' <=> IssuesBetween(ids, b)
          /\ \A c : FromPrevious(c)' <=> FromPrevious(c)
          /\ \A list : Listed(list)' <=> Listed(list)
      BY <1>3, <2>4, SameBetween
    <2> QED  BY <2>1, <2>2, <2>3, <2>4, <2>5 DEF Gathering
  <1>8. Unmoved'
    <2>1. SUFFICES ASSUME moves = wasMoved  PROVE Unmoved'
      BY <1>2 DEF Unmoved
    <2>2. /\ "next" \notin left' => got'.next = Issues(Now("next"), opt.window)
          /\ opt.base /\ "base" \notin left' => got'.base = Issues(Now("base"), opt.window)
          /\ "commits" \notin left' => got'.commits = ToList
      BY <1>1, <1>2, <1>5, <2>1 DEF Unmoved
    <2>3. /\ \A b : Now(b)' = Now(b) /\ Choice(b)' = Choice(b)
          /\ ToList' = ToList /\ Expected' = Expected
      BY <1>3, SameLookup
    <2>4. Now("next")' = Now("next") /\ Now("base")' = Now("base")  BY <2>3
    <2>5. \A b \in Branch : ref'[b] \in {"none", Choice(b)'}
      BY <1>1, <1>2, <2>1, <2>3 DEF Unmoved
    <2>6. who = "validator" => report = Expected  BY <1>1, <1>2, <2>1 DEF Unmoved
    <2> QED  BY <1>2, <2>2, <2>3, <2>4, <2>5, <2>6 DEF Unmoved
  <1> QED  BY <1>3, <1>6, <1>7, <1>8 DEF Inv

\* What git finds from a tip that is there.
LEMMA GrownTip ==
  ASSUME Inv, NEW b \in Used, pc \in Running, Tip(b) # NoRef
  PROVE  /\ History(wasTip[b]) \subseteq History(Tip(b))
         /\ IssuesBetween(Issues(Tip(b), opt.window), b)
  <1>1. Typed /\ Stages /\ b \in Branch /\ Grown(b)  BY UsedFacts DEF Inv
  <1>2. Tip(b) \in Commit /\ wasTip[b] \in Commit \cup {NoRef}  BY <1>1, TipIsCommit
  <1>3. Ahead(wasTip[b], Tip(b))
    <2>1. wasTip[b] # NoRef  BY <1>1 DEF Stages
    <2> QED  BY <1>1, <2>1 DEF Ahead, Grown
  <1>4. PICK t, u : t = wasTip[b] /\ u = Tip(b)  OBVIOUS
  <1>5. History(t) \subseteq History(u) /\ \A date : Issues(t, date) \subseteq Issues(u, date)
    BY <1>2, <1>3, <1>4, AheadGrows
  <1> QED  BY <1>4, <1>5 DEF IssuesBetween

LEMMA LogNextKeeps ==
  ASSUME Inv, LogNext
  PROVE  Inv'
  <1>1. Future("next", Issues(Tip("next"), opt.window))  BY DEF LogNext
  <1>2. pc = "logs" /\ Tip("next") # NoRef /\ ref["next"] # "none"
    <2>1. "next" \in Used  BY UsedFacts
    <2> QED  BY <1>1, <2>1, FutureFrame
  <1>3. IssuesBetween(Issues(Tip("next"), opt.window), "next")
    BY <1>2, UsedFacts, GrownTip DEF Running
  <1>4. moves = wasMoved => Issues(Tip("next"), opt.window) = Issues(Now("next"), opt.window)
    BY <1>2, UsedFacts, TipIsNow
  <1> QED  BY <1>1, <1>3, <1>4, FutureKeeps

LEMMA LogBaseKeeps ==
  ASSUME Inv, LogBase
  PROVE  Inv'
  <1>1. Future("base", Issues(Tip("base"), opt.window)) /\ "base" \in left
    BY DEF LogBase, Future
  <1>2. CASE opt.base
    <2>1. pc = "logs" /\ Tip("base") # NoRef /\ ref["base"] # "none"
      <3>1. "base" \in Used  BY <1>2, UsedFacts
      <3> QED  BY <1>1, <3>1, FutureFrame
    <2>2. IssuesBetween(Issues(Tip("base"), opt.window), "base")
      BY <1>2, <2>1, UsedFacts, GrownTip DEF Running
    <2>3. moves = wasMoved => Issues(Tip("base"), opt.window) = Issues(Now("base"), opt.window)
      BY <1>2, <2>1, UsedFacts, TipIsNow
    <2> QED  BY <1>1, <2>2, <2>3, FutureKeeps
  <1>3. CASE ~ opt.base
    <2>1. "base" \notin left  BY <1>3 DEF Inv, Stages
    <2> QED  BY <1>1, <2>1
  <1> QED  BY <1>2, <1>3

LEMMA LogCommitsKeeps ==
  ASSUME Inv, LogCommits
  PROVE  Inv'
  <1>1. Future("commits", Candidates)  BY DEF LogCommits
  <1>2. "next" \in Used /\ "previous" \in Used  BY UsedFacts
  <1>3. /\ pc = "logs"
        /\ Tip("next") # NoRef /\ ref["next"] # "none"
        /\ Tip("previous") # NoRef /\ ref["previous"] # "none"
    BY <1>1, <1>2, FutureFrame
  <1>4. /\ History(wasTip["next"]) \subseteq History(Tip("next"))
        /\ History(wasTip["previous"]) \subseteq History(Tip("previous"))
    BY <1>2, <1>3, GrownTip DEF Running
  <1>5. \A c \in Candidates : FromPrevious(c)
    BY <1>4 DEF Candidates, Log, FromPrevious
  <1>6. Listed(Candidates)
    BY <1>4, PlainLog DEF Listed, Candidates, Log
  <1>7. moves = wasMoved => Candidates = ToList
    <2>1. SUFFICES ASSUME moves = wasMoved  PROVE Candidates = ToList
      OBVIOUS
    <2>2. Tip("previous") = Now("previous") /\ Tip("next") = Now("next")
      BY <1>2, <1>3, <2>1, UsedFacts, TipIsNow
    <2> QED  BY <2>2 DEF Candidates, ToList
  <1> QED  BY <1>1, <1>5, <1>6, <1>7, FutureKeeps

LEMMA LogNamesKeeps ==
  ASSUME Inv, LogNames
  PROVE  Inv'
  <1> DEFINE value == [c \in Candidates |-> LogFiles(c)]
  <1>1. Future("names", value)  BY DEF LogNames
  <1>2. \A c \in DOMAIN value : value[c] \in {{}, FilesOf[c]}
    BY DEF LogFiles
  <1> HIDE DEF value
  <1> QED  BY <1>1, <1>2, FutureKeeps

-----------------------------------------------------------------------------
(* The results put together, and the report                                *)

\* A step after the commands have begun, that leaves the branches alone.
LEMMA StepKeeps ==
  ASSUME Inv, Quiet, wasTip' = wasTip,
         pc' \in {"logs", "judge", "reported"} /\ who' = "tool" =>
           pc \in {"logs", "judge", "reported"} /\ who = "tool"
  PROVE  /\ Typed' /\ Forward' /\ Fetched' /\ SameTips
         /\ moves' = wasMoved' => \A b \in Branch : ref'[b] \in {"none", Choice(b)'}
         /\ pc \in Running => \A b \in Used' : Grown(b)'
  <1>1. Typed /\ Fetched  BY DEF Inv
  <1>2. Used' = Used  BY DEF Quiet, Used
  <1>3. FetchedIsCurrent'
    BY <1>1, <1>2 DEF Quiet, Fetched, FetchedIsCurrent
  <1>4. wasTip' \in AnyTips  BY <1>1 DEF Typed
  <1>5. /\ Typed' /\ Forward' /\ Fetched' /\ SameTips
        /\ moves' = wasMoved' => \A b \in Branch : ref'[b] \in {"none", Choice(b)'}
    BY <1>3, <1>4, QuietKeeps
  <1>6. pc \in Running => \A b \in Used' : Grown(b)'
    <2>1. pc \in Running => \A b \in Used : Grown(b)  BY DEF Inv
    <2> QED  BY <1>2, <1>5, <2>1, SameBetween
  <1> QED  BY <1>5, <1>6

\* What is squelched stays so when more is known.
LEMMA SquelchedGrows ==
  ASSUME NEW ids, NEW known, NEW more, known \subseteq more, Squelched(ids, known)
  PROVE  Squelched(ids, more)
  BY DEF Squelched

\* A list that is made of the issues between then and now leaves out what is
\* tracked then, and nothing that is not tracked now.
LEMMA BetweenTracks ==
  ASSUME NEW ids, NEW b, IssuesBetween(ids, b), NEW c
  PROVE  /\ Tracks(wasTip[b], c) => Squelched(IdsOf[c], ids)
         /\ Tip(b) # NoRef /\ Squelched(IdsOf[c], ids) => Tracks(Tip(b), c)
  <1>1. /\ Issues(wasTip[b], opt.window) \subseteq ids
        /\ Tip(b) # NoRef => ids \subseteq Issues(Tip(b), opt.window)
    BY DEF IssuesBetween
  <1>2. Tracks(wasTip[b], c) => Squelched(IdsOf[c], Issues(wasTip[b], opt.window))
    BY TracksIsSquelched
  <1>3. Squelched(IdsOf[c], Issues(Tip(b), opt.window)) => Tracks(Tip(b), c)
    BY TracksIsSquelched
  <1> QED  BY <1>1, <1>2, <1>3, SquelchedGrows

\* One reason on a branch that is used is enough.
LEMMA ReasonIsEnough ==
  ASSUME NEW b \in Used \ {"previous"}, NEW c, c \in History(Tip(b)) \/ Tracks(Tip(b), c)
  PROVE  LeftOut(c, Tips)
  BY LeftOutByBranch

LEMMA GatheredKeeps ==
  ASSUME Inv, Gathered
  PROVE  Inv'
  <1>1. Typed /\ Stages /\ Gathering /\ Unmoved  BY DEF Inv
  <1>2. /\ UNCHANGED <<server, tracking, head, moves, opt, who, toFetch, noted, ref, left, got,
                       out, report, verdict, wasServer, wasTip, wasMoved>>
        /\ pc = "logs" /\ left = {} /\ pc' = "judge"
    BY DEF Gathered, refs, history
  <1>3. /\ Typed' /\ Forward' /\ Fetched' /\ SameTips
        /\ moves' = wasMoved' => \A b \in Branch : ref'[b] \in {"none", Choice(b)'}
        /\ \A b \in Used' : Grown(b)'
    <2>1. Quiet  BY <1>2 DEF Quiet
    <2> QED  BY <1>2, <2>1, StepKeeps DEF Running
  <1>4. \A c : Shown(c) = FilesOf[c]
    BY <1>1 DEF Shown, Stages
  <1>5. pending' = {c \in got.commits : /\ opt.skip => ~ OnlySkipped(FilesOf[c])
                                        /\ ~ Squelched(IdsOf[c], got.next)}
    BY <1>4 DEF Gathered
  <1>6. /\ IssuesBetween(got.next, "next") /\ Listed(got.commits)
        /\ \A c \in got.commits : FromPrevious(c)
    BY <1>1, <1>2 DEF Gathering
  <1>7. out = {}  BY <1>1, <1>2 DEF Stages
  <1>8. Used' = Used  BY <1>2 DEF Used
  <1>9. Stages'  BY <1>1, <1>2, <1>8 DEF Stages, Running
  <1>10. wasTip' = wasTip /\ opt' = opt  BY <1>2
  <1>11. Gathering'
    <2>1. /\ \A ids, b : IssuesBetween(ids, b)' <=> IssuesBetween(ids, b)
          /\ \A c : FromPrevious(c)' <=> FromPrevious(c)
          /\ \A list : Listed(list)' <=> Listed(list)
      BY <1>3, <1>10, SameBetween
    <2> QED  BY <1>1, <1>2, <2>1 DEF Gathering
  <1>12. \A c \in pending' : NotLeftOut(c)
    <2>1. SUFFICES ASSUME NEW c \in pending'  PROVE NotLeftOut(c)
      OBVIOUS
    <2>2. /\ FromPrevious(c) /\ ~ Squelched(IdsOf[c], got.next)
          /\ opt.skip => ~ OnlySkipped(FilesOf[c])
      BY <1>5, <1>6
    <2>3. ~ Tracks(wasTip["next"], c)  BY <1>6, <2>2, BetweenTracks
    <2> QED  BY <2>2, <2>3 DEF NotLeftOut
  <1>13. ASSUME AllThere  PROVE Complete(pending', wasTip)
    <2>1. SUFFICES ASSUME NEW c \in Log(wasTip["previous"], NoRef, Since), c \notin pending'
                   PROVE  LeftOut(c, Tips)
      BY DEF Complete
    <2>2. "next" \in Used \ {"previous"} /\ Tip("next") # NoRef
      BY <1>13, UsedFacts DEF AllThere
    <2>3. CASE c \in History(Tip("next"))  BY <2>2, <2>3, ReasonIsEnough
    <2>4. CASE c \in got.commits /\ opt.skip /\ OnlySkipped(FilesOf[c])
      BY <2>4 DEF LeftOut
    <2>5. CASE c \in got.commits /\ Squelched(IdsOf[c], got.next)
      <3>1. Tracks(Tip("next"), c)  BY <1>6, <2>2, <2>5, BetweenTracks
      <3> QED  BY <2>2, <3>1, ReasonIsEnough
    <2>6. c \in got.commits \/ c \in History(Tip("next"))
      BY <1>6, <2>1, <2>2 DEF Listed
    <2> QED  BY <1>5, <2>1, <2>3, <2>4, <2>5, <2>6
  <1>14. Judging'
    <2>1. PICK list : list = pending'  OBVIOUS
    <2>2. /\ \A c : NotLeftOut(c)' <=> NotLeftOut(c)
          /\ Complete(list, wasTip)' <=> Complete(list, wasTip)
          /\ AllThere' <=> AllThere
      BY <1>3, <1>10, SameBetween, SameLookup
    <2>3. AllThere' => Complete(list, wasTip)'  BY <1>13, <2>1, <2>2
    <2>4. list = pending' \cup out' /\ out' = {}  BY <1>2, <1>7, <2>1
    <2>5. AllThere' => Complete(pending \cup out, wasTip)'
      BY <2>3, <2>4 DEF Complete
    <2> QED  BY <1>12, <2>2, <2>4, <2>5 DEF Judging
  <1>15. Reported'  BY <1>2 DEF Reported, AcceptedIsCurrent
  <1>16. Unmoved'
    <2>1. SUFFICES ASSUME moves = wasMoved  PROVE Unmoved'
      BY <1>2 DEF Unmoved
    <2>2. /\ got.next = Issues(Now("next"), opt.window) /\ got.commits = ToList
          /\ opt.base => got.base = Issues(Now("base"), opt.window)
          /\ who = "validator" => report = Expected
      BY <1>1, <1>2, <2>1 DEF Unmoved
    <2>3. pending' = {c \in ToList : Gathers(c)}  BY <1>5, <2>2 DEF Gathers
    <2>4. /\ ToList' = ToList /\ Expected' = Expected
          /\ Now("next")' = Now("next") /\ Now("base")' = Now("base")
      BY <1>3, SameLookup
    <2>5. /\ \A c : Gathers(c)' <=> Gathers(c)
          /\ \A c : OnBase(c)' <=> OnBase(c)
      BY <1>3, SameLookup
    <2>6. out' = {c \in ToList' \ pending' : Gathers(c)' /\ ~ OnBase(c)'}
      BY <1>2, <1>7, <2>3, <2>4, <2>5
    <2>7. \A c \in pending' : c \in ToList' /\ Gathers(c)'
      BY <2>3, <2>4, <2>5
    <2> QED  BY <1>2, <1>3, <2>1, <2>2, <2>4, <2>6, <2>7 DEF Unmoved
  <1> QED  BY <1>3, <1>9, <1>11, <1>14, <1>15, <1>16 DEF Inv

\* A commit is dropped for a reason the base branch has now, or kept because it
\* had none when the commands began.
LEMMA JudgeKeeps ==
  ASSUME Inv, NEW c, Judge(c)
  PROVE  Inv'
  <1>1. Typed /\ Stages /\ Gathering /\ Judging /\ Unmoved  BY DEF Inv
  <1>2. /\ UNCHANGED <<server, tracking, head, moves, opt, who, pc, toFetch, noted, ref, left,
                       got, report, verdict, wasServer, wasTip, wasMoved>>
        /\ pc = "judge" /\ c \in pending /\ pending' = pending \ {c}
        /\ opt.base => Tip("base") # NoRef
    BY DEF Judge, refs, history
  <1> DEFINE Dropped == opt.base /\ (c \in History(Tip("base")) \/ Squelched(IdsOf[c], got.base))
  <1>3. out' = IF Dropped THEN out ELSE out \cup {c}  BY DEF Judge
  <1>4. /\ Typed' /\ Forward' /\ Fetched' /\ SameTips
        /\ moves' = wasMoved' => \A b \in Branch : ref'[b] \in {"none", Choice(b)'}
        /\ \A b \in Used' : Grown(b)'
    <2>1. Quiet  BY <1>2 DEF Quiet
    <2> QED  BY <1>2, <2>1, StepKeeps DEF Running
  <1>5. Used' = Used  BY <1>2 DEF Used
  <1>6. Stages'  BY <1>1, <1>2, <1>5 DEF Stages, Running
  <1>7. wasTip' = wasTip /\ opt' = opt  BY <1>2
  <1>8. Gathering'
    <2>1. /\ \A ids, b : IssuesBetween(ids, b)' <=> IssuesBetween(ids, b)
          /\ \A d : FromPrevious(d)' <=> FromPrevious(d)
          /\ \A list : Listed(list)' <=> Listed(list)
      BY <1>4, <1>7, SameBetween
    <2> QED  BY <1>1, <1>2, <2>1 DEF Gathering
  <1>9. opt.base => IssuesBetween(got.base, "base")
    BY <1>1, <1>2 DEF Gathering, Stages
  <1>10. ~ Dropped => NotOnBase(c)
    <2>1. SUFFICES ASSUME ~ Dropped, opt.base
                   PROVE  c \notin History(wasTip["base"]) /\ ~ Tracks(wasTip["base"], c)
      BY DEF NotOnBase
    <2>2. History(wasTip["base"]) \subseteq History(Tip("base"))
      BY <1>2, <2>1, UsedFacts, GrownTip DEF Running
    <2>3. Tracks(wasTip["base"], c) => Squelched(IdsOf[c], got.base)
      BY <1>9, <2>1, BetweenTracks
    <2> QED  BY <2>1, <2>2, <2>3
  <1>11. Dropped => LeftOut(c, Tips)
    <2>1. SUFFICES ASSUME Dropped  PROVE LeftOut(c, Tips)
      OBVIOUS
    <2>2. "base" \in Used \ {"previous"} /\ Tip("base") # NoRef
      BY <1>2, <2>1, UsedFacts
    <2>3. Squelched(IdsOf[c], got.base) => Tracks(Tip("base"), c)
      BY <1>9, <2>1, <2>2, BetweenTracks
    <2> QED  BY <2>1, <2>2, <2>3, ReasonIsEnough
  <1>12. ASSUME AllThere  PROVE Complete(pending' \cup out', wasTip)
    <2>1. Complete(pending \cup out, wasTip)  BY <1>1, <1>2, <1>12 DEF Judging
    <2> QED  BY <1>2, <1>3, <1>11, <2>1 DEF Complete
  <1>13. \A d \in out' : NotLeftOut(d) /\ NotOnBase(d)
    BY <1>1, <1>2, <1>3, <1>10 DEF Judging
  <1>14. \A d \in pending' : NotLeftOut(d)  BY <1>1, <1>2 DEF Judging
  <1>15. Judging'
    <2>1. PICK list : list = pending' \cup out'  OBVIOUS
    <2>2. /\ \A d : NotLeftOut(d)' <=> NotLeftOut(d)
          /\ \A d : NotOnBase(d)' <=> NotOnBase(d)
          /\ Complete(list, wasTip)' <=> Complete(list, wasTip)
          /\ AllThere' <=> AllThere
      BY <1>4, <1>7, SameBetween, SameLookup
    <2>3. AllThere' => Complete(list, wasTip)'  BY <1>12, <2>1, <2>2
    <2>4. AllThere' => Complete(pending \cup out, wasTip)'
      BY <2>1, <2>3 DEF Complete
    <2> QED  BY <1>13, <1>14, <2>2, <2>4 DEF Judging
  <1>16. Reported'  BY <1>2 DEF Reported, AcceptedIsCurrent
  <1>17. Unmoved'
    <2>1. SUFFICES ASSUME moves = wasMoved  PROVE Unmoved'
      BY <1>2 DEF Unmoved
    <2>2. /\ \A d \in pending : d \in ToList /\ Gathers(d)
          /\ out = {d \in ToList \ pending : Gathers(d) /\ ~ OnBase(d)}
          /\ opt.base => got.base = Issues(Now("base"), opt.window)
          /\ got.next = Issues(Now("next"), opt.window) /\ got.commits = ToList
          /\ who = "validator" => report = Expected
      BY <1>1, <1>2, <2>1 DEF Unmoved, Stages
    <2>3. opt.base => Tip("base") = Now("base")
      <3>1. opt.base => ref["base"] # "none" /\ "base" \in Branch
        BY <1>1, <1>2, UsedFacts DEF Stages, Running
      <3> QED  BY <2>1, <3>1, TipIsNow
    <2>4. Dropped <=> OnBase(c)  BY <2>2, <2>3 DEF OnBase
    <2>5. out' = {d \in ToList \ pending' : Gathers(d) /\ ~ OnBase(d)}
      <3> HIDE DEF Dropped
      <3> QED  BY <1>2, <1>3, <2>2, <2>4
    <2>6. /\ ToList' = ToList /\ Expected' = Expected
          /\ Now("next")' = Now("next") /\ Now("base")' = Now("base")
          /\ \A d : Gathers(d)' <=> Gathers(d)
          /\ \A d : OnBase(d)' <=> OnBase(d)
      BY <1>4, SameLookup
    <2>7. out' = {d \in ToList' \ pending' : Gathers(d)' /\ ~ OnBase(d)'}
      BY <2>5, <2>6
    <2>8. \A d \in pending' : d \in ToList' /\ Gathers(d)'
      BY <1>2, <2>2, <2>6
    <2> QED  BY <1>2, <1>4, <2>1, <2>2, <2>6, <2>7, <2>8 DEF Unmoved
  <1> QED  BY <1>4, <1>6, <1>8, <1>15, <1>16, <1>17 DEF Inv

\* A list of commits nothing spoke against is real.
LEMMA RealWhen ==
  ASSUME Typed, AllThere, NEW list, \A c \in list : NotLeftOut(c) /\ NotOnBase(c)
  PROVE  Real(list, wasTip)
  <1>1. SUFFICES ASSUME NEW c \in list
                 PROVE  c \in Log(Tip("previous"), NoRef, Since) /\ ~ LeftOut(c, wasTip)
    BY DEF Real
  <1>2. Tip("previous") # NoRef  BY UsedFacts DEF AllThere
  <1>3. c \in Log(Tip("previous"), NoRef, Since)
    BY <1>2, PlainLog DEF NotLeftOut, FromPrevious
  <1>4. ~ LeftOut(c, wasTip)
    BY UsedFacts DEF NotLeftOut, NotOnBase, FromPrevious, LeftOut
  <1> QED  BY <1>3, <1>4

\* When every commit has been looked at, the list is complete and real.
LEMMA JudgedList ==
  ASSUME Inv, pc = "judge", pending = {}
  PROVE  /\ AllThere => Complete(out, wasTip) /\ Real(out, wasTip)
         /\ moves = wasMoved => out = Expected
  <1>1. Typed /\ Judging /\ Unmoved  BY DEF Inv
  <1>2. AllThere => Complete(out, wasTip)
    <2>1. pending \cup out = out  OBVIOUS
    <2> QED  BY <1>1, <2>1 DEF Judging
  <1>3. AllThere => Real(out, wasTip)
    BY <1>1, RealWhen DEF Judging
  <1>4. moves = wasMoved => out = Expected
    BY <1>1 DEF Unmoved, Expected
  <1> QED  BY <1>2, <1>3, <1>4

LEMMA ReportKeeps ==
  ASSUME Inv, Report
  PROVE  Inv'
  <1>1. Typed /\ Stages  BY DEF Inv
  <1>2. /\ UNCHANGED <<server, tracking, head, moves, opt, who, toFetch, noted, ref, left, got,
                       pending, out, verdict, wasServer, wasTip, wasMoved>>
        /\ pc = "judge" /\ pending = {} /\ who = "tool" /\ report' = out /\ pc' = "reported"
    BY DEF Report, refs, history, results
  <1>3. /\ Typed' /\ Forward' /\ Fetched' /\ SameTips
        /\ moves' = wasMoved' => \A b \in Branch : ref'[b] \in {"none", Choice(b)'}
        /\ \A b \in Used' : Grown(b)'
    <2>1. Quiet  BY <1>2 DEF Quiet
    <2> QED  BY <1>2, <2>1, StepKeeps DEF Running
  <1>4. Used' = Used  BY <1>2 DEF Used
  <1>5. Stages'  BY <1>1, <1>2, <1>4 DEF Stages, Running
  <1>6. Gathering' /\ Judging'  BY <1>2 DEF Gathering, Judging
  <1>7. PICK list : list = out  OBVIOUS
  <1>8. /\ AllThere => Complete(list, wasTip) /\ Real(list, wasTip)
        /\ moves = wasMoved => list = Expected
    BY <1>2, <1>7, JudgedList
  <1>9. wasTip' = wasTip /\ report' = list  BY <1>2, <1>7
  <1>10. Reported'
    <2>1. AllThere' => Complete(list, wasTip)' /\ Real(list, wasTip)'
      BY <1>3, <1>8, <1>9, SameBetween, SameLookup
    <2>2. AllThere' => Complete(report, wasTip)' /\ Real(report, wasTip)'
      BY <1>9, <2>1 DEF Complete, Real
    <2> QED  BY <1>2, <2>2 DEF Reported, AcceptedIsCurrent
  <1>11. Unmoved'
    <2>1. Expected' = Expected  BY <1>3, SameLookup
    <2> QED  BY <1>2, <1>3, <1>8, <1>9, <2>1 DEF Unmoved
  <1> QED  BY <1>3, <1>5, <1>6, <1>10, <1>11 DEF Inv

-----------------------------------------------------------------------------
(* The validator                                                           *)

\* The names are chosen anew.
LEMMA ValidateKeeps ==
  ASSUME Inv, Validate
  PROVE  Inv'
  <1>1. Typed /\ Forward /\ Stages /\ Fetched /\ Unmoved  BY DEF Inv
  <1>2. /\ UNCHANGED <<server, tracking, head, moves, opt, toFetch, noted, report, verdict,
                       wasServer, wasTip, wasMoved>>
        /\ pc = "reported" /\ who' = "validator" /\ pc' = "resolve"
        /\ ref' = [b \in Branch |-> "none"]
        /\ left' = {} /\ got' = NoResults /\ out' = {}
    BY DEF Validate, refs, history
  <1>3. /\ ref' \in [Branch -> RefName]
        /\ \A b \in Branch : ref'[b] = "none"
    BY <1>2 DEF RefName
  <1>4. Typed' /\ Forward'  BY <1>1, <1>2, <1>3 DEF Typed, Forward
  <1>5. /\ got' = [next |-> got'.next, base |-> got'.base,
                   commits |-> got'.commits, names |-> got'.names]
        /\ \A c \in DOMAIN got'.names : got'.names[c] \in {{}, FilesOf[c]}
    BY <1>2 DEF NoResults
  <1>6. Stages'  BY <1>1, <1>2, <1>5 DEF Stages, Running
  <1>7. Used' = Used  BY <1>2 DEF Used
  <1>8. Fetched'
    <2>1. FetchedIsCurrent'  BY <1>2, BeforeTheCommands
    <2> QED  BY <1>1, <1>2, <1>3, <1>7, <2>1, UsedFacts DEF Fetched
  <1>9. Unmoved'
    <2>1. Expected' = Expected  BY <1>2, SameNow
    <2> QED  BY <1>1, <1>2, <1>3, <2>1 DEF Unmoved
  <1> QED  BY <1>2, <1>4, <1>6, <1>8, <1>9, BeforeTheCommands DEF Inv

\* The end of the validator's run.
LEMMA JudgedKeeps ==
  ASSUME Inv, NEW status, Judged(status), pc \in {"check", "judge"}, who = "validator",
         status = "ok" /\ AllThere => Complete(report, wasTip) /\ Real(report, wasTip),
         moves = wasMoved => status # "bad"
  PROVE  Inv'
  <1>1. Typed /\ Stages /\ Unmoved  BY DEF Inv
  <1>2. /\ UNCHANGED <<server, tracking, head, moves, opt, who, toFetch, noted, ref, report,
                       wasServer, wasTip, wasMoved>>
        /\ pc' = "judged" /\ verdict' = status
        /\ left' = {} /\ got' = NoResults /\ out' = {}
    BY DEF Judged, refs, history
  <1>3. /\ Typed' /\ Forward' /\ Fetched' /\ SameTips
        /\ moves' = wasMoved' => \A b \in Branch : ref'[b] \in {"none", Choice(b)'}
    <2>1. Quiet  BY <1>2 DEF Quiet
    <2> QED  BY <1>2, <2>1, StepKeeps
  <1>4. /\ got' = [next |-> got'.next, base |-> got'.base,
                   commits |-> got'.commits, names |-> got'.names]
        /\ \A c \in DOMAIN got'.names : got'.names[c] \in {{}, FilesOf[c]}
    BY <1>2 DEF NoResults
  <1>5. Stages'  BY <1>1, <1>2, <1>4 DEF Stages, Running
  <1>6. Gathering' /\ Judging'  BY <1>2 DEF Gathering, Judging
  <1>7. Reported'
    <2>1. PICK list : list = report  OBVIOUS
    <2>2. wasTip' = wasTip  BY <1>2
    <2>3. status = "ok" /\ AllThere' => Complete(list, wasTip)' /\ Real(list, wasTip)'
      BY <1>3, <2>1, <2>2, SameBetween, SameLookup
    <2>4. AcceptedIsCurrent'
      BY <1>2, <2>1, <2>3 DEF AcceptedIsCurrent, Complete, Real
    <2> QED  BY <1>2, <2>4 DEF Reported
  <1>8. Unmoved'
    <2>1. Expected' = Expected  BY <1>3, SameLookup
    <2> QED  BY <1>1, <1>2, <1>3, <2>1 DEF Unmoved
  <1> QED  BY <1>2, <1>3, <1>5, <1>6, <1>7, <1>8 DEF Inv, Running

LEMMA CheckKeeps ==
  ASSUME Inv, NEW c, Check(c)
  PROVE  Inv'
  <1>1. Typed /\ Stages /\ Unmoved  BY DEF Inv
  <1>2. pc = "check" /\ c \in pending /\ who = "validator"
        /\ \A b \in Used : Tip(b) # NoRef /\ ref[b] # "none"
    BY <1>1 DEF Check, Stages, Running
  <1>3. CASE Sound(c)
    <2>1. /\ UNCHANGED <<server, tracking, head, moves, opt, who, pc, toFetch, noted, ref, left,
                         got, out, report, verdict, wasServer, wasTip, wasMoved>>
          /\ pending' = pending \ {c}
      BY <1>3 DEF Check, refs, history
    <2>2. /\ Typed' /\ Forward' /\ Fetched' /\ SameTips
          /\ moves' = wasMoved' => \A b \in Branch : ref'[b] \in {"none", Choice(b)'}
          /\ \A b \in Used' : Grown(b)'
      <3>1. Quiet  BY <1>2, <2>1 DEF Quiet
      <3> QED  BY <1>2, <2>1, <3>1, StepKeeps DEF Running
    <2>3. Used' = Used  BY <2>1 DEF Used
    <2>4. Stages'  BY <1>1, <2>1, <2>3 DEF Stages, Running
    <2>5. Gathering' /\ Judging' /\ Reported'
      BY <1>2, <2>1 DEF Gathering, Judging, Reported, AcceptedIsCurrent
    <2>6. Unmoved'
      <3>1. Expected' = Expected /\ ToList' = ToList  BY <2>2, SameLookup
      <3> QED  BY <1>1, <1>2, <2>1, <2>2, <3>1 DEF Unmoved
    <2> QED  BY <2>2, <2>4, <2>5, <2>6 DEF Inv
  <1>4. CASE ~ Sound(c)
    <2>1. Judged("bad")  BY <1>4 DEF Check
    <2>2. moves # wasMoved
      <3>1. SUFFICES ASSUME moves = wasMoved  PROVE Sound(c)
        BY <1>4
      <3>2. c \in Expected /\ got.commits = ToList
        BY <1>1, <1>2, <3>1 DEF Unmoved
      <3>3. \A b \in Used : Tip(b) = Now(b)  BY <1>2, <3>1, UsedFacts, TipIsNow
      <3>4. Tip("next") = Now("next") /\ Tip("previous") = Now("previous")
            /\ (opt.base => Tip("base") = Now("base"))
        BY <3>3, UsedFacts
      <3>5. c \in History(Now("previous")) /\ c \notin History(Now("next"))
        BY <3>2 DEF Expected, ToList, Log
      <3>6. opt.base => c \notin History(Now("base"))
        BY <3>2 DEF Expected, OnBase
      <3>7. c \in got.commits  BY <3>2 DEF Expected
      <3> QED  BY <3>4, <3>5, <3>6, <3>7 DEF Sound
    <2> QED  BY <1>2, <2>1, <2>2, JudgedKeeps
  <1> QED  BY <1>3, <1>4

LEMMA RecomputeKeeps ==
  ASSUME Inv, Recompute
  PROVE  Inv'
  <1>1. Typed /\ Stages /\ Unmoved  BY DEF Inv
  <1>2. /\ UNCHANGED <<server, tracking, head, moves, opt, who, toFetch, noted, ref, pending,
                       out, report, verdict, wasServer, wasTip, wasMoved>>
        /\ pc = "check" /\ pc' = "logs" /\ left' = Futures /\ got' = NoResults
    BY DEF Recompute, refs, history
  <1>3. who = "validator" /\ out = {}  BY <1>1, <1>2 DEF Stages
  <1>4. /\ Typed' /\ Forward' /\ Fetched' /\ SameTips
        /\ moves' = wasMoved' => \A b \in Branch : ref'[b] \in {"none", Choice(b)'}
        /\ \A b \in Used' : Grown(b)'
    <2>1. Quiet  BY <1>2 DEF Quiet
    <2> QED  BY <1>2, <1>3, <2>1, StepKeeps DEF Running
  <1>5. Used' = Used  BY <1>2 DEF Used
  <1>6. /\ got' = [next |-> got'.next, base |-> got'.base,
                   commits |-> got'.commits, names |-> got'.names]
        /\ \A c \in DOMAIN got'.names : got'.names[c] \in {{}, FilesOf[c]}
    BY <1>2 DEF NoResults
  <1>7. /\ "next" \in left' /\ "commits" \in left'
        /\ "base" \in left' <=> opt.base
    BY <1>2 DEF Futures
  <1>8. Stages'
    <2>1. \A b \in Used' : ref'[b] # "none" /\ wasTip'[b] # NoRef
      BY <1>1, <1>2, <1>5 DEF Stages, Running
    <2>2. toFetch' = {}  BY <1>1, <1>2 DEF Stages, Running
    <2> QED  BY <1>2, <1>3, <1>6, <1>7, <2>1, <2>2 DEF Stages
  <1>9. Gathering' /\ Judging' /\ Reported'
    BY <1>2, <1>7 DEF Gathering, Judging, Reported, AcceptedIsCurrent
  <1>10. Unmoved'
    <2>1. Expected' = Expected  BY <1>4, SameLookup
    <2> QED  BY <1>1, <1>2, <1>4, <1>7, <2>1 DEF Unmoved
  <1> QED  BY <1>4, <1>8, <1>9, <1>10 DEF Inv

LEMMA CompareKeeps ==
  ASSUME Inv, Compare
  PROVE  Inv'
  <1>1. pc = "judge" /\ pending = {} /\ who = "validator"
    BY DEF Compare
  <1>2. Judged(IF report = out THEN "ok" ELSE "bad")
    BY DEF Compare, Agrees
  <1>3. /\ AllThere => Complete(out, wasTip) /\ Real(out, wasTip)
        /\ moves = wasMoved => out = Expected
    BY <1>1, JudgedList
  <1>4. moves = wasMoved => report = Expected
    BY <1>1 DEF Inv, Unmoved
  <1>5. PICK status : status = IF report = out THEN "ok" ELSE "bad"
    OBVIOUS
  <1>6. status = "ok" => report = out  BY <1>5
  <1>7. moves = wasMoved => status # "bad"  BY <1>3, <1>4, <1>5
  <1>8. Judged(status)  BY <1>2, <1>5
  <1>9. status = "ok" /\ AllThere => Complete(report, wasTip) /\ Real(report, wasTip)
    BY <1>3, <1>6
  <1> QED  BY <1>1, <1>7, <1>8, <1>9, JudgedKeeps

-----------------------------------------------------------------------------
(* The specification keeps the invariant.                                  *)

LEMMA InitRight ==
  ASSUME Init
  PROVE  Inv
  <1>1. PICK r \in InitRefs : server = r.server /\ tracking = r.tracking /\ head = r.head
    BY DEF Init
  <1>2. /\ server \in AnyTips /\ tracking \in AnyTips /\ head \in AnyTips
        /\ \A b \in Branch : server[b] # NoRef /\ tracking[b] # NoRef =>
                               tracking[b] \in History(server[b])
    BY <1>1, RefsAssumption
  <1>3. /\ moves = Moves /\ who = "tool" /\ pc = "fetch" /\ toFetch = {}
        /\ ref = [b \in Branch |-> "none"] /\ left = {} /\ got = NoResults /\ out = {}
        /\ wasServer = server /\ wasTip = [b \in Branch |-> NoRef] /\ wasMoved = Moves
    BY DEF Init
  <1>4. Typed
    <2>1. Moves \in Nat  BY CommitsAssumption
    <2>2. ref \in [Branch -> RefName]  BY <1>3 DEF RefName
    <2>3. wasTip \in AnyTips  BY <1>3 DEF AnyTips
    <2> QED  BY <1>2, <1>3, <2>1, <2>2, <2>3 DEF Typed
  <1>5. \A b \in Branch : server[b] # NoRef => server[b] \in History(server[b])
    BY <1>2, HistoryFacts DEF AnyTips
  <1>6. Forward  BY <1>2, <1>3, <1>5 DEF Forward
  <1>7. Stages  BY <1>3 DEF Stages, NoResults, Running
  <1>8. Fetched  BY <1>3 DEF Fetched, FetchedIsCurrent
  <1>9. Gathering /\ Judging /\ Reported /\ pc \notin Running
    BY <1>3 DEF Gathering, Judging, Reported, AcceptedIsCurrent, Running
  <1>10. Unmoved  BY <1>3 DEF Unmoved
  <1> QED  BY <1>4, <1>6, <1>7, <1>8, <1>9, <1>10 DEF Inv

LEMMA OverKeeps ==
  ASSUME Inv, UNCHANGED vars
  PROVE  Inv'
  <1>1. UNCHANGED <<server, tracking, head, moves, opt, who, pc, toFetch, noted, ref, left, got,
                    pending, out, report, verdict, wasServer, wasTip, wasMoved>>
    BY DEF vars, refs, results, history
  <1>2. SameTips /\ wasTip' = wasTip  BY <1>1 DEF SameTips
  <1>3. /\ Typed /\ Forward /\ Stages /\ Fetched /\ Gathering /\ Judging /\ Reported /\ Unmoved
        /\ pc \in Running => \A b \in Used : Grown(b)
    BY DEF Inv
  <1>4. Used' = Used  BY <1>2, SameLookup
  <1>5. Typed' /\ Forward' /\ Stages'
    BY <1>1, <1>3, <1>4 DEF Typed, Forward, Stages
  <1>6. Fetched'  BY <1>1, <1>3, <1>4 DEF Fetched, FetchedIsCurrent
  <1>7. pc' \in Running => \A b \in Used' : Grown(b)'
    BY <1>1, <1>2, <1>3, <1>4, SameBetween
  <1>8. Gathering'
    <2>1. /\ \A ids, b : IssuesBetween(ids, b)' <=> IssuesBetween(ids, b)
          /\ \A c : FromPrevious(c)' <=> FromPrevious(c)
          /\ \A list : Listed(list)' <=> Listed(list)
      BY <1>2, SameBetween
    <2> QED  BY <1>1, <1>3, <2>1 DEF Gathering
  <1>9. Judging'
    <2>1. PICK list : list = pending \cup out  OBVIOUS
    <2>2. /\ \A c : NotLeftOut(c)' <=> NotLeftOut(c)
          /\ \A c : NotOnBase(c)' <=> NotOnBase(c)
          /\ Complete(list, wasTip)' <=> Complete(list, wasTip)
          /\ AllThere' <=> AllThere
      BY <1>2, SameBetween, SameLookup
    <2>3. pc = "judge" /\ AllThere' => Complete(list, wasTip)'
      BY <1>3, <2>1, <2>2 DEF Judging
    <2>4. pc = "judge" /\ AllThere' => Complete(pending \cup out, wasTip)'
      BY <1>1, <2>1, <2>3 DEF Complete
    <2> QED  BY <1>1, <1>3, <2>2, <2>4 DEF Judging
  <1>10. Reported'
    <2>1. PICK list : list = report  OBVIOUS
    <2>2. /\ Complete(list, wasTip)' <=> Complete(list, wasTip)
          /\ Real(list, wasTip)' <=> Real(list, wasTip)
          /\ AllThere' <=> AllThere
      BY <1>2, SameBetween, SameLookup
    <2>3. (Complete(list, wasTip)' => Complete(report, wasTip)')
          /\ (Real(list, wasTip)' => Real(report, wasTip)')
      BY <1>1, <2>1 DEF Complete, Real
    <2> QED  BY <1>1, <1>3, <2>1, <2>2, <2>3 DEF Reported, AcceptedIsCurrent
  <1>11. Unmoved'
    <2>1. /\ \A b : Now(b)' = Now(b) /\ Choice(b)' = Choice(b)
          /\ \A c : Gathers(c)' <=> Gathers(c)
          /\ \A c : OnBase(c)' <=> OnBase(c)
          /\ ToList' = ToList /\ Expected' = Expected
      BY <1>2, SameLookup
    <2>2. Now("next")' = Now("next") /\ Now("base")' = Now("base")  BY <2>1
    <2> QED  BY <1>1, <1>3, <2>1, <2>2 DEF Unmoved
  <1> QED  BY <1>3, <1>5, <1>6, <1>7, <1>8, <1>9, <1>10, <1>11 DEF Inv

LEMMA NextKeeps ==
  ASSUME Inv, [Next]_vars
  PROVE  Inv'
  <1>1. CASE FetchAll  BY <1>1, FetchAllKeeps
  <1>2. CASE FetchFails \/ Unresolved
    BY <1>2, FailKeeps DEF FetchFails, Unresolved
  <1>3. CASE BeginLogs  BY <1>3, BeginLogsKeeps
  <1>4. ASSUME NEW b \in Branch, FetchOne(b) \/ Resolve(b)  PROVE Inv'
    BY <1>4, FetchOneKeeps, ResolveKeeps
  <1>5. CASE LogNext \/ LogBase \/ LogCommits \/ LogNames
    BY <1>5, LogNextKeeps, LogBaseKeeps, LogCommitsKeeps, LogNamesKeeps
  <1>6. CASE Gathered  BY <1>6, GatheredKeeps
  <1>7. ASSUME NEW c \in Commit, Judge(c) \/ Check(c)  PROVE Inv'
    BY <1>7, JudgeKeeps, CheckKeeps
  <1>8. CASE Report  BY <1>8, ReportKeeps
  <1>9. CASE Validate  BY <1>9, ValidateKeeps
  <1>10. CASE Recompute  BY <1>10, RecomputeKeeps
  <1>11. CASE Compare  BY <1>11, CompareKeeps
  <1>12. CASE Surroundings  BY <1>12, SurroundingsKeeps
  <1>13. CASE Over \/ UNCHANGED vars  BY <1>13, OverKeeps DEF Over
  <1> QED
    BY <1>1, <1>2, <1>3, <1>4, <1>5, <1>6, <1>7, <1>8, <1>9, <1>10, <1>11, <1>12, <1>13 DEF Next

\* In every reachable state the results of the commands lie between what the
\* branches were when they began and what they are.
THEOREM Invariance == Spec => []Inv
  <1>1. Init => Inv  BY InitRight
  <1>2. Inv /\ [Next]_vars => Inv'  BY NextKeeps
  <1> QED  BY <1>1, <1>2, PTL DEF Spec

-----------------------------------------------------------------------------
(* The properties                                                          *)

\* Nothing is lost between the commands of find_probable_missing, whatever is
\* pushed, deleted and fetched while they run.
THEOREM NothingIsLost == Spec => []NothingLost
  <1>1. Inv => NothingLost  BY DEF Inv, Reported, NothingLost
  <1> QED  BY <1>1, Invariance, PTL

\* What find_missing_commits lists is on the source branch, and nothing spoke
\* against it when the commands began.
THEOREM MissingIsReal == Spec => []MissingAreReal
  <1>1. Inv => MissingAreReal  BY DEF Inv, Reported, MissingAreReal
  <1> QED  BY <1>1, Invariance, PTL

\* validate_find_missing_output rejects a report only if something has moved
\* since the fetch the report was made after.
THEOREM RejectedMeansMoved == Spec => []ValidatorAgrees
  <1>1. Inv => ValidatorAgrees
    BY DEF Inv, Typed, Unmoved, ValidatorAgrees
  <1> QED  BY <1>1, Invariance, PTL

\* A report that is accepted is complete and real, however old it is.
THEOREM AcceptedReportIsCurrent == Spec => []AcceptedIsCurrent
  <1>1. Inv => AcceptedIsCurrent  BY DEF Inv, Reported
  <1> QED  BY <1>1, Invariance, PTL

\* With git fetch the commands begin with what the server had when the run did, for
\* every branch of the remote that is not given as refs/heads/x or another full ref.
THEOREM FetchedTipsAreCurrent == Spec => []FetchedIsCurrent
  <1>1. Inv => FetchedIsCurrent  BY DEF Inv, Fetched
  <1> QED  BY <1>1, Invariance, PTL
=============================================================================
