---------------------------- MODULE TokenRefresh ----------------------------
(***************************************************************************)
(* The session token of the viewer tools: admin/viewer/get_token.py logs   *)
(* in and saves a token to a file, under an exclusive flock;               *)
(* table_full_compact.py --auto-login keeps the token in a header for its  *)
(* worker threads and, when what it has loaded is too old, reloads the     *)
(* file or runs get_token.py.                                              *)
(*                                                                         *)
(* The file is shared by all processes of a user.  Time is in coarse ticks: *)
(* steps on the file and in memory take no time, but interleave; requests,  *)
(* logins and waiting for a lock take any.  No request has a timeout, so a  *)
(* login may be one that is never answered.                                 *)
(***************************************************************************)
EXTENDS Naturals

CONSTANTS
  Client,      \* the runs of table_full_compact.py --auto-login
  Thread,      \* their threads
  ClientOf,    \* ClientOf[t]: the run that thread t belongs to
  Manual,      \* runs of get_token.py started by somebody else
  Nobody,      \* no holder of a lock
  MaxAge       \* TOKEN_MAX_AGE_SEC, in ticks

ASSUME ClientAssumption ==
  /\ ClientOf \in [Thread -> Client]
  /\ Client \cap Manual = {}
  /\ Nobody \notin Client \cup Manual \cup Thread

ASSUME AgeAssumption == MaxAge \in Nat \ {0}

VARIABLES
  file,       \* the token file: its content, the age of its mtime
  gpc,        \* the get_token.py of a client (its child), or a manual one
  flock,      \* the process that has the flock
  phase,      \* setup_auth, then the pool, or exited
  pc,         \* ensure_fresh and the request, for each thread
  lock,       \* TokenAuth._lock: the thread that has it
  header,     \* age of the token in VIEWER_HEADERS
  loaded,     \* age of _loaded_at
  refreshed   \* history: the clients whose token is not the one of setup_auth

fileVars   == <<file, gpc, flock>>
clientVars == <<phase, header, loaded, refreshed>>
vars == <<file, gpc, flock, phase, pc, lock, header, loaded, refreshed>>

\* Ages are not told apart beyond the limits that matter.
OldToken == 2 * MaxAge
Older(age, limit) == IF age < limit THEN age + 1 ELSE limit

GetToken == Client \cup Manual

\* hung: its login is never answered
Writing == {"check", "truncate", "write"}          \* with the flock, no request
Holding == {"login", "hung"} \cup Writing           \* with the flock
GPC     == {"off", "flock", "ok", "failed"} \cup Holding
Loading == {"recheck", "stat", "child", "read", "apply"}
PC      == {"idle", "lock", "send"} \cup Loading
Phase   == {"start", "child", "read", "running", "exited"}

TypeOK ==
  /\ file \in [content : {"absent", "empty", "token"}, age : 0..OldToken]
  /\ gpc \in [GetToken -> GPC]
  /\ flock \in GetToken \cup {Nobody}
  /\ phase \in [Client -> Phase]
  /\ pc \in [Thread -> PC]
  /\ lock \in [Client -> Thread \cup {Nobody}]
  /\ header \in [Client -> 0..OldToken]
  /\ loaded \in [Client -> 0..MaxAge]
  /\ refreshed \subseteq Client
  /\ \A g \in GetToken : gpc[g] \in Holding <=> flock = g
  /\ \A t \in Thread : pc[t] \in Loading => lock[ClientOf[t]] = t

Init ==
  /\ file \in {[content |-> "absent", age |-> OldToken]}
              \cup [content : {"token", "empty"}, age : {0, MaxAge}]
  /\ gpc = [g \in GetToken |-> "off"]
  /\ flock = Nobody
  /\ phase = [c \in Client |-> "start"]
  /\ pc = [t \in Thread |-> "idle"]
  /\ lock = [c \in Client |-> Nobody]
  /\ header = [c \in Client |-> OldToken]
  /\ loaded = [c \in Client |-> MaxAge]
  /\ refreshed = {}

\* Mutant of FileIsFresh: only the time is looked at.
FileIsFreshByTime == file.content # "absent" /\ file.age < MaxAge

\* token_is_fresh of get_token.py and token_file_is_fresh: an empty file is not.
FileIsFresh == file.content = "token" /\ file.age < MaxAge

-----------------------------------------------------------------------------
(* get_token.py                                                            *)

GGoto(g, where) == gpc' = [gpc EXCEPT ![g] = where]

\* os.open creates the file if there is none.
Open(g) ==
  /\ gpc' = [gpc EXCEPT ![g] = "flock"]
  /\ file' = IF file.content = "absent" THEN [content |-> "empty", age |-> 0] ELSE file
  /\ UNCHANGED flock

StartManual(g) ==
  /\ g \in Manual
  /\ gpc[g] \in {"off", "ok", "failed"}
  /\ Open(g)
  /\ UNCHANGED <<clientVars, pc, lock>>

\* Mutant of Lock: the age is looked at before the lock is taken.
LockToLogin(g) ==
  /\ gpc[g] = "flock"
  /\ flock = Nobody
  /\ flock' = g
  /\ GGoto(g, "login")
  /\ UNCHANGED <<file, clientVars, pc, lock>>

Lock(g) ==
  /\ gpc[g] = "flock"
  /\ flock = Nobody
  /\ flock' = g
  /\ GGoto(g, "check")
  /\ UNCHANGED <<file, clientVars, pc, lock>>

\* The process ends and with it its lock; a client that waits for it is told.
Exit(g, status) ==
  /\ GGoto(g, status)
  /\ flock' = IF flock = g THEN Nobody ELSE flock

CheckFile(g) ==
  /\ gpc[g] = "check"
  /\ IF FileIsFresh THEN Exit(g, "ok") ELSE GGoto(g, "login") /\ UNCHANGED flock
  /\ UNCHANGED <<file, clientVars, pc, lock>>

\* fetch_session_token, with its ten attempts.
Login(g) ==
  /\ gpc[g] = "login"
  /\ \/ GGoto(g, "truncate") /\ UNCHANGED flock
     \/ Exit(g, "failed")
  /\ UNCHANGED <<file, clientVars, pc, lock>>

\* Its requests.post has no timeout: the server, or what is between, never answers.
Hang(g) ==
  /\ gpc[g] = "login"
  /\ GGoto(g, "hung")
  /\ UNCHANGED <<file, flock, clientVars, pc, lock>>

Truncate(g) ==
  /\ gpc[g] = "truncate"
  /\ file' = [content |-> "empty", age |-> 0]
  /\ GGoto(g, "write")
  /\ UNCHANGED <<flock, clientVars, pc, lock>>

WriteFile(g) ==
  /\ gpc[g] = "write"
  /\ file' = [content |-> "token", age |-> 0]
  /\ Exit(g, "ok")
  /\ UNCHANGED <<clientVars, pc, lock>>

\* The process is killed; what it has done to the file stays.
Kill(g) ==
  /\ gpc[g] \in {"flock"} \cup Holding
  /\ Exit(g, "failed")
  /\ UNCHANGED <<file, clientVars, pc, lock>>

-----------------------------------------------------------------------------
(* setup_auth, in the main thread                                          *)

PGoto(c, where) == phase' = [phase EXCEPT ![c] = where]

\* get_token.py is only run when there is no file at all.
Setup(c) ==
  /\ phase[c] = "start"
  /\ IF file.content = "absent"
     THEN PGoto(c, "child") /\ Open(c)
     ELSE PGoto(c, "read") /\ UNCHANGED fileVars
  /\ UNCHANGED <<header, loaded, refreshed, pc, lock>>

\* run_get_token returns, or raises.
SetupChild(c) ==
  /\ phase[c] = "child"
  /\ gpc[c] \in {"ok", "failed"}
  /\ GGoto(c, "off")
  /\ PGoto(c, IF gpc[c] = "ok" THEN "read" ELSE "exited")
  /\ UNCHANGED <<file, flock, header, loaded, refreshed, pc, lock>>

\* read_token_file raises for an empty file; _apply_token, before any thread.
SetupRead(c) ==
  /\ phase[c] = "read"
  /\ IF file.content = "token"
     THEN /\ PGoto(c, "running")
          /\ header' = [header EXCEPT ![c] = file.age]
          /\ loaded' = [loaded EXCEPT ![c] = 0]
     ELSE PGoto(c, "exited") /\ UNCHANGED <<header, loaded>>
  /\ UNCHANGED <<fileVars, refreshed, pc, lock>>

-----------------------------------------------------------------------------
(* TokenAuth.ensure_fresh, in each thread                                  *)

At(t, where) == pc[t] = where /\ phase[ClientOf[t]] = "running"

Goto(t, where) == pc' = [pc EXCEPT ![t] = where]

IsLoaded(t) == loaded[ClientOf[t]] < MaxAge

\* viewer_get_text or load_json, for a first request or a retry: the test
\* without the lock.
TestLoaded(t) ==
  /\ At(t, "idle")
  /\ Goto(t, IF IsLoaded(t) THEN "send" ELSE "lock")
  /\ UNCHANGED <<fileVars, clientVars, lock>>

\* Mutant of TakeLock: there is no lock.
TakeNoLock(t) ==
  /\ At(t, "lock")
  /\ Goto(t, "recheck")
  /\ UNCHANGED <<fileVars, clientVars, lock>>

TakeLock(t) ==
  /\ At(t, "lock")
  /\ lock[ClientOf[t]] = Nobody
  /\ lock' = [lock EXCEPT ![ClientOf[t]] = t]
  /\ Goto(t, "recheck")
  /\ UNCHANGED <<fileVars, clientVars>>

\* ensure_fresh returns and gives the lock back.
Return(t) ==
  /\ Goto(t, "send")
  /\ lock' = [lock EXCEPT ![ClientOf[t]] = Nobody]

\* Mutant of TestAgain: the early return keeps the lock.
TestAgainKeepingLock(t) ==
  /\ At(t, "recheck")
  /\ Goto(t, IF IsLoaded(t) THEN "send" ELSE "stat")
  /\ UNCHANGED <<fileVars, clientVars, lock>>

\* Another thread has refreshed the token meanwhile.
TestAgain(t) ==
  /\ At(t, "recheck")
  /\ IF IsLoaded(t) THEN Return(t) ELSE Goto(t, "stat") /\ UNCHANGED lock
  /\ UNCHANGED <<fileVars, clientVars>>

\* Another process may have refreshed the file.
Stat(t) ==
  /\ At(t, "stat")
  /\ IF FileIsFresh THEN Goto(t, "read") /\ UNCHANGED fileVars
                    ELSE Goto(t, "child") /\ Open(ClientOf[t])
  /\ UNCHANGED <<clientVars, lock>>

\* os._exit(1) ends all threads.
Abort(t) ==
  /\ PGoto(ClientOf[t], "exited")
  /\ UNCHANGED <<pc, lock>>

ChildEnds(t) ==
  LET c == ClientOf[t] IN
  /\ At(t, "child")
  /\ gpc[c] \in {"ok", "failed"}
  /\ GGoto(c, "off")
  /\ IF gpc[c] = "ok"
     THEN Goto(t, "read") /\ UNCHANGED <<phase, lock>>
     ELSE Abort(t)
  /\ UNCHANGED <<file, flock, header, loaded, refreshed>>

SetHeader(t) == header' = [header EXCEPT ![ClientOf[t]] = file.age] /\ UNCHANGED loaded
SetLoaded(t) == loaded' = [loaded EXCEPT ![ClientOf[t]] = 0] /\ UNCHANGED header

\* Mutant of ApplyToken: the time is noted before the header is replaced.
ApplyTokenTimeFirst(t) ==
  /\ \/ /\ At(t, "read")
        /\ IF file.content = "token"
           THEN SetLoaded(t) /\ Goto(t, "apply") /\ UNCHANGED <<phase, lock>>
           ELSE Abort(t) /\ UNCHANGED <<header, loaded>>
     \/ /\ At(t, "apply")
        /\ SetHeader(t)
        /\ Return(t)
        /\ UNCHANGED phase
  /\ refreshed' = IF pc[t] = "apply" THEN refreshed \cup {ClientOf[t]} ELSE refreshed
  /\ UNCHANGED fileVars

\* read_token_file raises when the file is empty.  _apply_token replaces the
\* header and then notes the time, with the lock; a thread in TestLoaded or Send
\* does not have it.
ApplyToken(t) ==
  /\ \/ /\ At(t, "read")
        /\ IF file.content = "token"
           THEN SetHeader(t) /\ Goto(t, "apply") /\ UNCHANGED <<phase, lock>>
           ELSE Abort(t) /\ UNCHANGED <<header, loaded>>
     \/ /\ At(t, "apply")
        /\ SetLoaded(t)
        /\ Return(t)
        /\ UNCHANGED phase
  /\ refreshed' = IF pc[t] = "apply" THEN refreshed \cup {ClientOf[t]} ELSE refreshed
  /\ UNCHANGED fileVars

\* requests.get with VIEWER_HEADERS; the answer comes some time later.
Send(t) ==
  /\ At(t, "send")
  /\ Goto(t, "idle")
  /\ UNCHANGED <<fileVars, clientVars, lock>>

-----------------------------------------------------------------------------
\* Somebody is between two steps that take no time.
Hurrying ==
  \/ \E g \in GetToken : gpc[g] \in Writing
  \/ \E c \in Client : phase[c] = "read" \/ gpc[c] \in {"ok", "failed"}
  \/ \E t \in Thread :
       phase[ClientOf[t]] = "running" /\ pc[t] \notin {"idle", "lock", "child"}

Tick ==
  /\ ~Hurrying
  /\ file' = [file EXCEPT !.age = Older(@, OldToken)]
  /\ header' = [c \in Client |-> Older(header[c], OldToken)]
  /\ loaded' = [c \in Client |-> Older(loaded[c], MaxAge)]
  /\ UNCHANGED <<gpc, flock, phase, refreshed, pc, lock>>

GetTokenStep(g) ==
  CheckFile(g) \/ Login(g) \/ Truncate(g) \/ WriteFile(g)

ClientStep(c) == Setup(c) \/ SetupChild(c) \/ SetupRead(c)

ThreadStep(t) ==
  \/ TestLoaded(t) \/ TestAgain(t) \/ Stat(t)
  \/ ChildEnds(t) \/ ApplyToken(t) \/ Send(t)

Next ==
  \/ \E g \in GetToken : Lock(g) \/ GetTokenStep(g) \/ Hang(g) \/ Kill(g)
  \/ \E g \in Manual : StartManual(g)
  \/ \E c \in Client : ClientStep(c)
  \/ \E t \in Thread : ThreadStep(t) \/ TakeLock(t)
  \/ Tick

Spec == Init /\ [][Next]_vars

\* Processes and threads run, a login ends unless it hangs, and the kernel does not
\* pass over a process that waits for the flock for good.  Nobody needs to kill a
\* process that hangs.  Nothing is said of TakeLock: a threading.Lock is not fair.
FairSpec ==
  /\ Spec
  /\ \A g \in GetToken : WF_vars(GetTokenStep(g)) /\ SF_vars(Lock(g))
  /\ \A t \in Thread : WF_vars(ThreadStep(t))

-----------------------------------------------------------------------------
(* Properties                                                              *)

\* "If the file is newer than 5 minutes, skips the login and leaves the existing
\* token unchanged": a fresh token is never lost or overwritten, however many
\* processes have found the file old at the same time.
FreshTokenKept ==
  [][file.content = "token" /\ file.age < MaxAge =>
       file'.content = "token" /\ file'.age >= file.age]_file

\* Once a client has refreshed its token, a request goes out with one that was
\* fresh when it was loaded, no more than MaxAge ago, although neither the test
\* nor the use of the header is under the lock (ensure_fresh, viewer_get_text).
SentFresh ==
  \A t \in Thread :
    At(t, "send") /\ ClientOf[t] \in refreshed => header[ClientOf[t]] < 2 * MaxAge

\* A client at work is only aborted when its own get_token.py has failed: never
\* because another process was rewriting the file at that moment.
AbortExplained ==
  [][\A c \in Client :
       phase[c] = "running" /\ phase'[c] = "exited" => gpc[c] = "failed"]_phase

\* The holder of the flock waits for an answer to its login that never comes.
LoginHangs == \E g \in GetToken : flock = g /\ gpc[g] = "hung"

\* Threads do not wait for each other for good: the lock of TokenAuth is given back,
\* or the process ends, although its holder may wait for a child, and that for the
\* flock of another process.  The one exception is a login that is never answered:
\* neither requests.post nor subprocess.run has a timeout.
LockGivenBack ==
  \A c \in Client :
    lock[c] # Nobody ~> lock[c] = Nobody \/ phase[c] = "exited" \/ LoginHangs
=============================================================================
