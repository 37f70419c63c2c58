------------------------ MODULE TokenRefresh_proofs ------------------------
(***************************************************************************)
(* Theorems about TokenRefresh, for any number of clients, threads and     *)
(* runs of get_token.py, failing logins and killed processes included: the *)
(* variables keep their types and the two locks their holders, a fresh     *)
(* token is never overwritten, no request is sent with a token that is too *)
(* old, and a client that gives up has a reason.                           *)
(***************************************************************************)
EXTENDS TokenRefresh, TLAPS

LEMMA Limits == OldToken \in Nat /\ MaxAge \in Nat /\ 0 < MaxAge /\ MaxAge <= OldToken
BY AgeAssumption DEF OldToken

\* Time does not make anything younger, and stops at the limit.
LEMMA Growing ==
  ASSUME NEW limit \in Nat, NEW age \in 0..limit
  PROVE  Older(age, limit) \in 0..limit /\ Older(age, limit) >= age
BY DEF Older

LEMMA Holders ==
  /\ \A t \in Thread : ClientOf[t] \in Client
  /\ Client \subseteq GetToken /\ Manual \subseteq GetToken
  /\ Nobody \notin GetToken /\ Nobody \notin Thread
BY ClientAssumption DEF GetToken

\* The parts of TypeOK: the file and get_token.py, the clients, the threads.
FileTyped ==
  /\ file \in [content : {"absent", "empty", "token"}, age : 0..OldToken]
  /\ gpc \in [GetToken -> GPC]
  /\ flock \in GetToken \cup {Nobody}
  /\ \A g \in GetToken : gpc[g] \in Holding <=> flock = g

ClientsTyped ==
  /\ phase \in [Client -> Phase]
  /\ header \in [Client -> 0..OldToken]
  /\ loaded \in [Client -> 0..MaxAge]
  /\ refreshed \subseteq Client

ThreadsTyped ==
  /\ pc \in [Thread -> PC]
  /\ lock \in [Client -> Thread \cup {Nobody}]
  /\ \A t \in Thread : pc[t] \in Loading => lock[ClientOf[t]] = t

Typed == FileTyped /\ ClientsTyped /\ ThreadsTyped

\* A client runs one get_token.py at a time: in setup_auth, or in the thread
\* that has the lock.
OneChild ==
  \A c \in Client :
    /\ phase[c] = "start" => gpc[c] = "off"
    /\ gpc[c] # "off" =>
         phase[c] = "child" \/ \E t \in Thread : ClientOf[t] = c /\ pc[t] = "child"

\* Who logs in or rewrites the file has found it old, and it still is.
OldWhileWritten ==
  \A g \in GetToken : gpc[g] \in {"login", "truncate", "write"} => ~FileIsFresh

IInv == Typed /\ OneChild /\ OldWhileWritten

LEMMA InitTyped == Init => Typed
<1> SUFFICES ASSUME Init PROVE Typed
  OBVIOUS
<1>1. FileTyped
  BY Limits, Holders DEF Init, FileTyped, GPC, Holding, Writing
<1>2. ClientsTyped
  BY Limits DEF Init, ClientsTyped, Phase
<1>3. ThreadsTyped
  BY Holders DEF Init, ThreadsTyped, PC, Loading
<1>4. QED BY <1>1, <1>2, <1>3 DEF Typed

-----------------------------------------------------------------------------
(* get_token.py.                                                           *)

LEMMA OpenTyped ==
  ASSUME FileTyped, NEW g \in GetToken, gpc[g] \notin Holding, Open(g)
  PROVE  FileTyped'
BY Limits DEF FileTyped, Open, GPC, Holding, Writing

LEMMA ExitTyped ==
  ASSUME FileTyped, NEW g \in GetToken, NEW status \in {"ok", "failed"}, Exit(g, status),
         file' \in [content : {"absent", "empty", "token"}, age : 0..OldToken]
  PROVE  FileTyped'
BY Holders DEF FileTyped, Exit, GGoto, GPC, Holding, Writing

LEMMA GetTokenTyped ==
  ASSUME Typed, NEW g \in GetToken, Lock(g) \/ GetTokenStep(g) \/ Hang(g) \/ Kill(g)
  PROVE  Typed'
<1>1. FileTyped
  BY DEF Typed
<1>2. UNCHANGED <<clientVars, pc, lock>>
  BY DEF Lock, GetTokenStep, CheckFile, Login, Truncate, WriteFile, Hang, Kill
<1>3. FileTyped'
  <2>1. CASE Lock(g)
    BY <1>1, <2>1, Holders DEF Lock, GGoto, FileTyped, GPC, Holding, Writing
  <2>2. CASE CheckFile(g)
    <3>1. CASE FileIsFresh
      BY <1>1, <2>2, <3>1, ExitTyped DEF CheckFile, FileTyped
    <3>2. CASE ~FileIsFresh
      BY <1>1, <2>2, <3>2 DEF CheckFile, GGoto, FileTyped, GPC, Holding, Writing
    <3>3. QED BY <3>1, <3>2
  <2>3. CASE Login(g)
    <3>1. CASE Exit(g, "failed")
      BY <1>1, <2>3, <3>1, ExitTyped DEF Login, FileTyped
    <3>2. CASE GGoto(g, "truncate") /\ UNCHANGED flock
      BY <1>1, <2>3, <3>2 DEF Login, GGoto, FileTyped, GPC, Holding, Writing
    <3>3. QED BY <2>3, <3>1, <3>2 DEF Login
  <2>4. CASE Truncate(g)
    BY <1>1, <2>4, Limits DEF Truncate, GGoto, FileTyped, GPC, Holding, Writing
  <2>5. CASE WriteFile(g)
    BY <1>1, <2>5, Limits, ExitTyped DEF WriteFile
  <2>6. CASE Kill(g)
    BY <1>1, <2>6, ExitTyped DEF Kill, FileTyped
  <2>7. CASE Hang(g)
    BY <1>1, <2>7 DEF Hang, GGoto, FileTyped, GPC, Holding
  <2>8. QED BY <2>1, <2>2, <2>3, <2>4, <2>5, <2>6, <2>7 DEF GetTokenStep
<1>4. QED
  BY <1>2, <1>3 DEF Typed, ClientsTyped, ThreadsTyped, clientVars

LEMMA ManualTyped ==
  ASSUME Typed, NEW g \in Manual, StartManual(g)
  PROVE  Typed'
<1>1. FileTyped'
  BY Holders, OpenTyped DEF Typed, StartManual, Writing, Holding
<1>2. QED BY <1>1 DEF StartManual, Typed, ClientsTyped, ThreadsTyped, clientVars

-----------------------------------------------------------------------------
(* setup_auth.                                                             *)

LEMMA ClientTyped ==
  ASSUME Typed, OneChild, NEW c \in Client, ClientStep(c)
  PROVE  Typed'
<1>1. CASE Setup(c)
  <2>1. FileTyped'
    <3>1. CASE Open(c)
      BY <1>1, <3>1, Holders, OpenTyped DEF Setup, Typed, OneChild, Writing, Holding
    <3>2. CASE UNCHANGED fileVars
      BY <3>2 DEF fileVars, Typed, FileTyped
    <3>3. QED BY <1>1, <3>1, <3>2 DEF Setup
  <2>2. QED
    BY <1>1, <2>1 DEF Setup, PGoto, Typed, ClientsTyped, ThreadsTyped, Phase
<1>2. CASE SetupChild(c)
  <2>1. FileTyped'
    BY <1>2, Holders DEF SetupChild, GGoto, Typed, FileTyped, GPC, Holding, Writing
  <2>2. QED
    BY <1>2, <2>1 DEF SetupChild, PGoto, Typed, ClientsTyped, ThreadsTyped, Phase
<1>3. CASE SetupRead(c)
  <2>1. FileTyped' /\ ThreadsTyped'
    BY <1>3 DEF SetupRead, fileVars, Typed, FileTyped, ThreadsTyped
  <2>2. ClientsTyped'
    BY <1>3, Limits DEF SetupRead, PGoto, Typed, FileTyped, ClientsTyped, Phase
  <2>3. QED BY <2>1, <2>2 DEF Typed
<1>4. QED BY <1>1, <1>2, <1>3 DEF ClientStep

-----------------------------------------------------------------------------
(* TokenAuth.ensure_fresh.                                                 *)

\* A thread without the lock stays without it, or gives it back, or goes on
\* with it.
LEMMA ThreadGoes ==
  ASSUME ThreadsTyped, NEW t \in Thread, NEW where \in PC, Goto(t, where),
         \/ UNCHANGED lock /\ (where \in Loading => pc[t] \in Loading)
         \/ where = "send" /\ pc[t] \in Loading
              /\ lock' = [lock EXCEPT ![ClientOf[t]] = Nobody]
  PROVE  ThreadsTyped'
<1>1. pc' \in [Thread -> PC] /\ lock' \in [Client -> Thread \cup {Nobody}]
  BY Holders DEF ThreadsTyped, Goto
<1>2. ASSUME NEW u \in Thread, pc'[u] \in Loading
      PROVE  lock'[ClientOf[u]] = u
  <2>1. CASE u = t
    BY <1>2, <2>1, Holders DEF ThreadsTyped, Goto, Loading
  <2>2. CASE u # t
    BY <1>2, <2>2, Holders DEF ThreadsTyped, Goto
  <2>3. QED BY <2>1, <2>2
<1>3. QED BY <1>1, <1>2 DEF ThreadsTyped

LEMMA ThreadTyped ==
  ASSUME Typed, OneChild, NEW t \in Thread, ThreadStep(t) \/ TakeLock(t)
  PROVE  Typed'
<1> DEFINE c == ClientOf[t]
<1>0. c \in Client /\ FileTyped /\ ClientsTyped /\ ThreadsTyped
  BY Holders DEF Typed
<1>1. CASE TestLoaded(t) \/ Send(t)
  <2>1. ThreadsTyped'
    BY <1>0, <1>1, ThreadGoes DEF TestLoaded, Send, Goto, PC, Loading
  <2>2. QED
    BY <1>1, <2>1 DEF TestLoaded, Send, fileVars, clientVars, Typed, FileTyped, ClientsTyped
<1>2. CASE TakeLock(t)
  <2>1. ThreadsTyped'
    BY <1>0, <1>2, Holders DEF TakeLock, Goto, ThreadsTyped, PC, Loading
  <2>2. QED
    BY <1>2, <2>1 DEF TakeLock, fileVars, clientVars, Typed, FileTyped, ClientsTyped
<1>3. CASE TestAgain(t)
  <2>1. ThreadsTyped'
    BY <1>0, <1>3, ThreadGoes DEF TestAgain, At, Return, PC, Loading
  <2>2. QED
    BY <1>3, <2>1 DEF TestAgain, fileVars, clientVars, Typed, FileTyped, ClientsTyped
<1>4. CASE Stat(t)
  <2>1. ThreadsTyped'
    BY <1>0, <1>4, ThreadGoes DEF Stat, At, PC, Loading
  <2>2. gpc[c] = "off"
    BY <1>0, <1>4, Holders DEF Stat, At, OneChild, ThreadsTyped, Loading
  <2>3. FileTyped'
    BY <1>0, <1>4, <2>2, Holders, OpenTyped DEF Stat, fileVars, FileTyped, Writing, Holding
  <2>4. QED BY <1>4, <2>1, <2>3 DEF Stat, clientVars, Typed, ClientsTyped
<1>5. CASE ChildEnds(t)
  <2>1. FileTyped'
    BY <1>0, <1>5, Holders DEF ChildEnds, GGoto, FileTyped, GPC, Holding, Writing
  <2>2. ClientsTyped'
    BY <1>0, <1>5 DEF ChildEnds, Abort, PGoto, ClientsTyped, Phase
  <2>3. ThreadsTyped'
    <3>1. CASE gpc[c] = "ok"
      BY <1>0, <1>5, <3>1, ThreadGoes DEF ChildEnds, At, PC, Loading
    <3>2. CASE gpc[c] # "ok"
      BY <1>0, <1>5, <3>2 DEF ChildEnds, Abort, ThreadsTyped
    <3>3. QED BY <3>1, <3>2
  <2>4. QED BY <2>1, <2>2, <2>3 DEF Typed
<1>6. CASE ApplyToken(t)
  <2>1. FileTyped'
    BY <1>0, <1>6 DEF ApplyToken, fileVars, FileTyped
  <2>2. ClientsTyped'
    BY <1>0, <1>6, Limits
       DEF ApplyToken, SetHeader, SetLoaded, Abort, PGoto, FileTyped, ClientsTyped, Phase
  <2>3. ThreadsTyped'
    <3>1. CASE UNCHANGED <<pc, lock>>
      BY <1>0, <3>1 DEF ThreadsTyped
    <3>2. CASE At(t, "read") /\ Goto(t, "apply") /\ UNCHANGED lock
      BY <1>0, <3>2, ThreadGoes DEF At, PC, Loading
    <3>3. CASE At(t, "apply") /\ Return(t)
      BY <1>0, <3>3, ThreadGoes DEF At, Return, PC, Loading
    <3>4. QED BY <1>6, <3>1, <3>2, <3>3 DEF ApplyToken, Abort
  <2>4. QED BY <2>1, <2>2, <2>3 DEF Typed
<1>7. QED BY <1>1, <1>2, <1>3, <1>4, <1>5, <1>6 DEF ThreadStep

LEMMA TickTyped == Typed /\ Tick => Typed'
<1> SUFFICES ASSUME Typed, Tick PROVE Typed'
  OBVIOUS
<1>1. FileTyped'
  BY Limits, Growing DEF Typed, FileTyped, Tick
<1>2. ClientsTyped'
  BY Limits, Growing DEF Typed, ClientsTyped, Tick
<1>3. ThreadsTyped'
  BY DEF Typed, ThreadsTyped, Tick
<1>4. QED BY <1>1, <1>2, <1>3 DEF Typed

-----------------------------------------------------------------------------
(* One child, and a file that only the holder of the flock writes.         *)

LEMMA OneChildKept ==
  ASSUME Typed, OneChild, [Next]_vars
  PROVE  OneChild'
<1>1. CASE UNCHANGED vars
  BY <1>1 DEF OneChild, vars
<1>2. ASSUME NEW g \in GetToken, Lock(g) \/ GetTokenStep(g) \/ Hang(g) \/ Kill(g)
      PROVE  OneChild'
  <2>1. UNCHANGED <<phase, pc>> /\ gpc[g] # "off"
    BY <1>2 DEF Lock, GetTokenStep, CheckFile, Login, Truncate, WriteFile, Hang, Kill,
                clientVars, Writing, Holding
  <2>2. \E where \in GPC : gpc' = [gpc EXCEPT ![g] = where]
    BY <1>2 DEF Lock, GetTokenStep, CheckFile, Login, Truncate, WriteFile, Hang, Kill,
                Exit, GGoto, GPC, Holding, Writing
  <2>3. QED BY <2>1, <2>2, Holders DEF OneChild, Typed, FileTyped
<1>3. ASSUME NEW g \in Manual, StartManual(g)
      PROVE  OneChild'
  BY <1>3, ClientAssumption, Holders
     DEF OneChild, StartManual, Open, clientVars, Typed, FileTyped
<1>4. ASSUME NEW c \in Client, ClientStep(c)
      PROVE  OneChild'
  BY <1>4, Holders
     DEF OneChild, ClientStep, Setup, SetupChild, SetupRead, Open, GGoto, PGoto,
         fileVars, Typed, FileTyped, ClientsTyped
<1>5. ASSUME NEW t \in Thread, ThreadStep(t) \/ TakeLock(t)
      PROVE  OneChild'
  <2>1. CASE TestLoaded(t) \/ Send(t) \/ TakeLock(t) \/ TestAgain(t)
    BY <2>1, Holders
       DEF OneChild, TestLoaded, Send, TakeLock, TestAgain, Return, At, Goto,
           fileVars, clientVars, Typed, ThreadsTyped
  <2>2. CASE Stat(t)
    BY <2>2, Holders
       DEF OneChild, Stat, At, Goto, Open, fileVars, clientVars,
           Typed, FileTyped, ThreadsTyped
  <2>3. CASE ChildEnds(t)
    BY <2>3, Holders
       DEF OneChild, ChildEnds, At, Goto, GGoto, Abort, PGoto,
           Typed, FileTyped, ClientsTyped, ThreadsTyped
  <2>4. CASE ApplyToken(t)
    BY <2>4, Holders
       DEF OneChild, ApplyToken, At, Goto, Return, Abort, PGoto, fileVars,
           Typed, ClientsTyped, ThreadsTyped
  <2>5. QED BY <1>5, <2>1, <2>2, <2>3, <2>4 DEF ThreadStep
<1>6. CASE Tick
  BY <1>6 DEF OneChild, Tick
<1>7. QED BY <1>1, <1>2, <1>3, <1>4, <1>5, <1>6 DEF Next

\* A file that is not fresh stays so unless it is written.
LEMMA OldStaysOld ==
  ASSUME Typed, ~FileIsFresh,
         \/ UNCHANGED file
         \/ file' = [content |-> "empty", age |-> 0]
         \/ file' = [file EXCEPT !.age = Older(@, OldToken)]
  PROVE  ~FileIsFresh'
<1>1. CASE file' = [file EXCEPT !.age = Older(@, OldToken)]
  BY <1>1, Limits, Growing DEF Typed, FileTyped, FileIsFresh
<1>2. QED BY <1>1 DEF FileIsFresh

LEMMA OldWhileWrittenKept ==
  ASSUME Typed, OldWhileWritten, [Next]_vars
  PROVE  OldWhileWritten'
<1> DEFINE Out == {"login", "truncate", "write"}
<1>1. CASE UNCHANGED vars
  BY <1>1 DEF OldWhileWritten, FileIsFresh, vars
<1>2. ASSUME NEW g \in GetToken, gpc' = [gpc EXCEPT ![g] = gpc'[g]],
             gpc'[g] \in Out => ~FileIsFresh,
             \/ UNCHANGED file
             \/ file' = [content |-> "empty", age |-> 0]
      PROVE  OldWhileWritten'
  BY <1>2, OldStaysOld DEF OldWhileWritten, Typed, FileTyped
<1>3. ASSUME NEW g \in GetToken, Lock(g) \/ GetTokenStep(g) \/ Hang(g) \/ Kill(g)
      PROVE  OldWhileWritten'
  <2>1. CASE WriteFile(g)
    <3>1. \A h \in GetToken : gpc'[h] \notin Out
      BY <2>1 DEF WriteFile, Exit, GGoto, Typed, FileTyped, Writing, Holding
    <3>2. QED BY <3>1 DEF OldWhileWritten
  <2>2. CASE ~WriteFile(g)
    <3>1. UNCHANGED file \/ file' = [content |-> "empty", age |-> 0]
      BY <1>3, <2>2 DEF Lock, GetTokenStep, CheckFile, Login, Truncate, Hang, Kill
    <3>2. gpc' = [gpc EXCEPT ![g] = gpc'[g]] /\ (gpc'[g] \in Out => ~FileIsFresh)
      BY <1>3, <2>2 DEF Lock, GetTokenStep, CheckFile, Login, Truncate, Hang, Kill, Exit,
                        GGoto, OldWhileWritten, Typed, FileTyped
    <3>3. QED BY <1>2, <3>1, <3>2
  <2>3. QED BY <2>1, <2>2
<1>4. ASSUME NEW g \in GetToken, Open(g)
      PROVE  OldWhileWritten'
  BY <1>2, <1>4 DEF Open, Typed, FileTyped
<1>5. ASSUME NEW g \in Manual, StartManual(g)
      PROVE  OldWhileWritten'
  BY <1>4, <1>5, Holders DEF StartManual
<1>6. ASSUME NEW c \in Client, ClientStep(c)
      PROVE  OldWhileWritten'
  BY <1>1, <1>2, <1>4, <1>6, Holders
     DEF ClientStep, Setup, SetupChild, SetupRead, GGoto, fileVars, OldWhileWritten,
         FileIsFresh, Typed, FileTyped
<1>7. ASSUME NEW t \in Thread, ThreadStep(t) \/ TakeLock(t)
      PROVE  OldWhileWritten'
  <2>1. CASE UNCHANGED fileVars
    BY <2>1 DEF fileVars, OldWhileWritten, FileIsFresh
  <2>2. CASE Open(ClientOf[t])
    BY <1>4, <2>2, Holders
  <2>3. CASE ChildEnds(t)
    BY <1>2, <2>3, Holders DEF ChildEnds, GGoto, Typed, FileTyped
  <2>4. QED
    BY <1>7, <2>1, <2>2, <2>3
       DEF ThreadStep, TestLoaded, TestAgain, Stat, ApplyToken, Send, TakeLock
<1>8. CASE Tick
  BY <1>8, OldStaysOld DEF Tick, OldWhileWritten
<1>9. QED BY <1>1, <1>3, <1>5, <1>6, <1>7, <1>8 DEF Next

-----------------------------------------------------------------------------
(* The theorems.                                                           *)

LEMMA Inductive == IInv /\ [Next]_vars => IInv'
<1> SUFFICES ASSUME IInv, [Next]_vars PROVE IInv'
  OBVIOUS
<1>1. Typed'
  <2>1. CASE UNCHANGED vars
    BY <2>1 DEF IInv, Typed, FileTyped, ClientsTyped, ThreadsTyped, vars
  <2>2. CASE Next
    BY <2>2, GetTokenTyped, ManualTyped, ClientTyped, ThreadTyped, TickTyped
       DEF IInv, Next
  <2>3. QED BY <2>1, <2>2
<1>2. OneChild' /\ OldWhileWritten'
  BY OneChildKept, OldWhileWrittenKept DEF IInv
<1>3. QED BY <1>1, <1>2 DEF IInv

LEMMA Invariant == Spec => []IInv
<1>1. Init => IInv
  BY InitTyped, Holders DEF Init, IInv, OneChild, OldWhileWritten
<1>2. QED BY <1>1, Inductive, PTL DEF Spec

\* The variables keep their types, and each lock has exactly the holder that the
\* program counters say it has.
THEOREM TypeCorrect == Spec => []TypeOK
<1>1. IInv => TypeOK
  BY DEF IInv, Typed, FileTyped, ClientsTyped, ThreadsTyped, TypeOK
<1>2. QED BY <1>1, Invariant, PTL

\* Nobody but the clock changes a file that is fresh.
LEMMA FreshUntouched ==
  ASSUME IInv, [Next]_vars, FileIsFresh
  PROVE  UNCHANGED file \/ Tick
<1>0. file.content = "token"
  BY DEF FileIsFresh
<1>1. ASSUME NEW g \in GetToken, Open(g)
      PROVE  UNCHANGED file
  BY <1>0, <1>1 DEF Open
<1>2. ASSUME NEW g \in GetToken
      PROVE  ~Truncate(g) /\ ~WriteFile(g)
  BY DEF IInv, OldWhileWritten, Truncate, WriteFile
<1>3. CASE \E g \in GetToken : Lock(g) \/ GetTokenStep(g) \/ Hang(g) \/ Kill(g)
  BY <1>2, <1>3 DEF Lock, GetTokenStep, CheckFile, Login, Hang, Kill
<1>4. CASE \E g \in Manual : StartManual(g)
  BY <1>1, <1>4, Holders DEF StartManual
<1>5. CASE \E c \in Client : ClientStep(c)
  BY <1>1, <1>5, Holders DEF ClientStep, Setup, SetupChild, SetupRead, fileVars
<1>6. CASE \E t \in Thread : ThreadStep(t) \/ TakeLock(t)
  BY <1>1, <1>6, Holders
     DEF ThreadStep, TestLoaded, TestAgain, Stat, ChildEnds, ApplyToken, Send,
         TakeLock, fileVars
<1>7. QED BY <1>3, <1>4, <1>5, <1>6 DEF Next, vars

\* A fresh token is not lost, truncated or overwritten by any of the processes
\* that open, lock, log in, write or die, for any number of them.
THEOREM FreshKept == Spec => FreshTokenKept
<1> DEFINE Kept == file.content = "token" /\ file.age < MaxAge =>
                     file'.content = "token" /\ file'.age >= file.age
<1>1. ASSUME IInv, [Next]_vars
      PROVE  Kept
  <2> SUFFICES ASSUME FileIsFresh
               PROVE  file'.content = "token" /\ file'.age >= file.age
    BY DEF FileIsFresh
  <2>0. file.age \in 0..OldToken /\ file.content = "token"
    BY <1>1 DEF IInv, Typed, FileTyped, FileIsFresh
  <2>1. CASE UNCHANGED file
    BY <2>0, <2>1, Limits
  <2>2. CASE Tick
    BY <1>1, <2>0, <2>2, Limits, Growing DEF Tick, IInv, Typed, FileTyped
  <2>3. QED BY <1>1, <2>1, <2>2, FreshUntouched
<1>2. IInv /\ [Next]_vars => [Kept]_file
  BY <1>1
<1>3. QED BY <1>2, Invariant, PTL DEF Spec, FreshTokenKept

-----------------------------------------------------------------------------
(* The age of the token in the header.                                     *)

\* In setup_auth nothing has been refreshed, and no thread has begun.
Early(c) == phase[c] \in {"start", "child", "read"}

EarlyIdle ==
  \A c \in Client : Early(c) =>
    c \notin refreshed /\ \A t \in Thread : ClientOf[t] = c => pc[t] = "idle"

\* What a client goes on to read is fresh: no time passes before it does, and
\* nobody else rewrites it.
ReadFresh ==
  /\ \A c \in Client : gpc[c] = "ok" => FileIsFresh
  /\ \A t \in Thread : At(t, "read") => FileIsFresh
  /\ \A t \in Thread : At(t, "apply") => header[ClientOf[t]] < MaxAge

\* The header is never older by more than MaxAge than the time that is noted.
HeaderBounded ==
  \A c \in refreshed : loaded[c] < MaxAge => header[c] < MaxAge + loaded[c]

JInv == IInv /\ EarlyIdle /\ ReadFresh /\ HeaderBounded /\ SentFresh

\* While somebody is in a hurry what is fresh stays so.
LEMMA FreshStays ==
  ASSUME IInv, [Next]_vars, FileIsFresh, Hurrying
  PROVE  FileIsFresh'
<1>1. UNCHANGED file
  BY FreshUntouched DEF Tick
<1>2. QED BY <1>1 DEF FileIsFresh

LEMMA ReadStaysFresh ==
  ASSUME JInv, [Next]_vars
  PROVE  /\ \A c \in Client : gpc[c] = "ok" => FileIsFresh'
         /\ \A t \in Thread : At(t, "read") => FileIsFresh'
BY FreshStays DEF JInv, ReadFresh, Hurrying, At

\* get_token.py ends with status 0 only beside a fresh file.
LEMMA GetTokenKeeps ==
  ASSUME JInv, [Next]_vars,
         \/ \E g \in GetToken : Lock(g) \/ GetTokenStep(g) \/ Hang(g) \/ Kill(g)
         \/ \E g \in Manual : StartManual(g)
  PROVE  EarlyIdle' /\ ReadFresh' /\ HeaderBounded' /\ SentFresh'
<1>1. /\ FileTyped /\ EarlyIdle /\ ReadFresh /\ HeaderBounded /\ SentFresh
  BY DEF JInv, IInv, Typed
<1>2. UNCHANGED <<phase, header, loaded, refreshed, pc>>
  BY DEF Lock, GetTokenStep, CheckFile, Login, Truncate, WriteFile, Hang, Kill, StartManual, clientVars
<1>3. ASSUME NEW c \in Client, gpc'[c] = "ok"
      PROVE  FileIsFresh'
  <2>1. CASE gpc[c] = "ok"
    BY <2>1, ReadStaysFresh
  <2>2. CASE gpc[c] # "ok" /\ \E g \in GetToken : Lock(g) \/ GetTokenStep(g) \/ Hang(g) \/ Kill(g)
    <3>1. PICK g \in GetToken : Lock(g) \/ GetTokenStep(g) \/ Hang(g) \/ Kill(g)
      BY <2>2
    <3>2. gpc' = [gpc EXCEPT ![g] = gpc'[g]]
      BY <1>1, <3>1
         DEF Lock, GetTokenStep, CheckFile, Login, Truncate, WriteFile, Hang, Kill, Exit, GGoto, FileTyped
    <3>3. c = g
      BY <1>1, <1>3, <2>2, <3>2, Holders DEF FileTyped
    <3>4. (CheckFile(g) /\ FileIsFresh) \/ WriteFile(g)
      BY <1>1, <1>3, <3>1, <3>3
         DEF Lock, GetTokenStep, CheckFile, Login, Truncate, Hang, Kill, Exit, GGoto, FileTyped
    <3>5. QED BY <3>4, Limits DEF CheckFile, WriteFile, FileIsFresh
  <2>3. CASE gpc[c] # "ok" /\ \E g \in Manual : StartManual(g)
    BY <1>1, <1>3, <2>3 DEF StartManual, Open, FileTyped
  <2>4. QED BY <2>1, <2>2, <2>3
<1>4. \A t \in Thread : At(t, "read")' => FileIsFresh'
  BY <1>2, ReadStaysFresh DEF At
<1>5. QED BY <1>1, <1>2, <1>3, <1>4 DEF EarlyIdle, Early, ReadFresh, HeaderBounded, SentFresh, At

\* setup_auth comes before everything the threads do.
LEMMA ClientKeeps ==
  ASSUME JInv, [Next]_vars, NEW c \in Client, ClientStep(c)
  PROVE  EarlyIdle' /\ ReadFresh' /\ HeaderBounded' /\ SentFresh'
<1>1. /\ Typed /\ EarlyIdle /\ ReadFresh /\ HeaderBounded /\ SentFresh
  BY DEF JInv, IInv
<1>2. /\ UNCHANGED <<refreshed, pc>> /\ Early(c)
      /\ \A d \in Client \ {c} : /\ phase'[d] = phase[d] /\ header'[d] = header[d]
                                 /\ loaded'[d] = loaded[d]
  BY <1>1 DEF ClientStep, Setup, SetupChild, SetupRead, PGoto, Early, Typed, ClientsTyped
<1>3. ASSUME NEW d \in Client, gpc'[d] = "ok" PROVE gpc[d] = "ok"
  <2>1. gpc' = gpc \/ \E where \in {"flock", "off"} : gpc' = [gpc EXCEPT ![c] = where]
    BY DEF ClientStep, Setup, SetupChild, SetupRead, Open, GGoto, fileVars
  <2>2. QED BY <1>1, <1>3, <2>1, Holders DEF Typed, FileTyped
<1>4. c \notin refreshed /\ \A t \in Thread : ClientOf[t] = c => pc[t] = "idle"
  BY <1>1, <1>2 DEF EarlyIdle
<1>5. ASSUME NEW t \in Thread, NEW where \in {"read", "apply", "send"}, At(t, where)'
      PROVE  /\ At(t, where) /\ ClientOf[t] \in Client \ {c}
             /\ header'[ClientOf[t]] = header[ClientOf[t]]
  BY <1>2, <1>4, <1>5, Holders DEF At
<1>6. EarlyIdle'
  BY <1>1, <1>2, <1>4 DEF EarlyIdle, Early
<1>7. ReadFresh'
  BY <1>1, <1>3, <1>5, ReadStaysFresh DEF ReadFresh
<1>8. HeaderBounded'
  BY <1>1, <1>2, <1>4 DEF HeaderBounded, Typed, ClientsTyped
<1>9. SentFresh'
  BY <1>1, <1>2, <1>5 DEF SentFresh
<1>10. QED BY <1>6, <1>7, <1>8, <1>9

\* What a thread does to the invariant, from what it does to the variables.
LEMMA ThreadMoves ==
  ASSUME JInv, [Next]_vars, NEW u \in Thread, NEW c \in Client, c = ClientOf[u],
         phase[c] = "running", phase'[c] \in {"running", "exited"},
         \A d \in Client \ {c} : /\ phase'[d] = phase[d] /\ header'[d] = header[d]
                                 /\ loaded'[d] = loaded[d],
         \A v \in Thread \ {u} : pc'[v] = pc[v],
         \A d \in Client : gpc'[d] = "ok" => gpc[d] = "ok",
         header'[c] = header[c] \/ header'[c] < MaxAge,
         \/ loaded'[c] = loaded[c] /\ refreshed' = refreshed
         \/ loaded'[c] = 0 /\ refreshed' = refreshed \cup {c} /\ header'[c] < MaxAge,
         pc'[u] = "read" => FileIsFresh',
         pc'[u] = "apply" => header'[c] < MaxAge,
         pc'[u] = "send" /\ c \in refreshed' => header'[c] < 2 * MaxAge
  PROVE  EarlyIdle' /\ ReadFresh' /\ HeaderBounded' /\ SentFresh'
<1>1. /\ Typed /\ EarlyIdle /\ ReadFresh /\ HeaderBounded /\ SentFresh
  BY DEF JInv, IInv
<1>2. /\ header \in [Client -> 0..OldToken] /\ loaded \in [Client -> 0..MaxAge]
      /\ refreshed \subseteq Client /\ MaxAge \in Nat \ {0} /\ OldToken \in Nat
  BY <1>1, Limits DEF Typed, ClientsTyped
<1>3. header'[c] \in 0..OldToken
  <2>1. Typed'
    BY Inductive DEF JInv, IInv
  <2>2. QED BY <2>1 DEF Typed, ClientsTyped
<1>4. EarlyIdle'
  BY <1>1 DEF EarlyIdle, Early
<1>5. ASSUME NEW v \in Thread \ {u}, NEW where, At(v, where)'
      PROVE  At(v, where) /\ ClientOf[v] \in Client
  BY <1>5, Holders DEF At
<1>6. ReadFresh'
  <2>1. ASSUME NEW v \in Thread, At(v, "read")' PROVE FileIsFresh'
    <3>1. CASE v = u  BY <2>1, <3>1 DEF At
    <3>2. CASE v # u  BY <1>5, <2>1, <3>2, ReadStaysFresh
    <3>3. QED BY <3>1, <3>2
  <2>2. ASSUME NEW v \in Thread, At(v, "apply")' PROVE header'[ClientOf[v]] < MaxAge
    <3>1. CASE v = u  BY <2>2, <3>1 DEF At
    <3>2. CASE v # u
      <4>1. ClientOf[v] \in Client /\ header[ClientOf[v]] < MaxAge
        BY <1>1, <1>5, <2>2, <3>2 DEF ReadFresh
      <4>2. QED BY <4>1
    <3>3. QED BY <3>1, <3>2
  <2>3. QED BY <2>1, <2>2, ReadStaysFresh DEF ReadFresh
<1>7. HeaderBounded'
  <2>1. SUFFICES ASSUME NEW d \in refreshed', loaded'[d] < MaxAge
                 PROVE  header'[d] < MaxAge + loaded'[d]
    BY DEF HeaderBounded
  <2>2. CASE d # c
    BY <1>1, <1>2, <2>1, <2>2 DEF HeaderBounded
  <2>3. CASE d = c /\ header'[c] < MaxAge
    <3>1. loaded'[c] \in Nat
      BY <1>2
    <3>2. QED BY <1>2, <1>3, <2>3, <3>1
  <2>4. CASE d = c /\ ~ (header'[c] < MaxAge)
    BY <1>1, <1>2, <2>1, <2>4 DEF HeaderBounded
  <2>5. QED BY <2>2, <2>3, <2>4
<1>8. SentFresh'
  <2>1. SUFFICES ASSUME NEW v \in Thread, At(v, "send")', ClientOf[v] \in refreshed'
                 PROVE  header'[ClientOf[v]] < 2 * MaxAge
    BY DEF SentFresh
  <2>2. CASE v = u
    BY <2>1, <2>2 DEF At
  <2>3. CASE v # u
    <3>1. At(v, "send") /\ ClientOf[v] \in Client
      BY <1>5, <2>1, <2>3
    <3>2. CASE ClientOf[v] = c /\ header'[c] < MaxAge
      BY <1>2, <1>3, <3>2
    <3>3. CASE ~ (ClientOf[v] = c /\ header'[c] < MaxAge)
      <4>1. ClientOf[v] \in refreshed /\ header'[ClientOf[v]] = header[ClientOf[v]]
        BY <2>1, <3>1, <3>3
      <4>2. QED BY <1>1, <3>1, <4>1 DEF SentFresh
    <3>4. QED BY <3>2, <3>3
  <2>4. QED BY <2>2, <2>3
<1>9. QED BY <1>4, <1>6, <1>7, <1>8

\* A token that is used while the time that is noted is less than MaxAge ago.
LEMMA LoadedIsFresh ==
  ASSUME JInv, NEW c \in Client, loaded[c] < MaxAge, c \in refreshed
  PROVE  header[c] < 2 * MaxAge
<1>1. header[c] \in 0..OldToken /\ loaded[c] \in 0..MaxAge
  BY DEF JInv, IInv, Typed, ClientsTyped
<1>2. header[c] < MaxAge + loaded[c]
  BY DEF JInv, HeaderBounded
<1>3. QED BY <1>1, <1>2, Limits

LEMMA ThreadKeeps ==
  ASSUME JInv, [Next]_vars, NEW u \in Thread, ThreadStep(u) \/ TakeLock(u)
  PROVE  EarlyIdle' /\ ReadFresh' /\ HeaderBounded' /\ SentFresh'
<1>1. PICK c \in Client : c = ClientOf[u]
  BY Holders
<1>2. /\ Typed /\ ReadFresh
      /\ phase \in [Client -> Phase] /\ pc \in [Thread -> PC] /\ gpc \in [GetToken -> GPC]
      /\ header \in [Client -> 0..OldToken] /\ loaded \in [Client -> 0..MaxAge]
  BY DEF JInv, IInv, Typed, FileTyped, ClientsTyped, ThreadsTyped
<1>3. CASE TestLoaded(u) \/ TestAgain(u)
  <2>1. /\ UNCHANGED <<fileVars, clientVars>> /\ phase[c] = "running"
        /\ \E where \in {"send", "lock", "stat"} :
             /\ pc' = [pc EXCEPT ![u] = where]
             /\ where = "send" => loaded[c] < MaxAge
    BY <1>1, <1>3 DEF TestLoaded, TestAgain, Return, Goto, IsLoaded, At
  <2>2. pc'[u] = "send" /\ c \in refreshed' => header'[c] < 2 * MaxAge
    BY <1>2, <2>1, LoadedIsFresh DEF clientVars
  <2>3. /\ pc'[u] \notin {"read", "apply"}
        /\ \A v \in Thread \ {u} : pc'[v] = pc[v]
    BY <1>2, <2>1
  <2>4. QED BY <1>1, <2>1, <2>2, <2>3, ThreadMoves DEF fileVars, clientVars
<1>4. CASE TakeLock(u) \/ Send(u)
  <2>1. /\ UNCHANGED <<fileVars, clientVars>> /\ phase[c] = "running"
        /\ \E where \in {"recheck", "idle"} : pc' = [pc EXCEPT ![u] = where]
    BY <1>1, <1>4 DEF TakeLock, Send, Goto, At
  <2>2. /\ pc'[u] \notin {"read", "apply", "send"}
        /\ \A v \in Thread \ {u} : pc'[v] = pc[v]
    BY <1>2, <2>1
  <2>3. QED BY <1>1, <2>1, <2>2, ThreadMoves DEF fileVars, clientVars
<1>5. CASE Stat(u)
  <2>1. UNCHANGED clientVars /\ phase[c] = "running"
    BY <1>1, <1>5 DEF Stat, At
  <2>2. \A d \in Client : gpc'[d] = "ok" => gpc[d] = "ok"
    <3>1. UNCHANGED gpc \/ gpc' = [gpc EXCEPT ![c] = "flock"]
      BY <1>1, <1>5 DEF Stat, Open, fileVars
    <3>2. QED BY <1>2, <3>1, Holders
  <2>3. /\ pc'[u] \in {"read", "child"}
        /\ pc'[u] = "read" => FileIsFresh'
        /\ \A v \in Thread \ {u} : pc'[v] = pc[v]
    BY <1>2, <1>5 DEF Stat, Goto, fileVars, FileIsFresh
  <2>4. QED BY <1>1, <2>1, <2>2, <2>3, ThreadMoves DEF clientVars
<1>6. CASE ChildEnds(u)
  <2>1. /\ UNCHANGED <<file, header, loaded, refreshed>> /\ phase[c] = "running"
        /\ pc[u] = "child"
        /\ gpc[c] \in {"ok", "failed"} /\ gpc' = [gpc EXCEPT ![c] = "off"]
        /\ IF gpc[c] = "ok" THEN pc' = [pc EXCEPT ![u] = "read"] /\ UNCHANGED phase
                            ELSE phase' = [phase EXCEPT ![c] = "exited"] /\ UNCHANGED pc
    BY <1>1, <1>6 DEF ChildEnds, GGoto, Goto, Abort, PGoto, At
  <2>2. \A d \in Client : gpc'[d] = "ok" => gpc[d] = "ok"
    BY <1>2, <2>1, Holders
  <2>3. /\ pc'[u] \in {"read", "child"}
        /\ pc'[u] = "read" => gpc[c] = "ok"
        /\ \A v \in Thread \ {u} : pc'[v] = pc[v]
    BY <1>2, <2>1
  <2>4. pc'[u] = "read" => FileIsFresh'
    BY <2>3, ReadStaysFresh
  <2>5. /\ phase'[c] \in {"running", "exited"}
        /\ \A d \in Client \ {c} : phase'[d] = phase[d]
    BY <1>2, <2>1
  <2>6. QED BY <1>1, <2>1, <2>2, <2>3, <2>4, <2>5, ThreadMoves
<1>7. CASE ApplyToken(u) /\ pc[u] = "read"
  <2>1. /\ UNCHANGED fileVars /\ phase[c] = "running" /\ FileIsFresh
    BY <1>1, <1>2, <1>7 DEF ApplyToken, At, ReadFresh
  <2>2. /\ header' = [header EXCEPT ![c] = file.age] /\ UNCHANGED <<loaded, phase, refreshed>>
        /\ pc' = [pc EXCEPT ![u] = "apply"]
    BY <1>1, <1>7, <2>1 DEF ApplyToken, At, SetHeader, Goto, FileIsFresh
  <2>3. /\ header'[c] < MaxAge
        /\ \A d \in Client \ {c} : header'[d] = header[d]
        /\ pc'[u] = "apply"
        /\ \A v \in Thread \ {u} : pc'[v] = pc[v]
    BY <1>2, <2>1, <2>2 DEF FileIsFresh
  <2>4. QED BY <1>1, <2>1, <2>2, <2>3, ThreadMoves DEF fileVars
<1>8. CASE ApplyToken(u) /\ pc[u] # "read"
  <2>1. /\ UNCHANGED fileVars /\ phase[c] = "running" /\ header[c] < MaxAge
        /\ loaded' = [loaded EXCEPT ![c] = 0] /\ UNCHANGED <<header, phase>>
        /\ refreshed' = refreshed \cup {c}
        /\ pc' = [pc EXCEPT ![u] = "send"]
    BY <1>1, <1>2, <1>8 DEF ApplyToken, At, SetLoaded, Return, Goto, ReadFresh
  <2>2. /\ loaded'[c] = 0
        /\ \A d \in Client \ {c} : loaded'[d] = loaded[d]
        /\ pc'[u] = "send"
        /\ \A v \in Thread \ {u} : pc'[v] = pc[v]
    BY <1>2, <2>1
  <2>3. header'[c] < 2 * MaxAge
    <3>1. header[c] \in 0..OldToken
      BY <1>2
    <3>2. QED BY <2>1, <3>1, Limits
  <2>4. QED BY <1>1, <2>1, <2>2, <2>3, ThreadMoves DEF fileVars
<1>9. QED BY <1>3, <1>4, <1>5, <1>6, <1>7, <1>8 DEF ThreadStep

\* Time passes: the header and what is noted of it get older together.
LEMMA TickKeeps ==
  ASSUME JInv, Tick
  PROVE  EarlyIdle' /\ ReadFresh' /\ HeaderBounded' /\ SentFresh'
<1>1. Typed /\ EarlyIdle /\ ReadFresh /\ HeaderBounded
  BY DEF JInv, IInv
<1>2. UNCHANGED <<gpc, phase, refreshed, pc>>
  BY DEF Tick
<1>3. \A t \in Thread : ~ At(t, "read")' /\ ~ At(t, "apply")' /\ ~ At(t, "send")'
  BY <1>2 DEF Tick, Hurrying, At
<1>4. \A c \in Client : gpc'[c] # "ok"
  BY <1>2 DEF Tick, Hurrying
<1>5. EarlyIdle' /\ ReadFresh' /\ SentFresh'
  BY <1>1, <1>2, <1>3, <1>4 DEF EarlyIdle, Early, ReadFresh, SentFresh
<1>6. HeaderBounded'
  <2>1. SUFFICES ASSUME NEW c \in refreshed, loaded'[c] < MaxAge
                 PROVE  header'[c] < MaxAge + loaded'[c]
    BY <1>2 DEF HeaderBounded
  <2>2. /\ c \in Client /\ header[c] \in 0..OldToken /\ loaded[c] \in 0..MaxAge
        /\ MaxAge \in Nat /\ OldToken \in Nat
    BY <1>1, Limits DEF Typed, ClientsTyped
  <2>3. loaded'[c] = Older(loaded[c], MaxAge) /\ header'[c] = Older(header[c], OldToken)
    BY <2>2 DEF Tick
  <2>4. loaded[c] < MaxAge /\ loaded'[c] = loaded[c] + 1
    BY <2>1, <2>2, <2>3 DEF Older
  <2>5. header'[c] <= header[c] + 1 /\ header'[c] \in Nat
    BY <2>2, <2>3 DEF Older
  <2>6. header[c] < MaxAge + loaded[c]
    BY <1>1, <2>4 DEF HeaderBounded
  <2>7. QED BY <2>2, <2>4, <2>5, <2>6
<1>7. QED BY <1>5, <1>6

LEMMA JInductive == JInv /\ [Next]_vars => JInv'
<1> SUFFICES ASSUME JInv, [Next]_vars PROVE JInv'
  OBVIOUS
<1>1. IInv'
  BY Inductive DEF JInv
<1>2. CASE UNCHANGED vars
  BY <1>1, <1>2
     DEF JInv, EarlyIdle, Early, ReadFresh, HeaderBounded, SentFresh, FileIsFresh, At, vars
<1>3. CASE Next
  BY <1>1, <1>3, GetTokenKeeps, ClientKeeps, ThreadKeeps, TickKeeps DEF JInv, Next
<1>4. QED BY <1>2, <1>3

LEMMA JInvariant == Spec => []JInv
<1>1. Init => JInv
  <2>1. SUFFICES ASSUME Init PROVE JInv
    OBVIOUS
  <2>2. IInv
    BY <2>1, InitTyped, Holders DEF Init, IInv, OneChild, OldWhileWritten
  <2>3. /\ refreshed = {} /\ \A t \in Thread : pc[t] = "idle"
        /\ \A c \in Client : gpc[c] = "off"
    BY <2>1, Holders DEF Init
  <2>4. QED
    BY <2>2, <2>3 DEF JInv, EarlyIdle, ReadFresh, HeaderBounded, SentFresh, At
<1>2. QED BY <1>1, JInductive, PTL DEF Spec

\* After its first refresh no thread of a client sends a token that was loaded
\* more than MaxAge ago or was not fresh then, for any number of threads and
\* whatever other processes do to the file.
THEOREM SentTokensAreFresh == Spec => []SentFresh
<1>1. JInv => SentFresh
  BY DEF JInv
<1>2. QED BY <1>1, JInvariant, PTL

\* A client at work is never aborted because of what other processes do to the
\* file: only when its own get_token.py has failed.
THEOREM AbortsAreExplained == Spec => AbortExplained
<1> DEFINE Explained == \A c \in Client :
             phase[c] = "running" /\ phase'[c] = "exited" => gpc[c] = "failed"
<1>1. ASSUME JInv, Next, NEW c \in Client, phase[c] = "running", phase'[c] = "exited"
      PROVE  gpc[c] = "failed"
  <2>1. phase \in [Client -> Phase] /\ ReadFresh
    BY <1>1 DEF JInv, IInv, Typed, ClientsTyped
  <2>2. PICK d \in Client : phase' = [phase EXCEPT ![d] = phase'[d]]
                            /\ (ClientStep(d) \/ \E t \in Thread : d = ClientOf[t] /\ ThreadStep(t))
    BY <1>1, <2>1, Holders
       DEF Next, Lock, GetTokenStep, CheckFile, Login, Truncate, WriteFile, Hang, Kill, StartManual,
           ClientStep, Setup, SetupChild, SetupRead, PGoto, TakeLock, ThreadStep, TestLoaded,
           TestAgain, Stat, ChildEnds, ApplyToken, Abort, Send, Tick, clientVars
  <2>3. c = d
    BY <1>1, <2>1, <2>2
  <2>4. ~ ClientStep(c)
    BY <1>1 DEF ClientStep, Setup, SetupChild, SetupRead
  <2>5. PICK t \in Thread : c = ClientOf[t] /\ ThreadStep(t)
    BY <2>2, <2>3, <2>4
  <2>6. CASE ChildEnds(t)
    BY <1>1, <2>5, <2>6 DEF ChildEnds
  <2>7. CASE ApplyToken(t)
    <3>1. ~ (At(t, "read") /\ file.content # "token")
      BY <2>1 DEF ReadFresh, FileIsFresh
    <3>2. UNCHANGED phase
      BY <2>7, <3>1 DEF ApplyToken
    <3>3. QED BY <1>1, <3>2
  <2>8. QED
    BY <1>1, <2>5, <2>6, <2>7 DEF ThreadStep, TestLoaded, TestAgain, Stat, Send, clientVars
<1>2. JInv /\ [Next]_vars => [Explained]_phase
  BY <1>1 DEF vars
<1>3. QED BY <1>2, JInvariant, PTL DEF Spec, AbortExplained
=============================================================================
