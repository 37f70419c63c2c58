----------------------------- MODULE FixSchemes -----------------------------
(***************************************************************************)
(* admin/backup/fix_document_schemes.py: in an export on S3, every         *)
(* scheme.pb of a document table loses its Document API attributes and the *)
(* checksum beside it is made anew; the first versions are kept as         *)
(* scheme.pb.orig and scheme.pb.sha256.orig.                               *)
(*                                                                         *)
(* S3 is external: each request is atomic, may fail, and may be carried    *)
(* out although its answer is an error.  A run may be killed at any step   *)
(* and the script started again; with Overlap two runs may be at work at   *)
(* the same time.                                                          *)
(***************************************************************************)
EXTENDS Naturals, Sequences

CONSTANTS
  Run,         \* the runs of the script
  Key,         \* the directories that have a scheme.pb
  Keys,        \* the same in the order of process_prefix (sorted)
  Attribute,   \* keys of `attributes` blocks
  Document,    \* the attribute __document_api_version
  Dynamodb,    \* the attributes with the prefix dynamodb
  NoObject,    \* what a key holds when the object does not exist
  Overlap      \* TRUE: a run may start while another is at work

ASSUME KeysAssumption ==
  /\ Keys \in Seq(Key)
  /\ \A i, j \in 1..Len(Keys) : Keys[i] = Keys[j] => i = j

ASSUME AttributeAssumption ==
  /\ Document \in Attribute
  /\ Dynamodb \subseteq Attribute
  /\ Overlap \in BOOLEAN

\* A scheme.pb: whether it can be decoded and parsed and, if it is a document
\* table, has columns and a primary key; and its attributes.  The rest of the
\* text is never changed.
Scheme == [valid : BOOLEAN, attributes : SUBSET Attribute]

\* A text that is not a scheme; also a scheme.pb.sha256 that holds no sum.
Unreadable == [valid |-> FALSE, attributes |-> {Document}]

\* A scheme.pb.sha256 is the scheme it is the sum of: sha256 has no collisions.
ASSUME NoObjectAssumption == NoObject \notin Scheme

VARIABLES
  scheme,      \* scheme.pb
  sum,         \* scheme.pb.sha256
  schemeOrig,  \* scheme.pb.orig
  sumOrig,     \* scheme.pb.sha256.orig
  first,       \* the scheme and the sum as the export left them (history)
  pc, pos,     \* the next request of each run, and its place in Keys
  raw,         \* the scheme.pb a run has read
  old,         \* the scheme.pb.sha256 it has read: old_checksum, current
  dryRun,      \* the option of each run
  stats        \* Stats of each run

store  == <<scheme, sum, schemeOrig, sumOrig>>
locals == <<pos, raw, old, stats>>
vars   == <<store, first, pc, locals, dryRun>>

\* The counters of the summary that a directory can end up in.
Counters == {"updated", "skipped", "repaired", "errors"}
Stats    == [Counters -> Nat]

Requests == {"get", "plainOrig", "plainSum", "plainRead", "orig", "copyOrig",
             "sum", "read", "put", "sumOrig", "copySumOrig", "putSum"}
Ended    == {"done", "killed"}

\* A fresh export: no .orig objects; the sum is right, unreadable or missing.
Init ==
  /\ scheme \in [Key -> {s \in Scheme : s.valid \/ s = Unreadable}]
  /\ sum \in [Key -> Scheme \cup {NoObject}]
  /\ \A k \in Key : sum[k] \in {scheme[k], Unreadable, NoObject}
  /\ schemeOrig = [k \in Key |-> NoObject]
  /\ sumOrig = [k \in Key |-> NoObject]
  /\ first = [k \in Key |-> [scheme |-> scheme[k], sum |-> sum[k]]]
  /\ pc = [r \in Run |-> "idle"]
  /\ pos = [r \in Run |-> 1]
  /\ raw = [r \in Run |-> Unreadable]
  /\ old = [r \in Run |-> NoObject]
  /\ dryRun \in [Run -> BOOLEAN]
  /\ stats = [r \in Run |-> [c \in Counters |-> 0]]
-----------------------------------------------------------------------------
\* rewrite_document_scheme: a table is a document table if it has the attribute
\* Document; that one and the Dynamodb ones go.
IsDocument(s) == Document \in s.attributes

Rewritten(s) == [s EXCEPT !.attributes = @ \ ({Document} \cup Dynamodb)]

At(r) == Keys[pos[r]]

Goto(r, next) == pc' = [pc EXCEPT ![r] = next]

\* A request that only reads, or that is not sent in a dry run.
Reads(r, next) ==
  /\ Goto(r, next)
  /\ UNCHANGED <<store, first, locals, dryRun>>

\* _process_scheme has returned or raised: its locals are gone, one counter is
\* up by one, and the loop of process_prefix goes on.
NextKey(r, counter) ==
  /\ stats' = [stats EXCEPT ![r][counter] = @ + 1]
  /\ pos' = [pos EXCEPT ![r] = @ + 1]
  /\ raw' = [raw EXCEPT ![r] = Unreadable]
  /\ old' = [old EXCEPT ![r] = NoObject]
  /\ Goto(r, IF pos[r] = Len(Keys) THEN "done" ELSE "get")

\* The listing, read to its end before the loop.  A run whose listing fails
\* has done nothing.
Begin(r) ==
  /\ pc[r] = "idle"
  /\ Overlap \/ \A q \in Run : pc[q] \notin Requests
  /\ Goto(r, IF Keys = << >> THEN "done" ELSE "get")
  /\ UNCHANGED <<store, first, locals, dryRun>>

Get(r) ==
  /\ pc[r] = "get"
  /\ UNCHANGED <<store, first, dryRun>>
  /\ LET s == scheme[At(r)] IN
     \/ /\ ~s.valid
        /\ NextKey(r, "errors")
     \/ /\ s.valid
        /\ raw' = [raw EXCEPT ![r] = s]
        /\ Goto(r, IF IsDocument(s) THEN "orig" ELSE "plainOrig")
        /\ UNCHANGED <<pos, old, stats>>
-----------------------------------------------------------------------------
\* Not a document table: the checksum is repaired if the scheme was rewritten
\* by an earlier run (.orig is there) and does not match.
PlainOrig(r) ==
  /\ pc[r] = "plainOrig"
  /\ \/ /\ schemeOrig[At(r)] # NoObject
        /\ Reads(r, "plainSum")
     \/ /\ schemeOrig[At(r)] = NoObject
        /\ NextKey(r, "skipped")
        /\ UNCHANGED <<store, first, dryRun>>

PlainSum(r) ==
  /\ pc[r] = "plainSum"
  /\ \/ /\ sum[At(r)] # NoObject
        /\ Reads(r, "plainRead")
     \/ /\ sum[At(r)] = NoObject
        /\ NextKey(r, "skipped")
        /\ UNCHANGED <<store, first, dryRun>>

\* Mutant of PlainRead: a rewritten scheme is taken to be finished.
PlainReadAndSkip(r) ==
  /\ pc[r] = "plainRead"
  /\ NextKey(r, "skipped")
  /\ UNCHANGED <<store, first, dryRun>>

PlainRead(r) ==
  /\ pc[r] = "plainRead"
  /\ UNCHANGED <<store, first, dryRun>>
  /\ \/ /\ sum[At(r)] # raw[r]
        /\ old' = [old EXCEPT ![r] = sum[At(r)]]
        /\ Goto(r, "sumOrig")
        /\ UNCHANGED <<pos, raw, stats>>
     \/ /\ sum[At(r)] = raw[r]
        /\ NextKey(r, "skipped")
-----------------------------------------------------------------------------
\* Mutant of Orig: the scheme is overwritten without saving it first.
OrigUnsaved(r) ==
  /\ pc[r] = "orig"
  /\ Reads(r, "sum")

\* A document table: save the original unless there is one ...
Orig(r) ==
  /\ pc[r] = "orig"
  /\ Reads(r, IF schemeOrig[At(r)] = NoObject /\ ~dryRun[r] THEN "copyOrig" ELSE "sum")

\* ... read the checksum, if there is one ...
SumExists(r) ==
  /\ pc[r] = "sum"
  /\ Reads(r, IF sum[At(r)] # NoObject THEN "read" ELSE "put")

Read(r) ==
  /\ pc[r] = "read"
  /\ old' = [old EXCEPT ![r] = sum[At(r)]]
  /\ Goto(r, "put")
  /\ UNCHANGED <<store, first, pos, raw, stats, dryRun>>

\* ... save the original checksum unless there is one (_write_checksum).
SumOrig(r) ==
  /\ pc[r] = "sumOrig"
  /\ Reads(r, IF sumOrig[At(r)] = NoObject /\ ~dryRun[r] THEN "copySumOrig" ELSE "putSum")

\* Mutant of Original: what is saved is the rewritten text.
OriginalFromMemory(r) == Rewritten(raw[r])

\* What copy_object saves: the object as it is now, not the one read before.
Original(r) == scheme[At(r)]

\* What the request run r is about to make does to the store.
Write(r) ==
  LET k == At(r) IN
  \/ /\ pc[r] = "copyOrig"
     /\ schemeOrig' = [schemeOrig EXCEPT ![k] = Original(r)]
     /\ UNCHANGED <<scheme, sum, sumOrig>>
  \/ /\ pc[r] = "put" /\ ~dryRun[r]
     /\ scheme' = [scheme EXCEPT ![k] = Rewritten(raw[r])]
     /\ UNCHANGED <<sum, schemeOrig, sumOrig>>
  \/ /\ pc[r] = "copySumOrig"
     /\ sumOrig' = [sumOrig EXCEPT ![k] = sum[k]]
     /\ UNCHANGED <<scheme, sum, schemeOrig>>
  \/ /\ pc[r] = "putSum" /\ ~dryRun[r]
     /\ sum' = [sum EXCEPT ![k] = Rewritten(raw[r])]
     /\ UNCHANGED <<scheme, schemeOrig, sumOrig>>
  \/ /\ pc[r] \in {"put", "putSum"} /\ dryRun[r]
     /\ UNCHANGED store

CopyOrig(r) ==
  /\ pc[r] = "copyOrig"
  /\ Write(r)
  /\ Goto(r, "sum")
  /\ UNCHANGED <<first, locals, dryRun>>

\* Mutant of Put: the table is counted before its checksum is written.
PutAndCount(r) ==
  /\ pc[r] = "put"
  /\ Write(r)
  /\ UNCHANGED <<first, dryRun>>
  /\ \/ /\ old[r] # NoObject
        /\ Goto(r, "sumOrig")
        /\ stats' = [stats EXCEPT ![r]["updated"] = @ + 1]
        /\ UNCHANGED <<pos, raw, old>>
     \/ /\ old[r] = NoObject
        /\ NextKey(r, "updated")

Put(r) ==
  /\ pc[r] = "put"
  /\ Write(r)
  /\ UNCHANGED <<first, dryRun>>
  /\ \/ /\ old[r] # NoObject
        /\ Goto(r, "sumOrig")
        /\ UNCHANGED locals
     \/ /\ old[r] = NoObject
        /\ NextKey(r, "updated")

CopySumOrig(r) ==
  /\ pc[r] = "copySumOrig"
  /\ Write(r)
  /\ Goto(r, "putSum")
  /\ UNCHANGED <<first, locals, dryRun>>

PutSum(r) ==
  /\ pc[r] = "putSum"
  /\ Write(r)
  /\ NextKey(r, IF IsDocument(raw[r]) THEN "updated" ELSE "repaired")
  /\ UNCHANGED <<first, dryRun>>
-----------------------------------------------------------------------------
\* Run r is about to make a request: a dry run makes none that write.
Requesting(r) == pc[r] \in Requests /\ ~ (dryRun[r] /\ pc[r] \in {"put", "putSum"})

\* Mutant of Fails: a directory that failed is counted as skipped.
FailsAsSkipped(r) ==
  /\ Requesting(r)
  /\ NextKey(r, "skipped")
  /\ Write(r) \/ UNCHANGED store
  /\ UNCHANGED <<first, dryRun>>

\* A request fails, possibly after S3 has carried it out: process_prefix counts
\* an error and goes on with the next directory.
Fails(r) ==
  /\ Requesting(r)
  /\ NextKey(r, "errors")
  /\ Write(r) \/ UNCHANGED store
  /\ UNCHANGED <<first, dryRun>>

\* The run is killed, or the machine stops.
Kill(r) ==
  /\ pc[r] \in Requests
  /\ Goto(r, "killed")
  /\ UNCHANGED <<store, first, locals, dryRun>>

\* Every run has ended: nothing is left to do.
Terminated ==
  /\ \A r \in Run : pc[r] \in Ended
  /\ UNCHANGED vars

Step(r) ==
  \/ Begin(r) \/ Get(r)
  \/ PlainOrig(r) \/ PlainSum(r) \/ PlainRead(r)
  \/ Orig(r) \/ CopyOrig(r) \/ SumExists(r) \/ Read(r) \/ Put(r)
  \/ SumOrig(r) \/ CopySumOrig(r) \/ PutSum(r)
  \/ Fails(r) \/ Kill(r)

Next == (\E r \in Run : Step(r)) \/ Terminated

Spec == Init /\ [][Next]_vars
-----------------------------------------------------------------------------
Handled(r) ==
  stats[r]["updated"] + stats[r]["skipped"] + stats[r]["repaired"] + stats[r]["errors"]

\* Types; and every directory a run has passed is counted by exactly one of the
\* counters of its summary (process_prefix), whatever failed on the way.
TypeOK ==
  /\ scheme \in [Key -> Scheme]
  /\ sum \in [Key -> Scheme \cup {NoObject}]
  /\ schemeOrig \in [Key -> Scheme \cup {NoObject}]
  /\ sumOrig \in [Key -> Scheme \cup {NoObject}]
  /\ first \in [Key -> [scheme : Scheme, sum : Scheme \cup {NoObject}]]
  /\ pc \in [Run -> {"idle"} \cup Requests \cup Ended]
  /\ pos \in [Run -> 1..(Len(Keys) + 1)]
  /\ raw \in [Run -> Scheme]
  /\ old \in [Run -> Scheme \cup {NoObject}]
  /\ dryRun \in [Run -> BOOLEAN]
  /\ stats \in [Run -> Stats]
  /\ \A r \in Run : Handled(r) = pos[r] - 1

\* "The original files are saved as scheme.pb.orig and scheme.pb.sha256.orig
\* and not overwritten again": what an .orig object holds is the object of the
\* export, never one the script has made (_process_scheme, _write_checksum).
OriginalsKept ==
  \A k \in Key :
    /\ schemeOrig[k] \in {NoObject, first[k].scheme}
    /\ sumOrig[k] \in {NoObject, first[k].sum}

\* Whatever failed and whenever a run was killed, the export can be put back as
\* it was: an object is as it was, or its original is beside it.
Recoverable ==
  \A k \in Key :
    /\ first[k].scheme \in {scheme[k], schemeOrig[k]}
    /\ first[k].sum \in {sum[k], sumOrig[k]}

\* A run that exits with 0 and was no dry run.
Clean(r) == pc[r] = "done" /\ stats[r]["errors"] = 0 /\ ~dryRun[r]

\* After a run that exits with 0 the export imports as row tables: no directory
\* has a document attribute left, the other attributes are all there, and no
\* rewritten scheme has a checksum that does not match it, even if earlier runs
\* stopped between the upload of the scheme and that of the sum.
CleanMeansImportable ==
  \A r \in Run : Clean(r) =>
    \A i \in 1..Len(Keys) :
      LET k == Keys[i]
          f == first[k].scheme
      IN  IF IsDocument(f)
            THEN /\ scheme[k].attributes = f.attributes \ ({Document} \cup Dynamodb)
                 /\ sum[k] \in {NoObject, scheme[k]}
            ELSE scheme[k] = f /\ sum[k] = first[k].sum

\* "A rerun is safe: a scheme that is right already is skipped": once a run has
\* exited with 0 no later run changes an object.
CleanIsFinal == [][(\E r \in Run : Clean(r)) => UNCHANGED store]_store
=============================================================================
