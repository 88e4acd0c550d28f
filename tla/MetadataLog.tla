---------------------------- MODULE MetadataLog ----------------------------
(***************************************************************************)
(* The two JSONL files of job metadata, download_submissions.jsonl and     *)
(* download_results.jsonl, line by line: appends that are cut short, a     *)
(* line glued to an unterminated one, loading, recovery, and the           *)
(* compaction that replaces one file after the other, with a crash         *)
(* possible between any two steps, the startup's included.                 *)
(*                                                                         *)
(* A job's lines are appended in the order of its life here; that handlers *)
(* and workers can disagree about the order is JobServer's subject.        *)
(***************************************************************************)
EXTENDS Naturals, Sequences, FiniteSets, SequencesExt

CONSTANTS
  Jobs,
  RetentionLimit,  \* config.job_retention_limit
  MetadataLimit,   \* config.metadata_retention_limit, 0 turns compaction off
  Torn,            \* a line that does not parse
  NoJob,           \* no record in the map
  MaxWrites,       \* bound on records written while the server runs
  MaxStarts        \* bound on starts of the process

ASSUME MetadataAssumption ==
  /\ IsFiniteSet(Jobs) /\ RetentionLimit \in Nat /\ MetadataLimit \in Nat
  /\ MaxWrites \in Nat /\ MaxStarts \in Nat

VARIABLES
  files,    \* the two files: lines, and how the last one ends
  pc,       \* where the process is
  map,      \* the job map
  todo,     \* recovered records still to be appended
  kept,     \* records the compaction under way keeps
  now,      \* clock, counts the records written
  starts,   \* starts of the process so far
  written,    \* history: the record on each job's last line that got there complete
  scarred   \* history: an append was cut short

vars == <<files, pc, map, todo, kept, now, starts, written, scarred>>

Final == {"succeeded", "failed", "deleted"}
Record == [job : Jobs, status : Final \cup {"queued"}, at : Nat]
ASSUME NoneAssumption == Torn \notin Record /\ NoJob \notin Record /\ Torn # NoJob
Rec(j, s, t) == [job |-> j, status |-> s, at |-> t]
Files == {"submissions", "results"}

\* append_jsonl: one write of the line and its newline.  It may fail before
\* the first byte, in the middle, or with only the newline missing; it appends
\* to whatever is there, so an unterminated line is spoiled by the next one.
Outcome == {"none", "part", "bare", "whole"}
Append1(file, rec, how) ==
  LET glued == file.end # "clean"
      before == IF glued THEN Front(file.lines) ELSE file.lines
  IN  IF how = "none" THEN file
      ELSE [lines |-> Append(before, IF glued \/ how = "part" THEN Torn ELSE rec),
            end |-> IF how = "whole" THEN "clean" ELSE "open"]

\* load_job_records: lines in order, later ones win; one bad line is an error.
Readable(fs) == \A f \in Files : \A i \in DOMAIN fs[f].lines : fs[f].lines[i] # Torn
LinesOf(lines, j) == {i \in DOMAIN lines : lines[i] # Torn /\ lines[i].job = j}
LastOf(lines, j) == IF LinesOf(lines, j) = {} THEN NoJob ELSE lines[Max(LinesOf(lines, j))]
\* The submissions are loaded first.
Found(fs, j) == LET result == LastOf(fs["results"].lines, j)
                IN  IF result # NoJob THEN result ELSE LastOf(fs["submissions"].lines, j)
Load(fs) == [j \in Jobs |-> Found(fs, j)]

In(m) == {j \in Jobs : m[j] # NoJob}
Newer(m, j) == {k \in In(m) : m[k].at > m[j].at}
\* Mutant: the sorted records are cut without turning them round.
Oldest(m, limit) ==
  {s \in SUBSET In(m) :
     /\ Cardinality(s) = IF Cardinality(In(m)) < limit THEN Cardinality(In(m)) ELSE limit
     /\ \A j \in s, k \in In(m) : m[k].at < m[j].at => k \in s}
\* recent_records: the limit newest by updated_at, ties in any order.
Recent(m, limit) ==
  {s \in SUBSET In(m) :
     /\ Cardinality(s) = IF Cardinality(In(m)) < limit THEN Cardinality(In(m)) ELSE limit
     /\ \A j \in s : Newer(m, j) \subseteq s}
Only(m, s) == [j \in Jobs |-> IF j \in s THEN m[j] ELSE NoJob]
Retain(m) == {Only(m, s) : s \in Recent(m, RetentionLimit)}

------------------------------------------------------------------------------
Init ==
  /\ files = [f \in Files |-> [lines |-> <<>>, end |-> "clean"]]
  /\ pc = "down" /\ map = [j \in Jobs |-> NoJob] /\ todo = {} /\ kept = {}
  /\ now = 0 /\ starts = 0 /\ written = [j \in Jobs |-> NoJob] /\ scarred = FALSE

\* Append the record to the file; only "whole" is Ok for the caller.
AppendTo(f, rec, how) ==
  /\ files' = [files EXCEPT ![f] = Append1(@, rec, how)]
  /\ written' = IF how \in {"bare", "whole"} THEN [written EXCEPT ![rec.job] = rec] ELSE written
  /\ scarred' = (scarred \/ how \in {"part", "bare"})

(* load_jobs *)
Pending == {j \in In(Load(files)) : Load(files)[j].status = "queued"}

\* Mutant: a status of its own for interrupted jobs.
InterruptedStatus == "interrupted"
\* The status of a job that was queued or running when the process ended.
RecoveredStatus == "failed"

\* Load both files and turn what was queued or running into failed.
LoadJobs ==
  /\ pc = "down" /\ starts < MaxStarts /\ starts' = starts + 1
  /\ IF Readable(files)
       THEN /\ map' = [j \in Jobs |-> IF j \in Pending THEN Rec(j, RecoveredStatus, now)
                                     ELSE Load(files)[j]]
            /\ todo' = Pending /\ pc' = "recover"
       ELSE pc' = "refused" /\ UNCHANGED <<map, todo>>
  /\ UNCHANGED <<files, kept, now, written, scarred>>

\* One recovered record is appended; an error ends the startup.
AppendRecovered ==
  /\ pc = "recover"
  /\ \E j \in todo, how \in Outcome :
       /\ AppendTo("results", map[j], how)
       /\ todo' = todo \ {j}
       /\ pc' = IF how = "whole" THEN pc ELSE "down"
  /\ UNCHANGED <<map, kept, now, starts>>

Compact ==
  /\ pc = "recover" /\ todo = {}
  /\ IF MetadataLimit = 0
       THEN pc' = "retain" /\ UNCHANGED kept
       ELSE kept' \in Recent(map, MetadataLimit) /\ pc' = "submissions"
  /\ UNCHANGED <<files, map, todo, now, starts, written, scarred>>

\* The order of recent_records: oldest first, ties in any order.
Sorted(s) ==
  {list \in [1 .. Cardinality(s) -> {map[j] : j \in s}] :
     /\ ToSet(list) = {map[j] : j \in s}
     /\ \A i, k \in DOMAIN list : i < k => list[i].at <= list[k].at}
Replace(f, s) ==
  \E list \in Sorted(s) : files' = [files EXCEPT ![f] = [lines |-> list, end |-> "clean"]]

\* Mutant: results are replaced first.
FileOrderSwapped == <<"results", "submissions">>
\* The order in which compact_metadata replaces the files.
FileOrder == <<"submissions", "results">>
KeptIn(f) == {j \in kept : (map[j].status = "queued") <=> (f = "submissions")}

\* write_jsonl_records of one file: a temporary file takes its place.  The
\* temporary file may fail to be written: then the startup ends.
ReplaceFirst ==
  /\ pc = "submissions"
  /\ \/ Replace(FileOrder[1], KeptIn(FileOrder[1])) /\ pc' = "results"
     \/ pc' = "down" /\ UNCHANGED files
  /\ UNCHANGED <<map, todo, kept, now, starts, written, scarred>>

ReplaceSecond ==
  /\ pc = "results"
  /\ \/ Replace(FileOrder[2], KeptIn(FileOrder[2])) /\ pc' = "retain"
     \/ pc' = "down" /\ UNCHANGED files
  /\ UNCHANGED <<map, todo, kept, now, starts, written, scarred>>

RetainRecentJobs ==
  /\ pc = "retain" /\ map' \in Retain(map) /\ pc' = "up"
  /\ UNCHANGED <<files, todo, kept, now, starts, written, scarred>>

------------------------------------------------------------------------------
(* The running server *)
Running == pc = "up" /\ now < MaxWrites /\ now' = now + 1

\* enqueue_record: the record is inserted and its line appended.  Uuids are new.
Enqueue(j) ==
  /\ Running /\ written[j] = NoJob /\ map[j] = NoJob
  /\ map' = [map EXCEPT ![j] = Rec(j, "queued", now)]
  /\ \E how \in Outcome : AppendTo("submissions", map'[j], how)
  /\ UNCHANGED <<pc, todo, kept, starts>>

\* finish_job or cancel_job_record (which ends a job without a result, like a
\* failure): the record and its line.  Only finish_job evicts records afterwards.
Settle(j) ==
  /\ Running /\ map[j] # NoJob /\ map[j].status = "queued"
  /\ \E s \in {"succeeded", "failed"}, how \in Outcome :
       /\ AppendTo("results", Rec(j, s, now), how)
       /\ LET settled == [map EXCEPT ![j] = Rec(j, s, now)]
          IN  map' \in Retain(settled) \cup (IF s = "failed" THEN {settled} ELSE {})
  /\ UNCHANGED <<pc, todo, kept, starts>>

\* rollback_failed_enqueue: the queue is full, the failure alone is recorded.
Rollback(j) ==
  /\ Running /\ map[j] # NoJob /\ map[j].status = "queued"
  /\ map' = [map EXCEPT ![j] = NoJob]
  /\ \E how \in Outcome : AppendTo("results", Rec(j, "failed", now), how)
  /\ UNCHANGED <<pc, todo, kept, starts>>

\* delete_job_record or the pruning: the tombstone.
Delete(j) ==
  /\ Running /\ map[j] # NoJob /\ map[j].status \in Final \ {"deleted"}
  /\ map' = [map EXCEPT ![j] = Rec(j, "deleted", now)]
  /\ \E how \in Outcome : AppendTo("results", map'[j], how)
  /\ UNCHANGED <<pc, todo, kept, starts>>

\* The process dies, during the startup as well.
Crash ==
  /\ pc \notin {"down", "refused"} /\ pc' = "down"
  /\ map' = [j \in Jobs |-> NoJob] /\ todo' = {} /\ kept' = {}
  /\ UNCHANGED <<files, now, starts, written, scarred>>

Startup == LoadJobs \/ AppendRecovered \/ Compact \/ ReplaceFirst \/ ReplaceSecond
           \/ RetainRecentJobs
Next ==
  \/ Startup \/ Crash
  \/ \E j \in Jobs : Enqueue(j) \/ Settle(j) \/ Rollback(j) \/ Delete(j)

Spec == Init /\ [][Next]_vars

------------------------------------------------------------------------------
(* Properties *)

File == [lines : Seq(Record \cup {Torn}), end : {"clean", "open"}]
\* Types of the variables.
TypeOK ==
  /\ files \in [Files -> File]
  /\ pc \in {"down", "refused", "recover", "submissions", "results", "retain", "up"}
  /\ map \in [Jobs -> Record \cup {NoJob}] /\ todo \subseteq Jobs /\ kept \subseteq Jobs
  /\ now \in 0 .. MaxWrites /\ starts \in 0 .. MaxStarts
  /\ written \in [Jobs -> Record \cup {NoJob}] /\ scarred \in BOOLEAN

\* Between any two steps, those of a recovery and of a compaction included, a
\* start would find each job as its last complete line has it, unless
\* MetadataLimit other records that are not older are there.  Only an append
\* that was cut short makes the files unreadable.
KeptSurvive ==
  /\ Readable(files) =>
       LET found == Load(files) IN
       \A j \in Jobs :
         written[j] = found[j] \/
         /\ MetadataLimit > 0 /\ found[j] = NoJob
         /\ Cardinality({k \in In(found) : found[k].at >= written[j].at}) >= MetadataLimit
  /\ scarred \/ Readable(files)

Durable == INSTANCE DurableJobs WITH
  durable <- [j \in Jobs |-> IF Found(files, j) = NoJob THEN "unknown"
                             ELSE Found(files, j).status],
  readable <- Readable(files)

\* The files implement the promise of DurableJobs.
ImplementsDurable == Durable!Spec
=============================================================================
