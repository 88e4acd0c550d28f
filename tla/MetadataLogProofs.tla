------------------------- MODULE MetadataLogProofs -------------------------
(***************************************************************************)
(* What the two metadata files promise across crashes, recoveries and      *)
(* compactions, proved for any jobs, any retention limits and any number   *)
(* of writes and starts; and that they implement DurableJobs.              *)
(*                                                                         *)
(* The heart of it is the startup: between a load and the end of the       *)
(* compaction the job map, and no more the files, says what is durable.    *)
(* Recovering relates the two, job by job: a job is still to be recovered, *)
(* or the map has its last written record, or it was forgotten before.     *)
(***************************************************************************)
EXTENDS MetadataLog, FiniteSetTheorems, WellFoundedInduction, TLAPS

Lines(f) == files[f].lines

\* Submissions hold queued records, results final ones, none from the future.
FilesHold ==
  \A f \in Files : \A i \in DOMAIN Lines(f) :
    Lines(f)[i] # Torn =>
      /\ Lines(f)[i].status = "queued" <=> f = "submissions"
      /\ Lines(f)[i].at <= now

\* A file with an open end has a last line, and an append to it was cut short.
OpenEnds == \A f \in Files : files[f].end = "open" => Lines(f) # <<>> /\ scarred

\* Records are about their jobs, and none is from the future.
RecordsKnown ==
  \A j \in Jobs :
    /\ map[j] # NoJob => map[j].job = j /\ map[j].at <= now
    /\ written[j] # NoJob => written[j].job = j /\ written[j].at <= now

\* As many records as are kept are at least as new as the last one of the job.
Displaced(m, j) ==
  /\ MetadataLimit > 0 /\ m[j] = NoJob
  /\ Cardinality({k \in In(m) : m[k].at >= written[j].at}) >= MetadataLimit

\* The map is what was loaded, with the pending jobs turned into failed.
Recovering ==
  pc \in {"recover", "submissions", "results"} =>
    /\ \A j \in Jobs : map[j] # NoJob => map[j].status \in Final
    /\ \A i \in DOMAIN Lines("submissions") : Lines("submissions")[i] # Torn
    /\ \A j \in todo :
         /\ map[j] # NoJob /\ map[j].at = now
         /\ Readable(files) => /\ Found(files, j) # NoJob
                               /\ Found(files, j).status = "queued"
    /\ \A j \in Jobs \ todo :
         /\ written[j] = map[j] \/ Displaced(map, j)
         /\ Readable(files) => Found(files, j) = map[j]

\* The compaction keeps the newest, when everything has been recovered.
Compacting ==
  /\ pc \in {"submissions", "results"} =>
       todo = {} /\ MetadataLimit > 0 /\ kept \in Recent(map, MetadataLimit)
  /\ pc = "results" => Lines("submissions") = <<>>

\* A job that waits in the map has not been settled in the files.
Serving ==
  pc \in {"retain", "up"} =>
    \A j \in Jobs :
      map[j] # NoJob /\ map[j].status = "queued" =>
        /\ pc = "up"
        /\ Readable(files) /\ Found(files, j) # NoJob => Found(files, j).status = "queued"

\* The inductive invariant.
LogInv ==
  /\ TypeOK /\ FilesHold /\ OpenEnds /\ RecordsKnown
  /\ Recovering /\ Compacting /\ Serving /\ KeptSurvive

------------------------------------------------------------------------------
(* The last line of a job *)

\* Lines are numbered, so those of a job have a last one.
LEMMA MaxOfLines ==
  ASSUME NEW n \in Nat, NEW S \in SUBSET (1 .. n), S # {}
  PROVE  Max(S) \in S /\ \A k \in S : k <= Max(S)
  <1> DEFINE T == {n - k : k \in S}
  <1>1. T \in SUBSET Nat /\ T # {}
    <2>1. \A k \in S : n - k \in Nat
      OBVIOUS
    <2> QED BY <2>1
  <1>2. PICK x \in T : \A y \in T : ~(<<y, x>> \in OpToRel(<, Nat))
    BY <1>1, NatLessThanWellFounded, WFMin
  <1>3. \A y \in T : x <= y
    <2> TAKE y \in T
    <2>1. ~(y < x)
      BY <1>1, <1>2 DEF OpToRel
    <2> QED BY <1>1, <2>1
  <1>4. PICK m \in S : x = n - m
    BY <1>2
  <1>5. \A k \in S : m >= k
    BY <1>3, <1>4
  <1> HIDE DEF T
  <1> QED BY <1>5 DEF Max

\* A number that is not smaller than the others is the largest.
LEMMA MaxIs ==
  ASSUME NEW S \in SUBSET Nat, NEW m \in S, \A k \in S : k <= m
  PROVE  Max(S) = m
  <1>1. \A x \in S : (\A y \in S : x >= y) => x = m
    OBVIOUS
  <1> QED BY <1>1 DEF Max

\* What is found for a job is a line of its own, after all others of its own.
LEMMA LastIsLine ==
  ASSUME NEW lines \in Seq(Record \cup {Torn}), NEW j
  PROVE  \/ LinesOf(lines, j) = {} /\ LastOf(lines, j) = NoJob
         \/ /\ LastOf(lines, j) # NoJob /\ LastOf(lines, j) \in Record
            /\ LastOf(lines, j).job = j
            /\ \E i \in LinesOf(lines, j) :
                 LastOf(lines, j) = lines[i] /\ \A k \in LinesOf(lines, j) : k <= i
  <1>1. CASE LinesOf(lines, j) = {}
    BY <1>1 DEF LastOf
  <1>2. CASE LinesOf(lines, j) # {}
    <2> DEFINE m == Max(LinesOf(lines, j))
    <2>1. Len(lines) \in Nat /\ LinesOf(lines, j) \in SUBSET (1 .. Len(lines))
      BY DEF LinesOf
    <2>2. m \in LinesOf(lines, j) /\ \A k \in LinesOf(lines, j) : k <= m
      BY <1>2, <2>1, MaxOfLines
    <2>3. LastOf(lines, j) = lines[m]
      BY <1>2 DEF LastOf
    <2> HIDE DEF m
    <2>4. lines[m] \in Record /\ lines[m].job = j
      BY <2>1, <2>2 DEF LinesOf
    <2> QED BY <2>2, <2>3, <2>4, NoneAssumption
  <1> QED BY <1>1, <1>2

\* A line more covers the earlier lines of its job.
LEMMA LastOfLonger ==
  ASSUME NEW lines \in Seq(Record \cup {Torn}), NEW rec \in Record, NEW j,
         NEW longer \in Seq(Record \cup {Torn}), Len(longer) = Len(lines) + 1,
         longer[Len(lines) + 1] = rec, \A i \in 1 .. Len(lines) : longer[i] = lines[i]
  PROVE  LastOf(longer, j) = IF j = rec.job THEN rec ELSE LastOf(lines, j)
  <1> DEFINE n == Len(lines) + 1
  <1>1. /\ Len(lines) \in Nat /\ DOMAIN longer = 1 .. n /\ DOMAIN lines = 1 .. Len(lines)
        /\ longer[n] = rec /\ \A i \in 1 .. Len(lines) : longer[i] = lines[i]
    OBVIOUS
  <1>2. rec # Torn
    BY NoneAssumption
  <1>3. CASE j = rec.job
    <2>1. n \in LinesOf(longer, j) /\ \A k \in LinesOf(longer, j) : k <= n
      BY <1>1, <1>2, <1>3 DEF LinesOf
    <2>2. LinesOf(longer, j) \in SUBSET Nat
      BY <1>1 DEF LinesOf
    <2>3. Max(LinesOf(longer, j)) = n
      BY <2>1, <2>2, MaxIs
    <2> QED BY <1>1, <1>3, <2>1, <2>3 DEF LastOf
  <1>4. CASE j # rec.job
    <2>1. LinesOf(longer, j) = LinesOf(lines, j)
      BY <1>1, <1>4 DEF LinesOf
    <2>2. CASE LinesOf(lines, j) = {}
      BY <1>4, <2>1, <2>2 DEF LastOf
    <2>3. CASE LinesOf(lines, j) # {}
      <3>1. LinesOf(lines, j) \in SUBSET (1 .. Len(lines))
        BY <1>1 DEF LinesOf
      <3>2. Max(LinesOf(lines, j)) \in 1 .. Len(lines)
        BY <1>1, <2>3, <3>1, MaxOfLines
      <3> QED BY <1>1, <1>4, <2>1, <2>3, <3>2 DEF LastOf
    <2> QED BY <2>2, <2>3
  <1> QED BY <1>3, <1>4

\* A compacted file has one line for each job it keeps.
LEMMA LastOfSorted ==
  ASSUME map \in [Jobs -> Record \cup {NoJob}], NEW s \in SUBSET In(map), RecordsKnown,
         NEW list \in Sorted(s), NEW j
  PROVE  /\ list \in Seq(Record \cup {Torn}) /\ \A i \in DOMAIN list : list[i] \in Record
         /\ LastOf(list, j) = IF j \in s THEN map[j] ELSE NoJob
  <1>1. /\ list \in [1 .. Cardinality(s) -> {map[k] : k \in s}]
        /\ {list[i] : i \in DOMAIN list} = {map[k] : k \in s}
    BY DEF Sorted, ToSet
  <1>2. /\ s \subseteq Jobs /\ IsFiniteSet(s)
        /\ \A k \in s : map[k] \in Record /\ map[k] # Torn /\ map[k].job = k
    <2>1. s \subseteq Jobs
      BY DEF In
    <2> QED BY <2>1, FS_Subset, MetadataAssumption, NoneAssumption DEF In, RecordsKnown
  <1>3. Cardinality(s) \in Nat
    BY <1>2, FS_CardinalityType
  <1>4. list \in Seq(Record \cup {Torn}) /\ \A i \in DOMAIN list : list[i] \in Record
    BY <1>1, <1>2, <1>3
  <1>5. \A i \in LinesOf(list, j) : j \in s /\ list[i] = map[j]
    BY <1>1, <1>2 DEF LinesOf
  <1>6. j \in s => LinesOf(list, j) # {}
    <2> SUFFICES ASSUME j \in s
                 PROVE  LinesOf(list, j) # {}
      OBVIOUS
    <2>1. PICK i \in DOMAIN list : list[i] = map[j]
      BY <1>1
    <2>2. i \in LinesOf(list, j)
      BY <1>2, <2>1 DEF LinesOf
    <2> QED BY <2>2
  <1>7. \/ LinesOf(list, j) = {} /\ LastOf(list, j) = NoJob
        \/ \E i \in LinesOf(list, j) : LastOf(list, j) = list[i]
    BY <1>4, LastIsLine
  <1> QED BY <1>4, <1>5, <1>6, <1>7

------------------------------------------------------------------------------
(* Appends *)

\* The files cannot be read any more.
Damaged == ~Readable(files') /\ scarred'

\* The record is the last of its job, and nothing else changes.
Grows(rec) ==
  /\ Readable(files') <=> Readable(files)
  /\ Readable(files) =>
       \A j \in Jobs : Found(files', j) = IF j = rec.job THEN rec ELSE Found(files, j)

\* What an append makes of a file: nothing, a torn line, or one line more.
LEMMA Append1Cases ==
  ASSUME NEW file \in File, file.end = "open" => file.lines # <<>>,
         NEW rec \in Record, NEW how \in Outcome
  PROVE  \/ how = "none" /\ Append1(file, rec, how) = file
         \/ /\ how # "none" /\ (file.end = "open" \/ how = "part")
            /\ \E b \in Seq(Record \cup {Torn}), end \in {"clean", "open"} :
                 /\ Append1(file, rec, how) = [lines |-> Append(b, Torn), end |-> end]
                 /\ \A i \in DOMAIN b : i \in DOMAIN file.lines /\ b[i] = file.lines[i]
                 /\ end = "open" => how \in {"part", "bare"}
         \/ /\ how \in {"bare", "whole"} /\ file.end = "clean"
            /\ \E end \in {"clean", "open"} :
                 /\ Append1(file, rec, how) = [lines |-> Append(file.lines, rec), end |-> end]
                 /\ end = "open" => how = "bare"
  <1>1. file.lines \in Seq(Record \cup {Torn}) /\ file.end \in {"clean", "open"}
    BY DEF File
  <1> DEFINE end == IF how = "whole" THEN "clean" ELSE "open"
             b == IF file.end # "clean" THEN Front(file.lines) ELSE file.lines
  <1>2. /\ b \in Seq(Record \cup {Torn})
        /\ \A i \in DOMAIN b : i \in DOMAIN file.lines /\ b[i] = file.lines[i]
    <2>1. CASE file.end # "clean"
      <3>1. Len(file.lines) - 1 \in 0 .. Len(file.lines)
        BY <1>1, <2>1
      <3>2. /\ Front(file.lines) \in Seq(Record \cup {Torn})
            /\ Len(Front(file.lines)) = Len(file.lines) - 1
            /\ \A i \in 1 .. Len(file.lines) - 1 : Front(file.lines)[i] = file.lines[i]
        BY <1>1, <3>1 DEF Front
      <3> QED BY <1>1, <2>1, <3>1, <3>2
    <2>2. CASE file.end = "clean"
      BY <1>1, <2>2
    <2> QED BY <2>1, <2>2
  <1>3. CASE how = "none"
    BY <1>3 DEF Append1
  <1>4. CASE how # "none" /\ (file.end = "open" \/ how = "part")
    <2>1. Append1(file, rec, how) = [lines |-> Append(b, Torn), end |-> end]
      BY <1>1, <1>4 DEF Append1
    <2>2. end \in {"clean", "open"} /\ (end = "open" => how \in {"part", "bare"})
      BY <1>4 DEF Outcome
    <2> HIDE DEF b, end
    <2> QED BY <1>2, <1>4, <2>1, <2>2
  <1>5. CASE how \in {"bare", "whole"} /\ file.end = "clean"
    <2>1. Append1(file, rec, how) = [lines |-> Append(file.lines, rec), end |-> end]
      BY <1>5 DEF Append1
    <2>2. end \in {"clean", "open"} /\ (end = "open" => how = "bare")
      BY <1>5
    <2> HIDE DEF end
    <2> QED BY <1>5, <2>1, <2>2
  <1> QED BY <1>1, <1>3, <1>4, <1>5 DEF Outcome

\* The files stay files, with the records they are for.
LEMMA AppendKeepsFiles ==
  ASSUME TypeOK, FilesHold, OpenEnds, NEW f \in Files, NEW rec \in Record,
         NEW how \in Outcome, AppendTo(f, rec, how), now' \in Nat, now <= now',
         rec.status = "queued" <=> f = "submissions", rec.at <= now'
  PROVE  /\ files' \in [Files -> File] /\ FilesHold' /\ OpenEnds'
         /\ scarred' \in BOOLEAN /\ (scarred => scarred')
         /\ \A g \in Files \ {f} : Lines(g)' = Lines(g)
  <1>1. files \in [Files -> File] /\ scarred \in BOOLEAN /\ now \in Nat
    BY DEF TypeOK
  <1>2. /\ files' = [files EXCEPT ![f] = Append1(files[f], rec, how)]
        /\ scarred' = (scarred \/ how \in {"part", "bare"})
    BY DEF AppendTo
  <1>3. \A g \in Files \ {f} : files'[g] = files[g]
    BY <1>1, <1>2
  <1>4. files'[f] = Append1(files[f], rec, how)
    BY <1>1, <1>2
  <1>5. files[f] \in File /\ (files[f].end = "open" => files[f].lines # <<>>)
    BY <1>1 DEF OpenEnds, Lines
  <1> DEFINE Follows(file) ==
               /\ file \in File
               /\ file.end = "open" => file.lines # <<>> /\ scarred'
               /\ \A i \in DOMAIN file.lines :
                    \/ file.lines[i] \in {Torn, rec}
                    \/ /\ i \in DOMAIN files[f].lines
                       /\ file.lines[i] = files[f].lines[i]
  <1>6. Follows(files'[f])
    <2>1. CASE files'[f] = files[f]
      BY <1>2, <1>5, <2>1 DEF OpenEnds, Lines
    <2>2. ASSUME NEW b \in Seq(Record \cup {Torn}), NEW end \in {"clean", "open"},
                 NEW r \in {rec, Torn},
                 files'[f] = [lines |-> Append(b, r), end |-> end],
                 \A i \in DOMAIN b : i \in DOMAIN files[f].lines /\ b[i] = files[f].lines[i],
                 end = "open" => how \in {"part", "bare"}
          PROVE  Follows(files'[f])
      <3>1. /\ Append(b, r) \in Seq(Record \cup {Torn}) /\ Append(b, r) # <<>>
            /\ DOMAIN Append(b, r) = 1 .. Len(b) + 1 /\ Append(b, r)[Len(b) + 1] = r
            /\ \A i \in 1 .. Len(b) : Append(b, r)[i] = b[i]
            /\ DOMAIN b = 1 .. Len(b) /\ Len(b) \in Nat
        OBVIOUS
      <3>2. files'[f].lines = Append(b, r) /\ files'[f].end = end
        BY <2>2
      <3>3. files'[f] \in File
        BY <2>2, <3>1 DEF File
      <3>4. \A i \in DOMAIN Append(b, r) : i = Len(b) + 1 \/ i \in 1 .. Len(b)
        BY <3>1
      <3> HIDE <2>2
      <3> QED BY <1>2, <2>2, <3>1, <3>2, <3>3, <3>4
    <2>3. files[f].lines \in Seq(Record \cup {Torn})
      BY <1>5 DEF File
    <2> HIDE DEF Follows
    <2>4. CASE \E b \in Seq(Record \cup {Torn}), end \in {"clean", "open"} :
                 /\ files'[f] = [lines |-> Append(b, Torn), end |-> end]
                 /\ \A i \in DOMAIN b : i \in DOMAIN files[f].lines
                                         /\ b[i] = files[f].lines[i]
                 /\ end = "open" => how \in {"part", "bare"}
      BY <2>2, <2>4
    <2>5. CASE \E end \in {"clean", "open"} :
                 /\ files'[f] = [lines |-> Append(files[f].lines, rec), end |-> end]
                 /\ end = "open" => how = "bare"
      BY <2>2, <2>3, <2>5
    <2> DEFINE to == Append1(files[f], rec, how)
    <2>6. \/ to = files[f]
          \/ \E b \in Seq(Record \cup {Torn}), end \in {"clean", "open"} :
               /\ to = [lines |-> Append(b, Torn), end |-> end]
               /\ \A i \in DOMAIN b : i \in DOMAIN files[f].lines
                                       /\ b[i] = files[f].lines[i]
               /\ end = "open" => how \in {"part", "bare"}
          \/ \E end \in {"clean", "open"} :
               /\ to = [lines |-> Append(files[f].lines, rec), end |-> end]
               /\ end = "open" => how = "bare"
      BY <1>5, Append1Cases
    <2> HIDE DEF to
    <2>7. files'[f] = to
      BY <1>4 DEF to
    <2> QED BY <2>1, <2>4, <2>5, <2>6, <2>7
  <1>7. files' \in [Files -> File]
    BY <1>1, <1>2, <1>3, <1>6
  <1>8. FilesHold'
    <2> SUFFICES ASSUME NEW g \in Files, NEW i \in DOMAIN Lines(g)', Lines(g)'[i] # Torn
                 PROVE  /\ Lines(g)'[i].status = "queued" <=> g = "submissions"
                        /\ Lines(g)'[i].at <= now'
      BY DEF FilesHold
    <2>1. CASE g = f /\ Lines(g)'[i] = rec
      BY <2>1
    <2>2. CASE i \in DOMAIN Lines(g) /\ Lines(g)'[i] = Lines(g)[i]
      <3>1. /\ Lines(g)[i].status = "queued" <=> g = "submissions"
            /\ Lines(g)[i].at <= now
        BY <2>2 DEF FilesHold
      <3>2. Lines(g)[i] \in Record
        BY <1>1, <2>2 DEF Lines, File
      <3>3. Lines(g)[i].at \in Nat
        BY <3>2 DEF Record
      <3> QED BY <1>1, <2>2, <3>1, <3>3
    <2> QED BY <1>3, <1>6, <2>1, <2>2 DEF Lines
  <1>9. OpenEnds'
    BY <1>2, <1>3, <1>6 DEF OpenEnds, Lines
  <1> QED BY <1>1, <1>2, <1>3, <1>7, <1>8, <1>9 DEF Lines

\* An append changes nothing, damages the file, or adds the record.
LEMMA AppendEffect ==
  ASSUME TypeOK, OpenEnds, NEW f \in Files, NEW rec \in Record, NEW how \in Outcome,
         AppendTo(f, rec, how),
         f = "submissions" /\ Readable(files) => Found(files, rec.job) = NoJob
  PROVE  \/ how = "none" /\ UNCHANGED <<files, written, scarred>>
         \/ how # "none" /\ Damaged
         \/ how \in {"bare", "whole"} /\ Grows(rec)
  <1>1. files \in [Files -> File] /\ scarred \in BOOLEAN
    BY DEF TypeOK
  <1>2. /\ files' = [files EXCEPT ![f] = Append1(files[f], rec, how)]
        /\ scarred' = (scarred \/ how \in {"part", "bare"})
    BY DEF AppendTo
  <1>3. \A g \in Files \ {f} : files'[g] = files[g]
    BY <1>1, <1>2
  <1>4. files'[f] = Append1(files[f], rec, how)
    BY <1>1, <1>2
  <1>5. files[f] \in File /\ (files[f].end = "open" => files[f].lines # <<>>)
        /\ files[f].lines \in Seq(Record \cup {Torn})
    BY <1>1 DEF OpenEnds, Lines, File
  <1>6. CASE how = "none" /\ files'[f] = files[f]
    <2>1. files' = files
      BY <1>1, <1>2, <1>4, <1>6
    <2>2. written' = written
      BY <1>6 DEF AppendTo
    <2>3. scarred' = scarred
      BY <1>1, <1>2, <1>6
    <2> QED BY <1>6, <2>1, <2>2, <2>3
  <1>7. ASSUME how # "none", files[f].end = "open" \/ how = "part",
               NEW b \in Seq(Record \cup {Torn}), NEW end,
               files'[f] = [lines |-> Append(b, Torn), end |-> end]
        PROVE  Damaged
    <2>1. files'[f].lines = Append(b, Torn) /\ Len(b) + 1 \in DOMAIN Append(b, Torn)
          /\ Append(b, Torn)[Len(b) + 1] = Torn
      BY <1>7
    <2>2. scarred'
      BY <1>2, <1>7 DEF OpenEnds, Lines
    <2> QED BY <2>1, <2>2 DEF Damaged, Readable
  <1>8. ASSUME NEW end, files'[f] = [lines |-> Append(files[f].lines, rec), end |-> end]
        PROVE  Grows(rec)
    <2> DEFINE longer == Append(files[f].lines, rec)
    <2>1. files'[f].lines = longer
      BY <1>8
    <2>2. /\ DOMAIN files[f].lines = 1 .. Len(files[f].lines) /\ Len(files[f].lines) \in Nat
          /\ DOMAIN longer = 1 .. Len(files[f].lines) + 1
          /\ longer[Len(files[f].lines) + 1] = rec
          /\ \A i \in DOMAIN files[f].lines : longer[i] = files[f].lines[i]
      BY <1>5
    <2>3. \A j \in Jobs : LastOf(files'[f].lines, j)
                            = IF j = rec.job THEN rec ELSE LastOf(files[f].lines, j)
      <3>1. /\ longer \in Seq(Record \cup {Torn})
            /\ Len(longer) = Len(files[f].lines) + 1
        BY <1>5
      <3> HIDE DEF longer
      <3>2. \A i \in 1 .. Len(files[f].lines) : longer[i] = files[f].lines[i]
        BY <2>2
      <3> QED BY <1>5, <2>1, <2>2, <3>1, <3>2, LastOfLonger
    <2>4. Readable(files') <=> Readable(files)
      <3>1. (\A i \in DOMAIN longer : longer[i] # Torn)
              <=> (\A i \in DOMAIN files[f].lines : files[f].lines[i] # Torn)
        <4> HIDE DEF longer
        <4>1. rec # Torn
          BY NoneAssumption
        <4>2. \A i \in DOMAIN longer :
                i \in DOMAIN files[f].lines \/ i = Len(files[f].lines) + 1
          BY <2>2
        <4>3. DOMAIN files[f].lines \subseteq DOMAIN longer
          BY <2>2
        <4> QED BY <2>2, <4>1, <4>2, <4>3
      <3> HIDE DEF longer
      <3> QED BY <1>3, <2>1, <3>1 DEF Readable
    <2> HIDE DEF longer
    <2>5. ASSUME Readable(files), NEW j \in Jobs
          PROVE  Found(files', j) = IF j = rec.job THEN rec ELSE Found(files, j)
      <3>1. CASE f = "results"
        <4>1. files'["submissions"] = files["submissions"]
          BY <1>3, <3>1 DEF Files
        <4>2. rec # NoJob
          BY NoneAssumption
        <4> QED BY <2>3, <3>1, <4>1, <4>2 DEF Found
      <3>2. CASE f = "submissions"
        <4>1. files'["results"] = files["results"]
          BY <1>3, <3>2 DEF Files
        <4>2. j = rec.job => LastOf(files["results"].lines, j) = NoJob
          BY <2>5, <3>2 DEF Found
        <4> QED BY <2>3, <3>2, <4>1, <4>2 DEF Found
      <3> QED BY <3>1, <3>2 DEF Files
    <2> QED BY <2>4, <2>5 DEF Grows
  <1> QED BY <1>4, <1>5, <1>6, <1>7, <1>8, Append1Cases

------------------------------------------------------------------------------
(* What is found, and what displaces it *)

\* What is found for a job is a line of one of the files, about that job.
LEMMA FoundIsLine ==
  ASSUME TypeOK, FilesHold, NEW j \in Jobs, Found(files, j) # NoJob
  PROVE  /\ Found(files, j) \in Record /\ Found(files, j).job = j
         /\ Found(files, j).at <= now
         /\ Found(files, j).status = "queued" => LastOf(files["results"].lines, j) = NoJob
         /\ Found(files, j).status # "queued"
              => Found(files, j) = LastOf(files["results"].lines, j)
  <1>1. /\ files["results"].lines \in Seq(Record \cup {Torn})
        /\ files["submissions"].lines \in Seq(Record \cup {Torn})
    BY DEF TypeOK, Files, File
  <1>2. ASSUME NEW f \in Files, LastOf(Lines(f), j) # NoJob
        PROVE  /\ LastOf(Lines(f), j) \in Record /\ LastOf(Lines(f), j).job = j
               /\ LastOf(Lines(f), j).at <= now
               /\ LastOf(Lines(f), j).status = "queued" <=> f = "submissions"
    <2>1. Lines(f) \in Seq(Record \cup {Torn})
      BY <1>1 DEF Lines, Files
    <2>2. PICK i \in LinesOf(Lines(f), j) : LastOf(Lines(f), j) = Lines(f)[i]
      BY <1>2, <2>1, LastIsLine
    <2>3. i \in DOMAIN Lines(f) /\ Lines(f)[i] # Torn /\ Lines(f)[i].job = j
      BY <2>2 DEF LinesOf
    <2>4. LastOf(Lines(f), j) \in Record
      BY <1>2, <2>1, LastIsLine
    <2> QED BY <2>2, <2>3, <2>4 DEF FilesHold
  <1>3. CASE LastOf(files["results"].lines, j) # NoJob
    <2>1. Found(files, j) = LastOf(files["results"].lines, j)
      BY <1>3 DEF Found
    <2> QED BY <1>2, <1>3, <2>1 DEF Lines, Files
  <1>4. CASE LastOf(files["results"].lines, j) = NoJob
    <2>1. Found(files, j) = LastOf(files["submissions"].lines, j)
      BY <1>4 DEF Found
    <2> QED BY <1>2, <1>4, <2>1 DEF Lines, Files
  <1> QED BY <1>3, <1>4

\* The map a load gives.
LEMMA LoadTyped ==
  ASSUME TypeOK, FilesHold
  PROVE  Load(files) \in [Jobs -> Record \cup {NoJob}]
  BY FoundIsLine DEF Load

\* Records that only become newer displace no less.
LEMMA DisplacedStays ==
  ASSUME NEW m \in [Jobs -> Record \cup {NoJob}], NEW n \in [Jobs -> Record \cup {NoJob}],
         NEW w \in Nat,
         \A k \in Jobs : m[k] # NoJob /\ m[k].at >= w => n[k] # NoJob /\ n[k].at >= w,
         Cardinality({k \in In(m) : m[k].at >= w}) >= MetadataLimit
  PROVE  Cardinality({k \in In(n) : n[k].at >= w}) >= MetadataLimit
  <1> DEFINE M == {k \in In(m) : m[k].at >= w}
             N == {k \in In(n) : n[k].at >= w}
  <1>1. M \subseteq N /\ N \subseteq Jobs
    BY DEF In
  <1>2. IsFiniteSet(N) /\ IsFiniteSet(M)
    BY <1>1, FS_Subset, MetadataAssumption
  <1>3. Cardinality(M) \in Nat /\ Cardinality(N) \in Nat /\ Cardinality(M) <= Cardinality(N)
    BY <1>1, <1>2, FS_Subset, FS_CardinalityType
  <1> HIDE DEF M, N
  <1>4. Cardinality(M) >= MetadataLimit
    BY DEF M
  <1>5. Cardinality(N) >= MetadataLimit
    BY <1>3, <1>4, MetadataAssumption
  <1> QED BY <1>5 DEF N

\* The newest records displace whatever was displaced before, and each other
\* record of the map.
LEMMA NewestDisplace ==
  ASSUME NEW m \in [Jobs -> Record \cup {NoJob}], NEW s \in Recent(m, MetadataLimit),
         NEW w \in Nat,
         \/ Cardinality({k \in In(m) : m[k].at >= w}) >= MetadataLimit
         \/ \E j \in In(m) \ s : m[j].at = w
  PROVE  Cardinality({k \in s : m[k].at >= w}) >= MetadataLimit
  <1> DEFINE all == In(m)
             newer == {k \in all : m[k].at >= w}
             held == {k \in s : m[k].at >= w}
  <1>1. /\ s \subseteq all /\ all \subseteq Jobs /\ newer \subseteq all
        /\ \A k \in all : m[k] \in Record /\ m[k].at \in Nat
        /\ \A k \in s, j \in all : m[j].at > m[k].at => j \in s
        /\ Cardinality(s) = IF Cardinality(all) < MetadataLimit THEN Cardinality(all)
                                                               ELSE MetadataLimit
    BY DEF Recent, Newer, In, Record
  <1>2. IsFiniteSet(all) /\ IsFiniteSet(s) /\ IsFiniteSet(newer) /\ IsFiniteSet(held)
    BY <1>1, FS_Subset, MetadataAssumption
  <1>3. /\ Cardinality(all) \in Nat /\ Cardinality(s) \in Nat /\ Cardinality(newer) \in Nat
        /\ Cardinality(held) \in Nat /\ MetadataLimit \in Nat
        /\ Cardinality(newer) <= Cardinality(all)
    BY <1>1, <1>2, FS_CardinalityType, FS_Subset, MetadataAssumption
  <1>4. CASE \E j \in all \ s : m[j].at = w
    <2>1. PICK j \in all \ s : m[j].at = w
      BY <1>4
    <2>2. Cardinality(s) # Cardinality(all)
      BY <1>1, <1>2, <2>1, FS_Subset
    <2>3. Cardinality(s) = MetadataLimit
      BY <1>1, <1>3, <2>2
    <2>4. \A k \in s : m[k].at >= w
      BY <1>1, <2>1
    <2>5. held = s
      BY <2>4
    <2> HIDE DEF held
    <2>6. Cardinality(held) >= MetadataLimit
      BY <1>3, <2>3, <2>5
    <2> QED BY <2>6 DEF held
  <1>5. CASE Cardinality(newer) >= MetadataLimit
    <2>1. Cardinality(s) = MetadataLimit
      BY <1>1, <1>3, <1>5
    <2>2. CASE \A k \in s : m[k].at >= w
      <3>1. held = s
        BY <2>2
      <3> HIDE DEF held
      <3>2. Cardinality(held) >= MetadataLimit
        BY <1>3, <2>1, <3>1
      <3> QED BY <3>2 DEF held
    <2>3. CASE \E k \in s : ~(m[k].at >= w)
      <3>1. \A j \in newer : j \in s
        BY <1>1, <2>3
      <3>2. newer \subseteq held
        BY <3>1
      <3>3. Cardinality(newer) <= Cardinality(held)
        BY <1>2, <3>2, FS_Subset
      <3> HIDE DEF held, newer
      <3>4. Cardinality(held) >= MetadataLimit
        BY <1>3, <1>5, <3>3
      <3> QED BY <3>4 DEF held
    <2> QED BY <2>2, <2>3
  <1> QED BY <1>4, <1>5

\* KeptSurvive, with its parts named.
Survives(j) == written[j] = Found(files, j) \/ Displaced(Load(files), j)

LEMMA KeptNamed ==
  KeptSurvive <=> /\ Readable(files) => \A j \in Jobs : Survives(j)
                  /\ scarred \/ Readable(files)
  BY DEF KeptSurvive, Survives, Displaced, Load


LEMMA KeptPrimed ==
  ASSUME scarred' \/ Readable(files'),
         ASSUME Readable(files'), NEW j \in Jobs
         PROVE  \/ written'[j] = Found(files', j)
                \/ /\ MetadataLimit > 0 /\ Found(files', j) = NoJob
                   /\ Cardinality({k \in In(Load(files')) :
                                     Load(files')[k].at >= written'[j].at}) >= MetadataLimit
  PROVE  KeptSurvive'
  <1>1. \A j \in Jobs : Load(files')[j] = Found(files', j)
    BY DEF Load
  <1> QED BY <1>1 DEF KeptSurvive

\* What an append leaves true of the files, whatever becomes of it.
LEMMA AppendStep ==
  ASSUME TypeOK, FilesHold, OpenEnds, RecordsKnown, KeptSurvive,
         NEW f \in Files, NEW rec \in Record, NEW how \in Outcome,
         AppendTo(f, rec, how), now' \in Nat, now <= now', rec.at = now,
         rec.status = "queued" <=> f = "submissions",
         f = "submissions" /\ Readable(files) => Found(files, rec.job) = NoJob
  PROVE  /\ files' \in [Files -> File] /\ scarred' \in BOOLEAN
         /\ written' \in [Jobs -> Record \cup {NoJob}]
         /\ FilesHold' /\ OpenEnds' /\ KeptSurvive'
         /\ \A j \in Jobs : written'[j] # NoJob => /\ written'[j].job = j
                                                   /\ written'[j].at <= now'
  <1>1. now \in Nat /\ written \in [Jobs -> Record \cup {NoJob}] /\ scarred \in BOOLEAN
    BY DEF TypeOK
  <1>2. rec.job \in Jobs /\ rec.at \in Nat /\ rec # NoJob
    BY NoneAssumption DEF Record
  <1>3. \/ written' = written
        \/ how \in {"bare", "whole"} /\ written' = [written EXCEPT ![rec.job] = rec]
    BY DEF AppendTo
  <1>4. how \in {"bare", "whole"} => written' = [written EXCEPT ![rec.job] = rec]
    BY DEF AppendTo
  <1>5. /\ files' \in [Files -> File] /\ scarred' \in BOOLEAN
        /\ FilesHold' /\ OpenEnds' /\ (scarred => scarred')
    BY <1>1, <1>2, AppendKeepsFiles
  <1>6. /\ written' \in [Jobs -> Record \cup {NoJob}]
        /\ \A j \in Jobs : written'[j] # NoJob => /\ written'[j].job = j
                                                  /\ written'[j].at <= now'
    <2>1. \A j \in Jobs : written[j] # NoJob => written[j].job = j /\ written[j].at \in Nat
                                                /\ written[j].at <= now
      BY <1>1 DEF RecordsKnown, Record
    <2>2. CASE written' = written
      BY <1>1, <2>1, <2>2
    <2>3. CASE written' = [written EXCEPT ![rec.job] = rec]
      BY <1>1, <1>2, <2>1, <2>3
    <2> QED BY <1>3, <2>2, <2>3
  <1>7. KeptSurvive'
    <2>1. CASE UNCHANGED <<files, written, scarred>>
      BY <2>1 DEF KeptSurvive
    <2>2. CASE Damaged
      <3>1. scarred' /\ ~Readable(files')
        BY <2>2 DEF Damaged
      <3> QED BY <3>1, KeptPrimed
    <2>3. CASE how \in {"bare", "whole"} /\ Grows(rec)
      <3>1. scarred' \/ Readable(files')
        BY <1>5, <2>3 DEF Grows, KeptSurvive
      <3>2. ASSUME Readable(files'), NEW j \in Jobs
            PROVE  \/ written'[j] = Found(files', j)
                   \/ /\ MetadataLimit > 0 /\ Found(files', j) = NoJob
                      /\ Cardinality({k \in In(Load(files')) :
                                        Load(files')[k].at >= written'[j].at})
                           >= MetadataLimit
        <4>1. /\ Readable(files)
              /\ \A k \in Jobs : Found(files', k) = IF k = rec.job THEN rec
                                                                   ELSE Found(files, k)
          BY <2>3, <3>2 DEF Grows
        <4>2. written' = [written EXCEPT ![rec.job] = rec]
          BY <1>4, <2>3
        <4>3. CASE j = rec.job
          BY <1>1, <1>2, <4>1, <4>2, <4>3
        <4>4. CASE j # rec.job
          <5>1. written'[j] = written[j] /\ Found(files', j) = Found(files, j)
            BY <1>1, <1>2, <4>1, <4>2, <4>4
          <5>2. written[j] = Found(files, j) \/ Displaced(Load(files), j)
            BY <4>1, KeptNamed DEF Survives
          <5>3. CASE written[j] # Found(files, j)
            <6> DEFINE m == Load(files)
                       n == Load(files')
                       w == written[j].at
            <6>1. /\ MetadataLimit > 0 /\ Found(files, j) = NoJob
                  /\ Cardinality({k \in In(m) : m[k].at >= w}) >= MetadataLimit
              BY <5>2, <5>3 DEF Displaced, Load
            <6>2. w \in Nat /\ w <= now
              BY <1>1, <5>3, <6>1 DEF Record, RecordsKnown
            <6>3. m \in [Jobs -> Record \cup {NoJob}]
              BY LoadTyped
            <6>4. \A k \in Jobs : n[k] = IF k = rec.job THEN rec ELSE m[k]
              BY <4>1 DEF Load
            <6>5. n \in [Jobs -> Record \cup {NoJob}]
              BY <6>3, <6>4 DEF Load
            <6>6. \A k \in Jobs : m[k] # NoJob /\ m[k].at >= w
                                    => n[k] # NoJob /\ n[k].at >= w
              <7> HIDE DEF m, n, w
              <7> QED BY <1>2, <6>2, <6>4
            <6> HIDE DEF m, n, w
            <6>7. Cardinality({k \in In(n) : n[k].at >= w}) >= MetadataLimit
              BY <6>1, <6>2, <6>3, <6>5, <6>6, DisplacedStays
            <6> QED BY <5>1, <6>1, <6>7 DEF n, w
          <5> QED BY <5>1, <5>3
        <4> QED BY <4>3, <4>4
      <3> HIDE DEF Found, Load, In
      <3> QED BY <3>1, <3>2, KeptPrimed
    <2> QED BY <2>1, <2>2, <2>3, AppendEffect
  <1> QED BY <1>5, <1>6, <1>7

\* An append adds the record, if anything can be read afterwards.
LEMMA AppendFound ==
  ASSUME TypeOK, OpenEnds, NEW f \in Files, NEW rec \in Record, NEW how \in Outcome,
         AppendTo(f, rec, how), Readable(files'),
         f = "submissions" /\ Readable(files) => Found(files, rec.job) = NoJob
  PROVE  /\ Readable(files)
         /\ \/ /\ how \in {"bare", "whole"} /\ rec.job \in Jobs
               /\ \A k \in Jobs : Found(files', k) = IF k = rec.job THEN rec
                                                                    ELSE Found(files, k)
            \/ how = "none" /\ \A k \in Jobs : Found(files', k) = Found(files, k)
  <1>1. \/ how = "none" /\ UNCHANGED files
        \/ how \in {"bare", "whole"} /\ Grows(rec)
    BY AppendEffect DEF Damaged
  <1> QED BY <1>1 DEF Grows, Record

------------------------------------------------------------------------------
(* The running server *)

\* While the server runs, an append and the record put in the map are enough.
LEMMA RunningStep ==
  ASSUME LogInv, pc = "up", pc' = pc, now < MaxWrites, now' = now + 1,
         UNCHANGED <<todo, kept, starts>>,
         NEW f \in Files, NEW rec \in Record, NEW how \in Outcome, AppendTo(f, rec, how),
         rec.at = now, rec.status = "queued" <=> f = "submissions",
         f = "submissions" /\ Readable(files) => Found(files, rec.job) = NoJob,
         map' \in [Jobs -> Record \cup {NoJob}],
         \A k \in Jobs : map'[k] \in {map[k], rec, NoJob} /\ (map'[k] = rec => k = rec.job),
         rec.status # "queued" /\ map'[rec.job] # NoJob => map'[rec.job].status # "queued"
  PROVE  LogInv'
  <1>1. /\ now \in Nat /\ MaxWrites \in Nat /\ now' \in 0 .. MaxWrites /\ now' \in Nat
        /\ now <= now' /\ map \in [Jobs -> Record \cup {NoJob}]
    BY MetadataAssumption DEF LogInv, TypeOK
  <1>2. /\ files' \in [Files -> File] /\ scarred' \in BOOLEAN
        /\ written' \in [Jobs -> Record \cup {NoJob}]
        /\ FilesHold' /\ OpenEnds' /\ KeptSurvive'
        /\ \A j \in Jobs : written'[j] # NoJob => /\ written'[j].job = j
                                                  /\ written'[j].at <= now'
    BY <1>1, AppendStep DEF LogInv
  <1>3. TypeOK'
    BY <1>1, <1>2 DEF LogInv, TypeOK
  <1>4. RecordsKnown'
    <2> SUFFICES ASSUME NEW k \in Jobs, map'[k] # NoJob
                 PROVE  map'[k].job = k /\ map'[k].at <= now'
      BY <1>2 DEF RecordsKnown
    <2>1. CASE map'[k] = rec
      BY <1>1, <2>1
    <2>2. CASE map'[k] = map[k]
      <3>1. map[k].job = k /\ map[k].at <= now /\ map[k].at \in Nat
        BY <1>1, <2>2 DEF LogInv, RecordsKnown, Record
      <3> QED BY <1>1, <2>2, <3>1
    <2> QED BY <2>1, <2>2
  <1>5. Serving'
    <2> SUFFICES ASSUME NEW k \in Jobs, map'[k] # NoJob, map'[k].status = "queued",
                        Readable(files'), Found(files', k) # NoJob
                 PROVE  Found(files', k).status = "queued"
      BY DEF Serving
    <2>1. /\ Readable(files)
          /\ \/ /\ how \in {"bare", "whole"} /\ rec.job \in Jobs
                /\ \A i \in Jobs : Found(files', i) = IF i = rec.job THEN rec
                                                                     ELSE Found(files, i)
             \/ how = "none" /\ \A i \in Jobs : Found(files', i) = Found(files, i)
      BY AppendFound DEF LogInv
    <2>2. map'[k] = map[k] /\ Found(files, k) # NoJob => Found(files, k).status = "queued"
      BY <2>1 DEF LogInv, Serving
    <2>3. CASE f = "submissions"
      <3>1. rec.status = "queued" /\ Found(files, rec.job) = NoJob
        BY <2>1, <2>3
      <3> HIDE DEF Found
      <3> QED BY <2>1, <2>2, <3>1
    <2>4. CASE f # "submissions"
      <3>1. k # rec.job /\ map'[k] = map[k]
        BY <2>4
      <3> HIDE DEF Found
      <3> QED BY <2>1, <2>2, <3>1
    <2> QED BY <2>3, <2>4
  <1>6. Recovering' /\ Compacting'
    BY DEF Recovering, Compacting
  <1> QED BY <1>2, <1>3, <1>4, <1>5, <1>6 DEF LogInv

\* A record of the job is one.
LEMMA RecIs ==
  ASSUME NEW j \in Jobs, NEW s \in Final \cup {"queued"}, NEW t \in Nat
  PROVE  /\ Rec(j, s, t) \in Record /\ Rec(j, s, t).job = j /\ Rec(j, s, t).status = s
         /\ Rec(j, s, t).at = t /\ Rec(j, s, t) # NoJob
  BY NoneAssumption DEF Rec, Record

\* Retention takes records out of the map and changes none.
LEMMA RetainOnlyTakes ==
  ASSUME NEW m \in [Jobs -> Record \cup {NoJob}], NEW n \in Retain(m)
  PROVE  n \in [Jobs -> Record \cup {NoJob}] /\ \A k \in Jobs : n[k] \in {m[k], NoJob}
  BY DEF Retain, Only

LEMMA EnqueueStep ==
  ASSUME LogInv, NEW j \in Jobs, Enqueue(j)
  PROVE  LogInv'
  <1> DEFINE rec == Rec(j, "queued", now)
  <1>1. /\ pc = "up" /\ now < MaxWrites /\ now' = now + 1 /\ pc' = pc
        /\ UNCHANGED <<todo, kept, starts>> /\ written[j] = NoJob
        /\ map' = [map EXCEPT ![j] = rec]
    BY DEF Enqueue, Running
  <1>2. now \in Nat /\ map \in [Jobs -> Record \cup {NoJob}]
    BY DEF LogInv, TypeOK
  <1>3. rec \in Record /\ rec.job = j /\ rec.status = "queued" /\ rec.at = now /\ rec # NoJob
    BY <1>2, RecIs
  <1> HIDE DEF rec
  <1>4. map'[j] = rec
    BY <1>1, <1>2
  <1>5. PICK how \in Outcome : AppendTo("submissions", rec, how)
    BY <1>4 DEF Enqueue
  <1>6. Readable(files) => Found(files, rec.job) = NoJob
    BY <1>1, <1>3, KeptNamed DEF LogInv, Survives, Displaced, Load
  <1>7. /\ map' \in [Jobs -> Record \cup {NoJob}]
        /\ \A k \in Jobs : map'[k] \in {map[k], rec, NoJob} /\ (map'[k] = rec => k = j)
    <2>1. \A k \in Jobs : map[k] = rec => k = j
      BY <1>2, <1>3 DEF LogInv, RecordsKnown
    <2> QED BY <1>1, <1>2, <1>3, <2>1
  <1>8. "submissions" \in Files
    BY DEF Files
  <1> QED BY <1>1, <1>3, <1>5, <1>6, <1>7, <1>8, RunningStep

LEMMA SettleStep ==
  ASSUME LogInv, NEW j \in Jobs, Settle(j)
  PROVE  LogInv'
  <1>1. /\ pc = "up" /\ now < MaxWrites /\ now' = now + 1 /\ pc' = pc
        /\ UNCHANGED <<todo, kept, starts>>
    BY DEF Settle, Running
  <1>2. now \in Nat /\ map \in [Jobs -> Record \cup {NoJob}]
    BY DEF LogInv, TypeOK
  <1>3. PICK s \in {"succeeded", "failed"}, how \in Outcome :
          /\ AppendTo("results", Rec(j, s, now), how)
          /\ \/ map' \in Retain([map EXCEPT ![j] = Rec(j, s, now)])
             \/ map' = [map EXCEPT ![j] = Rec(j, s, now)]
    BY DEF Settle
  <1> DEFINE rec == Rec(j, s, now)
             m == [map EXCEPT ![j] = rec]
  <1>4. rec \in Record /\ rec.job = j /\ rec.status = s /\ rec.at = now /\ rec # NoJob
    BY <1>2, RecIs DEF Final
  <1>5. AppendTo("results", rec, how) /\ (map' \in Retain(m) \/ map' = m)
    BY <1>3
  <1> HIDE DEF rec
  <1>6. m \in [Jobs -> Record \cup {NoJob}]
        /\ \A k \in Jobs : m[k] = IF k = j THEN rec ELSE map[k]
    BY <1>2, <1>4
  <1> HIDE DEF m
  <1>7. /\ map' \in [Jobs -> Record \cup {NoJob}]
        /\ \A k \in Jobs : map'[k] \in {m[k], NoJob}
    BY <1>5, <1>6, RetainOnlyTakes
  <1>8. \A k \in Jobs : map[k] = rec => k = j
    BY <1>2, <1>4 DEF LogInv, RecordsKnown
  <1>9. /\ \A k \in Jobs : map'[k] \in {map[k], rec, NoJob} /\ (map'[k] = rec => k = j)
        /\ map'[j] # NoJob => map'[j] = rec
    BY <1>4, <1>6, <1>7, <1>8
  <1>10. "results" \in Files /\ s # "queued"
    BY DEF Files
  <1> QED BY <1>1, <1>4, <1>5, <1>7, <1>9, <1>10, RunningStep

LEMMA RollbackStep ==
  ASSUME LogInv, NEW j \in Jobs, Rollback(j)
  PROVE  LogInv'
  <1> DEFINE rec == Rec(j, "failed", now)
  <1>1. /\ pc = "up" /\ now < MaxWrites /\ now' = now + 1 /\ pc' = pc
        /\ UNCHANGED <<todo, kept, starts>> /\ map' = [map EXCEPT ![j] = NoJob]
    BY DEF Rollback, Running
  <1>2. now \in Nat /\ map \in [Jobs -> Record \cup {NoJob}]
    BY DEF LogInv, TypeOK
  <1>3. rec \in Record /\ rec.job = j /\ rec.status = "failed" /\ rec.at = now /\ rec # NoJob
    BY <1>2, RecIs DEF Final
  <1>4. PICK how \in Outcome : AppendTo("results", rec, how)
    BY DEF Rollback
  <1> HIDE DEF rec
  <1>5. /\ map' \in [Jobs -> Record \cup {NoJob}] /\ map'[j] = NoJob
        /\ \A k \in Jobs : map'[k] \in {map[k], rec, NoJob} /\ (map'[k] = rec => k = j)
    <2>1. \A k \in Jobs : map[k] = rec => k = j
      BY <1>2, <1>3 DEF LogInv, RecordsKnown
    <2> QED BY <1>1, <1>2, <1>3, <2>1
  <1>6. "results" \in Files
    BY DEF Files
  <1> QED BY <1>1, <1>3, <1>4, <1>5, <1>6, RunningStep

LEMMA DeleteStep ==
  ASSUME LogInv, NEW j \in Jobs, Delete(j)
  PROVE  LogInv'
  <1> DEFINE rec == Rec(j, "deleted", now)
  <1>1. /\ pc = "up" /\ now < MaxWrites /\ now' = now + 1 /\ pc' = pc
        /\ UNCHANGED <<todo, kept, starts>> /\ map' = [map EXCEPT ![j] = rec]
    BY DEF Delete, Running
  <1>2. now \in Nat /\ map \in [Jobs -> Record \cup {NoJob}]
    BY DEF LogInv, TypeOK
  <1>3. rec \in Record /\ rec.job = j /\ rec.status = "deleted" /\ rec.at = now /\ rec # NoJob
    BY <1>2, RecIs DEF Final
  <1> HIDE DEF rec
  <1>4. map'[j] = rec
    BY <1>1, <1>2
  <1>5. PICK how \in Outcome : AppendTo("results", rec, how)
    BY <1>4 DEF Delete
  <1>6. /\ map' \in [Jobs -> Record \cup {NoJob}]
        /\ \A k \in Jobs : map'[k] \in {map[k], rec, NoJob} /\ (map'[k] = rec => k = j)
    <2>1. \A k \in Jobs : map[k] = rec => k = j
      BY <1>2, <1>3 DEF LogInv, RecordsKnown
    <2> QED BY <1>1, <1>2, <1>3, <2>1
  <1>7. "results" \in Files
    BY DEF Files
  <1> QED BY <1>1, <1>3, <1>4, <1>5, <1>6, <1>7, RunningStep

------------------------------------------------------------------------------
(* The startup *)

\* Steps that leave the files alone keep what is said about files alone.
LEMMA FilesAlone ==
  ASSUME LogInv, UNCHANGED <<files, now, written, scarred>>
  PROVE  FilesHold' /\ OpenEnds' /\ KeptSurvive'
  BY DEF LogInv, FilesHold, OpenEnds, Lines, KeptSurvive

LEMMA LoadJobsStep ==
  ASSUME LogInv, LoadJobs
  PROVE  LogInv'
  <1>1. /\ UNCHANGED <<files, kept, now, written, scarred>>
        /\ starts < MaxStarts /\ starts' = starts + 1
    BY DEF LoadJobs
  <1>2. /\ now \in Nat /\ starts \in Nat /\ MaxStarts \in Nat /\ starts' \in 0 .. MaxStarts
        /\ written \in [Jobs -> Record \cup {NoJob}]
        /\ map \in [Jobs -> Record \cup {NoJob}]
    BY <1>1, MetadataAssumption DEF LogInv, TypeOK
  <1>3. FilesHold' /\ OpenEnds' /\ KeptSurvive'
    BY <1>1, FilesAlone
  <1>4. CASE ~Readable(files)
    <2>1. pc' = "refused" /\ UNCHANGED <<map, todo>>
      BY <1>4 DEF LoadJobs
    <2>2. TypeOK'
      BY <1>1, <1>2, <2>1 DEF LogInv, TypeOK
    <2>3. RecordsKnown'
      BY <1>1, <2>1 DEF LogInv, RecordsKnown
    <2>4. Recovering' /\ Compacting' /\ Serving'
      BY <2>1 DEF Recovering, Compacting, Serving
    <2> QED BY <1>3, <2>2, <2>3, <2>4 DEF LogInv
  <1>5. CASE Readable(files)
    <2> DEFINE found == Load(files)
    <2>1. /\ map' = [j \in Jobs |-> IF j \in Pending THEN Rec(j, RecoveredStatus, now)
                                                     ELSE found[j]]
          /\ todo' = Pending /\ pc' = "recover"
      BY <1>5 DEF LoadJobs
    <2>2. /\ found \in [Jobs -> Record \cup {NoJob}]
          /\ \A j \in Jobs : found[j] = Found(files, j)
          /\ \A j \in Jobs : found[j] # NoJob => found[j].job = j /\ found[j].at <= now
      BY LoadTyped, FoundIsLine DEF LogInv, Load
    <2>3. /\ Pending \subseteq Jobs
          /\ \A j \in Jobs : j \in Pending <=> found[j] # NoJob /\ found[j].status = "queued"
      BY DEF Pending, In
    <2>4. \A j \in Pending : /\ map'[j] \in Record /\ map'[j].job = j /\ map'[j] # NoJob
                             /\ map'[j].status \in Final /\ map'[j].at = now
      <3> SUFFICES ASSUME NEW j \in Pending
                   PROVE  /\ map'[j] \in Record /\ map'[j].job = j /\ map'[j] # NoJob
                          /\ map'[j].status \in Final /\ map'[j].at = now
        OBVIOUS
      <3>1. map'[j] = Rec(j, "failed", now) /\ "failed" \in Final /\ j \in Jobs
        BY <2>1, <2>3 DEF RecoveredStatus, Final
      <3> QED BY <1>2, <3>1, RecIs
    <2>5. \A j \in Jobs \ Pending : map'[j] = found[j]
      BY <2>1
    <2> HIDE DEF found
    <2>6. map' \in [Jobs -> Record \cup {NoJob}]
      BY <2>1, <2>2, <2>3, <2>4
    <2>7. TypeOK'
      BY <1>1, <1>2, <2>1, <2>3, <2>6 DEF LogInv, TypeOK
    <2>8. RecordsKnown'
      <3>1. \A j \in Jobs : map'[j] # NoJob => map'[j].job = j /\ map'[j].at <= now
        BY <1>2, <2>2, <2>4, <2>5
      <3> QED BY <1>1, <3>1 DEF LogInv, RecordsKnown
    <2>9. \A j \in Jobs : map'[j] # NoJob => map'[j].status \in Final
      BY <2>2, <2>3, <2>4, <2>5 DEF Record
    <2>10. \A i \in DOMAIN Lines("submissions") : Lines("submissions")[i] # Torn
      BY <1>5 DEF Readable, Lines, Files
    <2>11. ASSUME NEW j \in Jobs \ Pending
           PROVE  /\ written'[j] = map'[j] \/ Displaced(map, j)'
                  /\ Found(files', j) = map'[j]
      <3>1. map'[j] = found[j] /\ Found(files', j) = found[j]
        BY <1>1, <2>2, <2>5
      <3>2. written[j] = found[j] \/ Displaced(found, j)
        BY <1>5, <2>2, KeptNamed DEF LogInv, Survives, found
      <3>3. CASE written[j] # found[j]
        <4> DEFINE w == written[j].at
        <4>1. /\ MetadataLimit > 0 /\ found[j] = NoJob
              /\ Cardinality({k \in In(found) : found[k].at >= w}) >= MetadataLimit
          BY <3>2, <3>3 DEF Displaced
        <4>2. w \in Nat /\ w <= now
          BY <1>2, <3>3, <4>1 DEF LogInv, Record, RecordsKnown
        <4> HIDE DEF w
        <4>3. \A k \in Jobs : found[k] # NoJob /\ found[k].at >= w
                                => map'[k] # NoJob /\ map'[k].at >= w
          BY <2>4, <2>5, <4>2
        <4>4. Cardinality({k \in In(map') : map'[k].at >= w}) >= MetadataLimit
          BY <2>2, <2>6, <4>1, <4>2, <4>3, DisplacedStays
        <4>5. Displaced(map, j)'
          BY <1>1, <3>1, <4>1, <4>4 DEF Displaced, w
        <4> QED BY <3>1, <4>5
      <3> QED BY <1>1, <3>1, <3>3
    <2>12. Recovering'
      <3>1. \A j \in todo' : /\ map'[j] # NoJob /\ map'[j].at = now'
                             /\ Found(files', j) # NoJob
                             /\ Found(files', j).status = "queued"
        BY <1>1, <2>1, <2>2, <2>3, <2>4
      <3>2. \A i \in DOMAIN Lines("submissions")' : Lines("submissions")'[i] # Torn
        BY <1>1, <2>10 DEF Lines
      <3> HIDE DEF Displaced, Found
      <3> QED BY <2>1, <2>9, <2>11, <3>1, <3>2 DEF Recovering
    <2>13. Compacting' /\ Serving'
      BY <2>1 DEF Compacting, Serving
    <2> QED BY <1>3, <2>7, <2>8, <2>12, <2>13 DEF LogInv
  <1> QED BY <1>4, <1>5

LEMMA AppendRecoveredStep ==
  ASSUME LogInv, AppendRecovered
  PROVE  LogInv'
  <1>1. /\ pc = "recover" /\ UNCHANGED <<map, kept, now, starts>>
    BY DEF AppendRecovered
  <1>2. PICK j \in todo, how \in Outcome :
          /\ AppendTo("results", map[j], how)
          /\ todo' = todo \ {j}
          /\ pc' = IF how = "whole" THEN pc ELSE "down"
    BY DEF AppendRecovered
  <1> DEFINE rec == map[j]
  <1>3. /\ now \in Nat /\ map \in [Jobs -> Record \cup {NoJob}] /\ j \in Jobs
        /\ todo \subseteq Jobs /\ written \in [Jobs -> Record \cup {NoJob}]
    BY DEF LogInv, TypeOK
  <1>4. /\ rec \in Record /\ rec.job = j /\ rec.status \in Final /\ rec.at = now
        /\ rec # NoJob /\ rec.status # "queued"
    BY <1>1, <1>3 DEF LogInv, Recovering, RecordsKnown, Final
  <1>5. AppendTo("results", rec, how) /\ "results" \in Files /\ "submissions" \in Files
    BY <1>2 DEF Files
  <1>6. /\ files' \in [Files -> File] /\ scarred' \in BOOLEAN
        /\ written' \in [Jobs -> Record \cup {NoJob}]
        /\ FilesHold' /\ OpenEnds' /\ KeptSurvive'
        /\ \A k \in Jobs : written'[k] # NoJob => /\ written'[k].job = k
                                                  /\ written'[k].at <= now'
    <2>1. now' \in Nat /\ now <= now'
      BY <1>1, <1>3
    <2> HIDE DEF rec
    <2> QED BY <1>4, <1>5, <2>1, AppendStep DEF LogInv
  <1>7. TypeOK'
    BY <1>1, <1>2, <1>6 DEF LogInv, TypeOK
  <1>8. RecordsKnown'
    BY <1>1, <1>6 DEF LogInv, RecordsKnown
  <1>9. CASE how # "whole"
    <2>1. pc' = "down"
      BY <1>2, <1>9
    <2>2. Recovering' /\ Compacting' /\ Serving'
      BY <2>1 DEF Recovering, Compacting, Serving
    <2> QED BY <1>6, <1>7, <1>8, <2>2 DEF LogInv
  <1>10. CASE how = "whole"
    <2>1. pc' = "recover"
      BY <1>1, <1>2, <1>10
    <2>2. Compacting' /\ Serving'
      BY <2>1 DEF Compacting, Serving
    <2>3. ASSUME Readable(files')
          PROVE  Readable(files) /\ \A k \in Jobs : Found(files', k)
                                      = IF k = j THEN rec ELSE Found(files, k)
      <3> HIDE DEF rec
      <3> QED BY <1>4, <1>5, <1>10, <2>3, AppendFound DEF LogInv
    <2>4. written' = [written EXCEPT ![j] = rec]
      BY <1>2, <1>4, <1>10 DEF AppendTo
    <2>5. /\ \A k \in Jobs : map[k] # NoJob => map[k].status \in Final
          /\ \A i \in DOMAIN Lines("submissions") : Lines("submissions")[i] # Torn
          /\ \A k \in todo :
               /\ map[k] # NoJob /\ map[k].at = now
               /\ Readable(files) => /\ Found(files, k) # NoJob
                                     /\ Found(files, k).status = "queued"
          /\ \A k \in Jobs \ todo :
               /\ written[k] = map[k] \/ Displaced(map, k)
               /\ Readable(files) => Found(files, k) = map[k]
      BY <1>1 DEF LogInv, Recovering
    <2>6. Lines("submissions")' = Lines("submissions")
      <3>1. "submissions" \in Files \ {"results"} /\ now' \in Nat /\ now <= now'
        BY <1>1, <1>3, <1>5
      <3> HIDE DEF rec
      <3> QED BY <1>1, <1>3, <1>4, <1>5, <3>1, AppendKeepsFiles DEF LogInv
    <2>7. \A k \in todo' :
            /\ map'[k] # NoJob /\ map'[k].at = now'
            /\ Readable(files') => /\ Found(files', k) # NoJob
                                   /\ Found(files', k).status = "queued"
      <3> HIDE DEF Found, Readable, rec
      <3> QED BY <1>1, <1>2, <1>3, <2>3, <2>5
    <2>8. ASSUME NEW k \in Jobs \ todo'
          PROVE  /\ written'[k] = map'[k] \/ Displaced(map, k)'
                 /\ Readable(files') => Found(files', k) = map'[k]
      <3>1. CASE k = j
        BY <1>1, <1>3, <2>3, <2>4, <3>1
      <3>2. CASE k # j
        <4>1. k \in Jobs \ todo /\ written'[k] = written[k] /\ map'[k] = map[k]
          BY <1>1, <1>2, <1>3, <2>4, <3>2
        <4>2. Displaced(map, k) => Displaced(map, k)'
          BY <1>1, <4>1 DEF Displaced
        <4>3. written'[k] = map'[k] \/ Displaced(map, k)'
          BY <2>5, <4>1, <4>2
        <4> HIDE DEF Found, Readable, rec
        <4>4. Readable(files') => Found(files', k) = map'[k]
          BY <2>3, <2>5, <3>2, <4>1
        <4> QED BY <4>3, <4>4
      <3> QED BY <3>1, <3>2
    <2>9. Recovering'
      <3> HIDE DEF Displaced, Found, Readable, rec
      <3> QED BY <1>1, <2>1, <2>5, <2>6, <2>7, <2>8 DEF Recovering
    <2> QED BY <1>6, <1>7, <1>8, <2>2, <2>9 DEF LogInv
  <1> QED BY <1>9, <1>10

LEMMA CompactStep ==
  ASSUME LogInv, Compact
  PROVE  LogInv'
  <1>1. /\ pc = "recover" /\ todo = {}
        /\ UNCHANGED <<files, map, todo, now, starts, written, scarred>>
        /\ \/ MetadataLimit = 0 /\ pc' = "retain" /\ UNCHANGED kept
           \/ /\ MetadataLimit # 0 /\ kept' \in Recent(map, MetadataLimit)
              /\ pc' = "submissions"
    BY DEF Compact
  <1>2. FilesHold' /\ OpenEnds' /\ KeptSurvive'
    BY <1>1, FilesAlone
  <1>3. TypeOK'
    <2>1. kept' \subseteq Jobs
      BY <1>1 DEF Recent, In, LogInv, TypeOK
    <2> QED BY <1>1, <2>1 DEF LogInv, TypeOK
  <1>4. RecordsKnown'
    BY <1>1 DEF LogInv, RecordsKnown
  <1>5. \A j \in Jobs : map[j] # NoJob => map[j].status \in Final
    BY <1>1 DEF LogInv, Recovering
  <1>6. Serving'
    BY <1>1, <1>5 DEF Serving, Final
  <1>7. Compacting'
    BY <1>1, MetadataAssumption DEF Compacting
  <1>8. Recovering'
    BY <1>1 DEF LogInv, Recovering, Displaced, Lines
  <1> QED BY <1>2, <1>3, <1>4, <1>6, <1>7, <1>8 DEF LogInv

\* A crash, or a startup that fails, leaves what the files say.
LEMMA GoesDown ==
  ASSUME LogInv, pc' = "down", UNCHANGED <<files, now, starts, written, scarred>>,
         map' \in [Jobs -> Record \cup {NoJob}], \A j \in Jobs : map'[j] \in {map[j], NoJob},
         todo' \subseteq Jobs, kept' \subseteq Jobs
  PROVE  LogInv'
  <1>1. FilesHold' /\ OpenEnds' /\ KeptSurvive'
    BY FilesAlone
  <1>2. TypeOK'
    BY DEF LogInv, TypeOK
  <1>3. RecordsKnown'
    BY DEF LogInv, RecordsKnown
  <1>4. Recovering' /\ Compacting' /\ Serving'
    BY DEF Recovering, Compacting, Serving
  <1> QED BY <1>1, <1>2, <1>3, <1>4 DEF LogInv

LEMMA RetainStep ==
  ASSUME LogInv, RetainRecentJobs
  PROVE  LogInv'
  <1>1. /\ pc = "retain" /\ pc' = "up" /\ map' \in Retain(map)
        /\ UNCHANGED <<files, todo, kept, now, starts, written, scarred>>
    BY DEF RetainRecentJobs
  <1>2. FilesHold' /\ OpenEnds' /\ KeptSurvive'
    BY <1>1, FilesAlone
  <1>3. map' \in [Jobs -> Record \cup {NoJob}] /\ \A k \in Jobs : map'[k] \in {map[k], NoJob}
    BY <1>1, RetainOnlyTakes DEF LogInv, TypeOK
  <1>4. TypeOK'
    BY <1>1, <1>3 DEF LogInv, TypeOK
  <1>5. RecordsKnown'
    BY <1>1, <1>3 DEF LogInv, RecordsKnown
  <1>6. Serving'
    BY <1>1, <1>3 DEF LogInv, Serving
  <1>7. Recovering' /\ Compacting'
    BY <1>1 DEF Recovering, Compacting
  <1> QED BY <1>2, <1>4, <1>5, <1>6, <1>7 DEF LogInv

\* The submissions go first.  Nothing in them is needed: every job of theirs
\* has been found settled.
LEMMA ReplaceFirstEffect ==
  ASSUME LogInv, pc = "submissions", Replace(FileOrder[1], KeptIn(FileOrder[1]))
  PROVE  /\ files' = [files EXCEPT !["submissions"] = [lines |-> <<>>, end |-> "clean"]]
         /\ Readable(files') <=> Readable(files)
         /\ Readable(files) => \A j \in Jobs : Found(files', j) = Found(files, j)
  <1>1. KeptIn("submissions") = {}
    BY DEF LogInv, Compacting, Recovering, KeptIn, Recent, In, Final
  <1>2. PICK list \in Sorted({}) :
          files' = [files EXCEPT !["submissions"] = [lines |-> list, end |-> "clean"]]
    BY <1>1 DEF Replace, FileOrder
  <1>3. list = <<>>
    <2>1. Cardinality({}) = 0
      BY FS_EmptySet
    <2>2. list \in [1 .. 0 -> {map[j] : j \in {}}]
      BY <1>2, <2>1 DEF Sorted
    <2> QED BY <2>2
  <1>4. files \in [Files -> File] /\ "submissions" \in Files /\ "results" \in Files
        /\ Files = {"submissions", "results"}
    BY DEF LogInv, TypeOK, Files
  <1>5. files'["submissions"].lines = <<>> /\ files'["results"] = files["results"]
    BY <1>2, <1>3, <1>4
  <1>6. \A i \in DOMAIN files["submissions"].lines : files["submissions"].lines[i] # Torn
    BY DEF LogInv, Recovering, Lines
  <1>7. Readable(files') <=> Readable(files)
    <2>1. DOMAIN files'["submissions"].lines = {}
      BY <1>5
    <2> QED BY <1>4, <1>5, <1>6, <2>1 DEF Readable
  <1>8. ASSUME Readable(files), NEW j \in Jobs
        PROVE  Found(files', j) = Found(files, j)
    <2>1. LastOf(files'["submissions"].lines, j) = NoJob
      BY <1>5 DEF LastOf, LinesOf
    <2>2. CASE LastOf(files["results"].lines, j) # NoJob
      BY <1>5, <2>2 DEF Found
    <2>3. CASE LastOf(files["results"].lines, j) = NoJob
      <3>1. Found(files', j) = NoJob
        BY <1>5, <2>1, <2>3 DEF Found
      <3>2. Found(files, j) = map[j]
        BY <1>8 DEF LogInv, Recovering, Compacting
      <3>3. Found(files, j) # NoJob => Found(files, j).status # "queued"
        BY <3>2 DEF LogInv, Recovering, Final
      <3>4. Found(files, j) = NoJob
        BY <2>3, <3>3, FoundIsLine DEF LogInv
      <3> QED BY <3>1, <3>4
    <2> QED BY <2>2, <2>3
  <1> QED BY <1>2, <1>3, <1>7, <1>8

LEMMA ReplaceFirstStep ==
  ASSUME LogInv, ReplaceFirst
  PROVE  LogInv'
  <1>1. pc = "submissions" /\ UNCHANGED <<map, todo, kept, now, starts, written, scarred>>
    BY DEF ReplaceFirst
  <1>2. CASE pc' = "down" /\ UNCHANGED files
    <2>1. map \in [Jobs -> Record \cup {NoJob}] /\ todo \subseteq Jobs /\ kept \subseteq Jobs
      BY DEF LogInv, TypeOK
    <2> QED BY <1>1, <1>2, <2>1, GoesDown
  <1>3. CASE Replace(FileOrder[1], KeptIn(FileOrder[1])) /\ pc' = "results"
    <2>1. /\ files' = [files EXCEPT !["submissions"] = [lines |-> <<>>, end |-> "clean"]]
          /\ Readable(files') <=> Readable(files)
          /\ Readable(files) => \A j \in Jobs : Found(files', j) = Found(files, j)
      BY <1>1, <1>3, ReplaceFirstEffect
    <2>2. files \in [Files -> File] /\ Files = {"submissions", "results"}
      BY DEF LogInv, TypeOK, Files
    <2>3. /\ files'["submissions"] = [lines |-> <<>>, end |-> "clean"]
          /\ files'["results"] = files["results"]
      BY <2>1, <2>2
    <2>4. files' \in [Files -> File]
      <3>1. [lines |-> <<>>, end |-> "clean"] \in File
        BY DEF File
      <3> QED BY <2>1, <2>2, <3>1
    <2>5. TypeOK'
      BY <1>1, <1>3, <2>4 DEF LogInv, TypeOK
    <2>6. RecordsKnown'
      BY <1>1 DEF LogInv, RecordsKnown
    <2>7. Lines("submissions")' = <<>> /\ Lines("results")' = Lines("results")
      BY <2>3 DEF Lines
    <2>8. FilesHold'
      <3>1. \A i \in DOMAIN Lines("submissions")' : FALSE
        BY <2>7
      <3> QED BY <1>1, <2>2, <2>7, <3>1 DEF LogInv, FilesHold
    <2>9. OpenEnds'
      BY <1>1, <2>2, <2>3, <2>7 DEF LogInv, OpenEnds
    <2>10. KeptSurvive'
      <3>1. Readable(files) => \A j \in Jobs : Load(files')[j] = Load(files)[j]
        BY <2>1 DEF Load
      <3>2. Readable(files) => Load(files') = Load(files)
        BY <3>1 DEF Load
      <3>3. scarred' \/ Readable(files')
        BY <1>1, <2>1 DEF LogInv, KeptSurvive
      <3> HIDE DEF Load, Readable
      <3> QED BY <1>1, <2>1, <3>2, <3>3 DEF LogInv, KeptSurvive
    <2>11. Recovering'
      <3>1. \A j \in Jobs : Displaced(map, j)' <=> Displaced(map, j)
        BY <1>1 DEF Displaced
      <3>2. \A i \in DOMAIN Lines("submissions")' : FALSE
        BY <2>7
      <3>3. todo = {}
        BY <1>1 DEF LogInv, Compacting
      <3> HIDE DEF Found, Readable, Displaced
      <3> QED BY <1>1, <2>1, <3>1, <3>2, <3>3 DEF LogInv, Recovering
    <2>12. Compacting'
      BY <1>1, <1>3, <2>7 DEF LogInv, Compacting
    <2>13. Serving'
      BY <1>3 DEF Serving
    <2> QED BY <2>5, <2>6, <2>8, <2>9, <2>10, <2>11, <2>12, <2>13 DEF LogInv
  <1> QED BY <1>2, <1>3 DEF ReplaceFirst

\* Then the results: the kept records, and nothing but them.
LEMMA ReplaceSecondEffect ==
  ASSUME LogInv, pc = "results", Replace(FileOrder[2], KeptIn(FileOrder[2]))
  PROVE  /\ \E list \in Seq(Record \cup {Torn}) :
              /\ files' = [files EXCEPT !["results"] = [lines |-> list, end |-> "clean"]]
              /\ \A i \in DOMAIN list :
                   list[i] \in Record /\ \E k \in kept : list[i] = map[k]
         /\ Readable(files')
         /\ \A j \in Jobs : Found(files', j) = IF j \in kept THEN map[j] ELSE NoJob
  <1>1. /\ kept \in SUBSET In(map) /\ KeptIn("results") = kept
        /\ map \in [Jobs -> Record \cup {NoJob}] /\ RecordsKnown
    <2>1. kept \in SUBSET In(map)
      BY DEF LogInv, Compacting, Recent
    <2>2. \A j \in kept : map[j].status # "queued"
      BY <2>1 DEF LogInv, Recovering, Final, In
    <2> QED BY <2>1, <2>2 DEF KeptIn, LogInv, TypeOK
  <1>2. PICK list \in Sorted(kept) :
          files' = [files EXCEPT !["results"] = [lines |-> list, end |-> "clean"]]
    BY <1>1 DEF Replace, FileOrder
  <1>3. /\ list \in Seq(Record \cup {Torn}) /\ \A i \in DOMAIN list : list[i] \in Record
        /\ \A j \in Jobs : LastOf(list, j) = IF j \in kept THEN map[j] ELSE NoJob
    BY <1>1, LastOfSorted
  <1>4. \A i \in DOMAIN list : \E k \in kept : list[i] = map[k]
    BY DEF Sorted
  <1>5. files \in [Files -> File] /\ Files = {"submissions", "results"}
    BY DEF LogInv, TypeOK, Files
  <1>6. files'["results"].lines = list /\ files'["submissions"] = files["submissions"]
    BY <1>2, <1>5
  <1>7. files["submissions"].lines = <<>>
    BY DEF LogInv, Compacting, Lines
  <1>8. Readable(files')
    BY <1>3, <1>5, <1>6, <1>7, NoneAssumption DEF Readable
  <1>9. ASSUME NEW j \in Jobs
        PROVE  Found(files', j) = IF j \in kept THEN map[j] ELSE NoJob
    <2>1. LastOf(files'["submissions"].lines, j) = NoJob
      BY <1>6, <1>7 DEF LastOf, LinesOf
    <2> QED BY <1>3, <1>6, <2>1 DEF Found
  <1> QED BY <1>2, <1>3, <1>4, <1>8, <1>9

LEMMA ReplaceSecondStep ==
  ASSUME LogInv, ReplaceSecond
  PROVE  LogInv'
  <1>1. pc = "results" /\ UNCHANGED <<map, todo, kept, now, starts, written, scarred>>
    BY DEF ReplaceSecond
  <1>2. CASE pc' = "down" /\ UNCHANGED files
    <2>1. map \in [Jobs -> Record \cup {NoJob}] /\ todo \subseteq Jobs /\ kept \subseteq Jobs
      BY DEF LogInv, TypeOK
    <2> QED BY <1>1, <1>2, <2>1, GoesDown
  <1>3. CASE Replace(FileOrder[2], KeptIn(FileOrder[2])) /\ pc' = "retain"
    <2>1. /\ Readable(files')
          /\ \A j \in Jobs : Found(files', j) = IF j \in kept THEN map[j] ELSE NoJob
      BY <1>1, <1>3, ReplaceSecondEffect
    <2>2. PICK list \in Seq(Record \cup {Torn}) :
              /\ files' = [files EXCEPT !["results"] = [lines |-> list, end |-> "clean"]]
              /\ \A i \in DOMAIN list :
                   list[i] \in Record /\ \E k \in kept : list[i] = map[k]
      BY <1>1, <1>3, ReplaceSecondEffect
    <2>3. files \in [Files -> File] /\ Files = {"submissions", "results"}
      BY DEF LogInv, TypeOK, Files
    <2>4. /\ files'["results"] = [lines |-> list, end |-> "clean"]
          /\ files'["submissions"] = files["submissions"]
      BY <2>2, <2>3
    <2>5. files' \in [Files -> File]
      <3>1. [lines |-> list, end |-> "clean"] \in File
        BY DEF File
      <3> QED BY <2>2, <2>3, <3>1
    <2>6. TypeOK'
      BY <1>1, <1>3, <2>5 DEF LogInv, TypeOK
    <2>7. RecordsKnown'
      BY <1>1 DEF LogInv, RecordsKnown
    <2>8. Lines("submissions")' = Lines("submissions") /\ Lines("results")' = list
          /\ files'["results"].end = "clean"
      BY <2>4 DEF Lines
    <2>9. /\ kept \in Recent(map, MetadataLimit) /\ kept \subseteq In(map) /\ todo = {}
          /\ MetadataLimit > 0 /\ kept \subseteq Jobs
          /\ \A k \in kept : /\ map[k] # NoJob /\ map[k].status # "queued"
                             /\ map[k].at <= now
      <3>1. /\ kept \in Recent(map, MetadataLimit) /\ kept \subseteq In(map) /\ todo = {}
            /\ MetadataLimit > 0
        BY <1>1 DEF LogInv, Compacting, Recent
      <3>2. \A k \in kept : k \in Jobs /\ map[k] # NoJob
        BY <3>1 DEF In
      <3> QED BY <1>1, <3>1, <3>2 DEF LogInv, Recovering, RecordsKnown, Final
    <2>10. FilesHold'
      <3>1. \A i \in DOMAIN list : list[i].status # "queued" /\ list[i].at <= now
        BY <2>2, <2>9
      <3>2. \A i \in DOMAIN Lines("submissions") : Lines("submissions")[i] # Torn =>
              /\ Lines("submissions")[i].status = "queued"
              /\ Lines("submissions")[i].at <= now
        BY <2>3 DEF LogInv, FilesHold
      <3> QED BY <1>1, <2>3, <2>8, <3>1, <3>2 DEF FilesHold
    <2>11. OpenEnds'
      BY <1>1, <2>3, <2>4, <2>8 DEF LogInv, OpenEnds
    <2>12. KeptSurvive'
      <3>1. ASSUME NEW j \in Jobs
            PROVE  \/ written'[j] = Found(files', j)
                   \/ /\ MetadataLimit > 0 /\ Found(files', j) = NoJob
                      /\ Cardinality({k \in In(Load(files')) :
                                        Load(files')[k].at >= written'[j].at})
                           >= MetadataLimit
        <4>1. written[j] = map[j] \/ Displaced(map, j)
          BY <1>1, <2>9 DEF LogInv, Recovering
        <4>2. CASE j \in kept
          BY <1>1, <2>1, <2>9, <4>1, <4>2 DEF Displaced
        <4>3. CASE j \notin kept /\ written[j] = NoJob
          BY <1>1, <2>1, <4>3
        <4>4. CASE j \notin kept /\ written[j] # NoJob
          <5> DEFINE w == written[j].at
          <5>1. w \in Nat
            BY <4>4 DEF LogInv, TypeOK, Record
          <5>2. \/ Cardinality({k \in In(map) : map[k].at >= w}) >= MetadataLimit
                \/ \E i \in In(map) \ kept : map[i].at = w
            BY <4>1, <4>4 DEF Displaced, In
          <5>3. map \in [Jobs -> Record \cup {NoJob}]
            BY DEF LogInv, TypeOK
          <5> HIDE DEF w
          <5>4. Cardinality({k \in kept : map[k].at >= w}) >= MetadataLimit
            BY <2>9, <5>1, <5>2, <5>3, NewestDisplace
          <5>5. {k \in In(Load(files')) : Load(files')[k].at >= w}
                  = {k \in kept : map[k].at >= w}
            <6>1. \A k \in Jobs : Load(files')[k] = IF k \in kept THEN map[k] ELSE NoJob
              BY <2>1 DEF Load
            <6>2. In(Load(files')) = kept
              BY <2>9, <6>1 DEF In
            <6> HIDE DEF Load
            <6> QED BY <2>9, <6>1, <6>2
          <5>6. Cardinality({k \in In(Load(files')) : Load(files')[k].at >= written'[j].at})
                  >= MetadataLimit
            BY <1>1, <5>4, <5>5 DEF w
          <5> HIDE DEF Load, In, Found
          <5> QED BY <2>1, <2>9, <4>4, <5>6
        <4> QED BY <4>2, <4>3, <4>4
      <3> HIDE DEF Load, In, Found, Readable
      <3> QED BY <2>1, <3>1, KeptPrimed
    <2>13. Recovering' /\ Compacting'
      BY <1>3 DEF Recovering, Compacting
    <2>14. Serving'
      BY <1>1 DEF LogInv, Recovering, Serving, Final
    <2> QED BY <2>6, <2>7, <2>10, <2>11, <2>12, <2>13, <2>14 DEF LogInv
  <1> QED BY <1>2, <1>3 DEF ReplaceSecond

------------------------------------------------------------------------------
(* The invariant *)

LEMMA LogInit ==
  ASSUME Init
  PROVE  LogInv
  <1>1. /\ files \in [Files -> File]
        /\ \A f \in Files : files[f].lines = <<>> /\ files[f].end = "clean"
    <2>1. [lines |-> <<>>, end |-> "clean"] \in File
      BY DEF File
    <2> QED BY <2>1 DEF Init
  <1>2. TypeOK
    <2>1. 0 \in 0 .. MaxWrites /\ 0 \in 0 .. MaxStarts
      BY MetadataAssumption
    <2>2. [j \in Jobs |-> NoJob] \in [Jobs -> Record \cup {NoJob}]
      OBVIOUS
    <2> QED BY <1>1, <2>1, <2>2 DEF Init, TypeOK
  <1>3. \A f \in Files : Lines(f) = <<>>
    BY <1>1 DEF Lines
  <1>4. FilesHold /\ OpenEnds
    BY <1>1, <1>3 DEF FilesHold, OpenEnds, Lines
  <1>5. RecordsKnown
    BY DEF Init, RecordsKnown
  <1>6. Recovering /\ Compacting /\ Serving
    BY DEF Init, Recovering, Compacting, Serving
  <1>7. KeptSurvive
    <2>1. \A j \in Jobs, f \in Files : LastOf(files[f].lines, j) = NoJob
      BY <1>1 DEF LastOf, LinesOf
    <2>2. \A j \in Jobs : Found(files, j) = NoJob /\ written[j] = NoJob
      BY <2>1 DEF Found, Files, Init
    <2>3. Readable(files)
      BY <1>1 DEF Readable
    <2> QED BY <2>2, <2>3, KeptNamed DEF Survives
  <1> QED BY <1>2, <1>4, <1>5, <1>6, <1>7 DEF LogInv

LEMMA LogStep ==
  ASSUME LogInv, [Next]_vars
  PROVE  LogInv'
  <1>1. CASE LoadJobs
    BY <1>1, LoadJobsStep
  <1>2. CASE AppendRecovered
    BY <1>2, AppendRecoveredStep
  <1>3. CASE Compact
    BY <1>3, CompactStep
  <1>4. CASE ReplaceFirst
    BY <1>4, ReplaceFirstStep
  <1>5. CASE ReplaceSecond
    BY <1>5, ReplaceSecondStep
  <1>6. CASE RetainRecentJobs
    BY <1>6, RetainStep
  <1>7. CASE Crash
    BY <1>7, GoesDown DEF Crash
  <1>8. ASSUME NEW j \in Jobs, Enqueue(j) \/ Settle(j) \/ Rollback(j) \/ Delete(j)
        PROVE  LogInv'
    BY <1>8, EnqueueStep, SettleStep, RollbackStep, DeleteStep
  <1>9. CASE UNCHANGED vars
    <2>1. UNCHANGED <<files, now, written, scarred>>
      BY <1>9 DEF vars
    <2>2. FilesHold' /\ OpenEnds' /\ KeptSurvive'
      BY <2>1, FilesAlone
    <2>3. TypeOK' /\ RecordsKnown' /\ Compacting' /\ Serving'
      BY <1>9 DEF vars, LogInv, TypeOK, RecordsKnown, Compacting, Serving,
         Lines
    <2>4. Recovering'
      BY <1>9 DEF vars, LogInv, Recovering, Displaced, Lines
    <2> QED BY <2>2, <2>3, <2>4 DEF LogInv
  <1> QED BY <1>1, <1>2, <1>3, <1>4, <1>5, <1>6, <1>7, <1>8, <1>9 DEF Next, Startup

\* The invariant holds of every run of the process and its restarts, crashes
\* and cut appends included.
THEOREM LogInductive == Spec => []LogInv
  BY LogInit, LogStep, PTL DEF Spec

\* Every variable keeps its type.
THEOREM LogTypes == Spec => []TypeOK
  <1>1. LogInv => TypeOK
    BY DEF LogInv
  <1> QED BY <1>1, LogInductive, PTL

\* What has been written completely is found by the next start, up to the
\* records that MetadataLimit newer ones displaced; and only a cut append makes
\* the files unreadable.
THEOREM WrittenSurvives == Spec => []KeptSurvive
  <1>1. LogInv => KeptSurvive
    BY DEF LogInv
  <1> QED BY <1>1, LogInductive, PTL

------------------------------------------------------------------------------
(* The files implement DurableJobs *)

\* What a start would say of the job.
Status(fs, j) == IF Found(fs, j) = NoJob THEN "unknown" ELSE Found(fs, j).status
Durably(fs) == [j \in Jobs |-> Status(fs, j)]

StatusesKnown == Durably(files) \in [Jobs -> Durable!States]

LEMMA StatusKnown == LogInv => StatusesKnown
  BY FoundIsLine DEF LogInv, StatusesKnown, Durable!States, Durably, Status,
     Record

\* The abstract variables, by their names here.
LEMMA DurableNamed ==
  /\ Durable!Damage <=> Readable(files') = FALSE
                        /\ Durably(files') \in [Jobs -> Durable!States]
  /\ \A j, s : Durable!Become(j, s) <=>
                 /\ Durably(files') = [Durably(files) EXCEPT ![j] = s]
                 /\ Readable(files') = Readable(files)
  BY DEF Durable!Damage, Durable!Become, Durably, Status

\* An append is a damage, nothing, or a change of the one job.
LEMMA AppendRefines ==
  ASSUME LogInv, LogInv', NEW f \in Files, NEW rec \in Record, NEW how \in Outcome,
         AppendTo(f, rec, how), Readable(files),
         f = "submissions" => Found(files, rec.job) = NoJob
  PROVE  \/ Durable!Damage
         \/ Durably(files') = Durably(files) /\ Readable(files') = Readable(files)
         \/ Durable!Become(rec.job, rec.status)
  <1>1. CASE ~Readable(files')
    <2>1. StatusesKnown'
      BY StatusKnown, PTL
    <2>2. Readable(files') = FALSE
      BY <1>1 DEF Readable
    <2> QED BY <2>1, <2>2, DurableNamed DEF StatusesKnown, Durably, Status
  <1>2. CASE Readable(files')
    <2>1. \/ /\ rec.job \in Jobs
             /\ \A k \in Jobs : Found(files', k) = IF k = rec.job THEN rec
                                                                  ELSE Found(files, k)
          \/ \A k \in Jobs : Found(files', k) = Found(files, k)
      BY <1>2, AppendFound DEF LogInv
    <2>2. Readable(files') = Readable(files)
      BY <1>2 DEF Readable
    <2>3. rec # NoJob
      BY NoneAssumption
    <2>4. CASE \A k \in Jobs : Found(files', k) = Found(files, k)
      BY <2>2, <2>4 DEF Durably, Status
    <2>5. CASE /\ rec.job \in Jobs
               /\ \A k \in Jobs : Found(files', k) = IF k = rec.job THEN rec
                                                                    ELSE Found(files, k)
      <3>1. Durably(files') = [Durably(files) EXCEPT ![rec.job] = rec.status]
        <4> HIDE DEF Found
        <4> QED BY <2>3, <2>5 DEF Durably, Status
      <3> QED BY <2>2, <3>1, DurableNamed
    <2> QED BY <2>1, <2>4, <2>5
  <1> QED BY <1>1, <1>2

LEMMA DurableSteps ==
  ASSUME Readable(files), NEW j \in Jobs, NEW s, Durable!Become(j, s),
         \/ Durably(files)[j] = "unknown" /\ s = "queued"
         \/ Durably(files)[j] \in {"unknown", "queued"} /\ s \in Final
         \/ Durably(files)[j] \in Final /\ s = "deleted"
  PROVE  Durable!Next
  <1>1. Durably(files)[j] = Status(files, j)
    BY DEF Durably
  <1>2. Durable!Accept(j) \/ Durable!Settle(j) \/ Durable!Delete(j)
    BY <1>1 DEF Durable!Accept, Durable!Settle, Durable!Delete, Status
  <1> QED BY <1>2 DEF Durable!Next

\* What an append of a settled or a new job's record is to DurableJobs.
LEMMA AppendStepsDurable ==
  ASSUME LogInv, LogInv', NEW f \in Files, NEW rec \in Record, NEW how \in Outcome,
         AppendTo(f, rec, how), Readable(files),
         f = "submissions" => Found(files, rec.job) = NoJob,
         \/ rec.status = "queued" /\ Found(files, rec.job) = NoJob
         \/ rec.status \in Final /\ (Found(files, rec.job) # NoJob
                                       => Found(files, rec.job).status = "queued")
         \/ rec.status = "deleted" /\ Found(files, rec.job) # NoJob
              /\ Found(files, rec.job).status \in Final
  PROVE  \/ Durable!Next
         \/ Durably(files') = Durably(files) /\ Readable(files') = Readable(files)
  <1>1. CASE Durable!Damage
    BY <1>1 DEF Durable!Next
  <1>2. CASE Durable!Become(rec.job, rec.status)
    <2>1. rec.job \in Jobs /\ Durably(files)[rec.job] = Status(files, rec.job)
      BY DEF Durably, Record
    <2>2. \/ Durably(files)[rec.job] = "unknown" /\ rec.status = "queued"
          \/ Durably(files)[rec.job] \in {"unknown", "queued"} /\ rec.status \in Final
          \/ Durably(files)[rec.job] \in Final /\ rec.status = "deleted"
      BY <2>1 DEF Status
    <2> QED BY <1>2, <2>1, <2>2, DurableSteps
  <1> QED BY <1>1, <1>2, AppendRefines

\* Steps that change no file are no steps of DurableJobs.
LEMMA FilesStutter ==
  ASSUME UNCHANGED files
  PROVE  Durably(files') = Durably(files) /\ Readable(files') = Readable(files)
  BY DEF Durably, Status

LEMMA RunningRefines ==
  ASSUME LogInv, LogInv', Readable(files), NEW j \in Jobs,
         Enqueue(j) \/ Settle(j) \/ Rollback(j) \/ Delete(j)
  PROVE  \/ Durable!Next
         \/ Durably(files') = Durably(files) /\ Readable(files') = Readable(files)
  <1>1. /\ now \in Nat /\ map \in [Jobs -> Record \cup {NoJob}] /\ pc = "up"
        /\ "submissions" \in Files /\ "results" \in Files
    BY DEF LogInv, TypeOK, Files, Enqueue, Settle, Rollback, Delete, Running
  <1>2. CASE Enqueue(j)
    <2> DEFINE rec == Rec(j, "queued", now)
    <2>1. rec \in Record /\ rec.job = j /\ rec.status = "queued"
      BY <1>1, RecIs
    <2> HIDE DEF rec
    <2>2. map'[j] = rec
      BY <1>1, <1>2 DEF Enqueue, rec
    <2>3. PICK how \in Outcome : AppendTo("submissions", rec, how)
      BY <1>2, <2>2 DEF Enqueue
    <2>4. Found(files, j) = NoJob
      BY <1>2, KeptNamed DEF LogInv, Enqueue, Survives, Displaced, Load
    <2> QED BY <1>1, <2>1, <2>3, <2>4, AppendStepsDurable
  <1>3. CASE Settle(j) \/ Rollback(j)
    <2>1. map[j] # NoJob /\ map[j].status = "queued"
      BY <1>3 DEF Settle, Rollback
    <2>2. Found(files, j) # NoJob => Found(files, j).status = "queued"
      BY <1>1, <2>1 DEF LogInv, Serving
    <2>3. PICK s \in {"succeeded", "failed"}, how \in Outcome :
            AppendTo("results", Rec(j, s, now), how)
      BY <1>3 DEF Settle, Rollback
    <2> DEFINE rec == Rec(j, s, now)
    <2>4. rec \in Record /\ rec.job = j /\ rec.status \in Final
      BY <1>1, RecIs DEF Final
    <2>5. AppendTo("results", rec, how)
      BY <2>3
    <2> HIDE DEF rec
    <2> QED BY <1>1, <2>2, <2>4, <2>5, AppendStepsDurable
  <1>4. CASE Delete(j)
    <2> DEFINE rec == Rec(j, "deleted", now)
    <2>1. rec \in Record /\ rec.job = j /\ rec.status = "deleted" /\ rec.status \in Final
      BY <1>1, RecIs DEF Final
    <2> HIDE DEF rec
    <2>2. map'[j] = rec
      BY <1>1, <1>4 DEF Delete, rec
    <2>3. PICK how \in Outcome : AppendTo("results", rec, how)
      BY <1>4, <2>2 DEF Delete
    <2>4. Found(files, j) # NoJob => Found(files, j).status \in Final \cup {"queued"}
      BY FoundIsLine DEF LogInv, Record
    <2> QED BY <1>1, <2>1, <2>3, <2>4, AppendStepsDurable
  <1> QED BY <1>2, <1>3, <1>4

LEMMA StartupRefines ==
  ASSUME LogInv, LogInv', Readable(files), Startup
  PROVE  \/ Durable!Next
         \/ Durably(files') = Durably(files) /\ Readable(files') = Readable(files)
  <1>1. CASE UNCHANGED files
    BY <1>1, FilesStutter
  <1>2. CASE AppendRecovered
    <2>1. PICK j \in todo, how \in Outcome : AppendTo("results", map[j], how)
      BY <1>2 DEF AppendRecovered
    <2>2. pc = "recover" /\ j \in Jobs /\ map[j] # NoJob
      BY <1>2 DEF AppendRecovered, LogInv, Recovering, TypeOK
    <2>3. /\ map[j] \in Record /\ map[j].job = j /\ map[j].status \in Final
          /\ Found(files, j).status = "queued"
      BY <2>2 DEF LogInv, TypeOK, Recovering, RecordsKnown
    <2> DEFINE rec == map[j]
    <2>4. AppendTo("results", rec, how) /\ rec \in Record /\ rec.job = j
          /\ rec.status \in Final /\ "results" \in Files
      BY <2>1, <2>3 DEF Files
    <2> HIDE DEF rec
    <2> QED BY <2>3, <2>4, AppendStepsDurable
  <1>3. CASE pc = "submissions" /\ Replace(FileOrder[1], KeptIn(FileOrder[1]))
    <2>1. /\ Readable(files') <=> Readable(files)
          /\ \A j \in Jobs : Found(files', j) = Found(files, j)
      BY <1>3, ReplaceFirstEffect
    <2>2. Readable(files') = Readable(files)
      BY <2>1 DEF Readable
    <2> QED BY <2>1, <2>2 DEF Durably, Status
  <1>4. CASE pc = "results" /\ Replace(FileOrder[2], KeptIn(FileOrder[2]))
    <2>1. /\ Readable(files')
          /\ \A j \in Jobs : Found(files', j) = IF j \in kept THEN map[j] ELSE NoJob
      BY <1>4, ReplaceSecondEffect
    <2>2. \A j \in Jobs : Found(files, j) = map[j]
      BY <1>4 DEF LogInv, Recovering, Compacting
    <2>3. \A j \in Jobs : map[j] # NoJob => map[j].status \in Final
      BY <1>4 DEF LogInv, Recovering
    <2> DEFINE gone == {j \in Jobs : j \notin kept /\ Durably(files)[j] \in Final}
    <2>4. gone \in SUBSET {j \in Jobs : Durably(files)[j] \in Final}
      OBVIOUS
    <2>5. Durably(files') = [j \in Jobs |-> IF j \in gone THEN "unknown"
                                                         ELSE Durably(files)[j]]
      BY <2>1, <2>2, <2>3 DEF Durably, Status
    <2>6. Readable(files') = Readable(files)
      BY <2>1 DEF Readable
    <2> HIDE DEF gone
    <2>7. Durable!Forget
      BY <2>4, <2>5, <2>6 DEF Durable!Forget, Durably, Status
    <2> QED BY <2>7 DEF Durable!Next
  <1> QED BY <1>1, <1>2, <1>3, <1>4
          DEF Startup, LoadJobs, Compact, ReplaceFirst, ReplaceSecond, RetainRecentJobs

LEMMA InitRefines ==
  ASSUME Init
  PROVE  Durable!Init
  <1>1. \A f \in Files : files[f].lines = <<>>
    BY DEF Init
  <1>2. \A j \in Jobs : Found(files, j) = NoJob
    BY <1>1 DEF Found, LastOf, LinesOf, Files
  <1>3. Readable(files) = TRUE
    BY <1>1 DEF Readable
  <1> QED BY <1>2, <1>3 DEF Durable!Init

LEMMA StepRefines ==
  ASSUME LogInv, LogInv', [Next]_vars
  PROVE  \/ Durable!Next \/ ~Readable(files)
         \/ Durably(files') = Durably(files) /\ Readable(files') = Readable(files)
  <1> SUFFICES ASSUME Readable(files)
               PROVE  \/ Durable!Next
                      \/ Durably(files') = Durably(files)
                         /\ Readable(files') = Readable(files)
    OBVIOUS
  <1>1. CASE Startup
    BY <1>1, StartupRefines
  <1>2. CASE Crash \/ UNCHANGED vars
    BY <1>2, FilesStutter DEF Crash, vars
  <1>3. ASSUME NEW j \in Jobs, Enqueue(j) \/ Settle(j) \/ Rollback(j) \/ Delete(j)
        PROVE  \/ Durable!Next
               \/ Durably(files') = Durably(files) /\ Readable(files') = Readable(files)
    BY <1>3, RunningRefines
  <1> QED BY <1>1, <1>2, <1>3 DEF Next

\* The two files are one durable record of the jobs: a job found at a start is
\* found at the next one as it was, or changed by a step DurableJobs allows,
\* through crashes, recoveries and compactions, until a damage is noticed.
THEOREM FilesAreDurable == Spec => ImplementsDurable
  <1>1. Init => Durable!Init
    BY InitRefines
  <1>2. LogInv /\ LogInv' /\ [Next]_vars =>
          [Durable!Next \/ ~Readable(files)]_<<Durably(files), Readable(files)>>
    BY StepRefines DEF Durably, Status
  <1>3. Spec => []LogInv
    BY LogInductive
  <1>4. Spec => Durable!Spec
    BY <1>1, <1>2, <1>3, PTL DEF Spec, Durable!Spec, Durably, Status
  <1> QED BY <1>4 DEF ImplementsDurable
=====
