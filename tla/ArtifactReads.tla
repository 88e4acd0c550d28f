--------------------------- MODULE ArtifactReads ---------------------------
(***************************************************************************)
(* Reading the files of a finished job: the media with byte ranges, the    *)
(* info.json, both in one tar archive, and their checksums, by GET or by   *)
(* HEAD.  A read opens, measures or hashes the files one after the other,  *)
(* with an await at each, while the job may be deleted under it.           *)
(***************************************************************************)
EXTENDS Naturals, Sequences, FiniteSets

CONSTANTS
  MediaSizes, InfoSizes,  \* sizes of the two files, in bytes
  Numbers,                \* numbers in a Range header
  NotANumber,             \* a bound that is no u64
  NoBound,                \* a bound left out
  Block,                  \* 512, the block of the tar format
  SizeField,              \* 8^11, the sizes a header has room for
  NoRead

VARIABLES
  size,      \* of the two files, written before the job finishes
  fits,      \* the file names are at most 100 bytes long
  inside,    \* the recorded paths lie in config.downloads_dir
  job,       \* where the job is
  disk,      \* the files in its directory
  removing,  \* delete_job_artifacts is at work
  read,      \* the request being served
  answer     \* the last answer

ASSUME ArtifactsAssumption ==
  /\ MediaSizes \subseteq Nat /\ InfoSizes \subseteq Nat /\ Block \in Nat \ {0}
  /\ Numbers \subseteq Nat /\ NoBound \notin Numbers
  /\ NotANumber \notin Numbers \cup {NoBound}

artifacts == <<size, fits, inside, job, disk, removing, read, answer>>

Files == {"media", "info"}
Bound == Numbers \cup {NotANumber, NoBound}
RangeHeader ==
  [form : {"pair"}, first : Bound, last : Bound]
    \cup [form : {"none", "unit", "several", "nodash"}, first : {NoBound}, last : {NoBound}]
ReadRequests == [what : {"media", "info", "archive"}, head : BOOLEAN, range : RangeHeader,
             current : BOOLEAN]   \* If-None-Match names the present ETag
             \cup [what : {"artifacts"}, head : {FALSE}, current : {FALSE},
                   range : {[form |-> "none", first |-> NoBound, last |-> NoBound]}]

------------------------------------------------------------------------------
(* Byte ranges *)

Whole == [status |-> 200, first |-> 0, last |-> 0]
Refused(status) == [status |-> status, first |-> 0, last |-> 0]
Part(first, last) == [status |-> 206, first |-> first, last |-> last]
Smaller(a, b) == IF a < b THEN a ELSE b

\* Mutant: a suffix longer than the file is refused.
StrictSuffix(n, len) == IF n \notin Numbers THEN Refused(400)
                        ELSE IF n = 0 \/ n > len THEN Refused(416)
                        ELSE Part(len - n, len - 1)
\* suffix_byte_range.
SuffixRange(n, len) == IF n \notin Numbers THEN Refused(400)
                       ELSE IF n = 0 THEN Refused(416)
                       ELSE Part(len - Smaller(n, len), len - 1)
\* explicit_byte_range, and the checks of parse_byte_range that follow.
ExplicitRange(first, last, len) ==
  LET end == IF last = NoBound THEN len - 1 ELSE last
  IN  IF first \notin Numbers \/ last = NotANumber THEN Refused(400)
      ELSE IF first > end \/ first >= len THEN Refused(416)
      ELSE Part(first, Smaller(end, len - 1))

\* parse_range_header.
ParseRange(h, len) ==
  CASE h.form = "none" -> Whole
    [] h.form \in {"unit", "several"} -> Refused(400)
    [] h.form \in {"nodash", "pair"} /\ len = 0 -> Refused(416)
    [] h.form = "nodash" /\ len > 0 -> Refused(400)
    [] h.form = "pair" /\ len > 0 ->
         IF h.first = NoBound THEN SuffixRange(h.last, len)
         ELSE ExplicitRange(h.first, h.last, len)

------------------------------------------------------------------------------
(* The archive *)

Cell(part, file, at) == [part |-> part, file |-> file, at |-> at]
Zeros(n) == [i \in 1 .. n |-> Cell("zero", "none", 0)]
Content(f) == [i \in 1 .. size[f] |-> Cell("data", f, i)]
TarHeader(f) == [i \in 1 .. Block |-> Cell("header", f, i)]

\* tar_padding_len.
Padding(len) == IF len % Block = 0 THEN 0 ELSE Block - (len % Block)

TarEntry(f) == TarHeader(f) \o Content(f) \o Zeros(Padding(size[f]))
\* build_tar_archive.
Tar == TarEntry("media") \o TarEntry("info") \o Zeros(2 * Block)
\* tar_archive_len, computed without the contents.
TarLen == 2 * Block + Block + size["media"] + Padding(size["media"])
                    + Block + size["info"] + Padding(size["info"])
\* tar_header finds room for the name and the size.
HasHeader(f) == (f = "media" => fits) /\ size[f] < SizeField

Bytes(what) == IF what = "archive" THEN Tar ELSE Content(what)
LenOf(what) == IF what = "archive" THEN TarLen ELSE size[what]

------------------------------------------------------------------------------
(* Reading *)

\* The files a request touches, in order, and what for.
Plan(r) ==
  CASE r.what = "media" -> << <<"media", "open">>, <<"media", "hash">> >>
    [] r.what = "info" /\ r.head -> << <<"info", "len">>, <<"info", "hash">> >>
    [] r.what = "info" /\ ~r.head -> << <<"info", "hash">>, <<"info", "load">> >>
    [] r.what = "archive" ->
         << <<"media", "tar">>, <<"info", "tar">>, <<"media", "len">>, <<"info", "len">> >>
           \o (IF r.head \/ ParseRange(r.range, TarLen).status \notin {200, 206} THEN <<>>
               ELSE << <<"media", "load">>, <<"info", "load">> >>)
    [] r.what = "artifacts" ->
         << <<"media", "hash">>, <<"info", "hash">>, <<"media", "len">>, <<"info", "len">>,
            <<"media", "tar">>, <<"info", "tar">> >>

Reply(r, status, length, body) ==
  [request |-> r, status |-> status, length |-> length, body |-> body]
Nothing(r, status) == Reply(r, status, 0, <<>>)
Slice(bytes, range) == SubSeq(bytes, range.first + 1, range.last + 1)

AnnouncedLength(r, range) ==
  IF range.status = 206 THEN range.last - range.first + 1 ELSE LenOf(r.what)

\* full_artifact_response and partial_artifact_response; a part of the
\* info.json is never served.
Serve(r) ==
  LET range == IF r.what = "info" THEN Whole ELSE ParseRange(r.range, LenOf(r.what))
  IN  Reply(r, range.status, AnnouncedLength(r, range),
            IF r.head THEN <<>>
            ELSE IF range.status = 206 THEN Slice(Bytes(r.what), range) ELSE Bytes(r.what))
Final(r) == IF r.what = "artifacts" THEN Reply(r, 200, TarLen, <<>>) ELSE Serve(r)

\* The answer a step gives before the last one, 0 for none.
RangeError(r) == LET s == ParseRange(r.range, LenOf(r.what)).status
                 IN  IF s \in {400, 416} THEN s ELSE 0
Verdict(r, step) ==
  CASE step[2] = "open" -> RangeError(r)
    [] step[2] = "hash" -> IF r.current THEN 304 ELSE 0
    [] step[2] = "tar" -> IF ~HasHeader(step[1]) THEN 500
                          ELSE IF step[1] = "info" /\ r.current THEN 304 ELSE 0
    [] step[2] = "len" -> IF r.what = "artifacts" /\ ~fits /\ step[1] = "info" THEN 500
                          ELSE IF r.what = "archive" /\ step[1] = "info" THEN RangeError(r)
                          ELSE 0
    [] step[2] = "load" -> 0

\* job_download_metadata and ensure_download_path, for a reader without a read.
Ask(r) ==
  /\ IF job = "none" THEN answer' = Nothing(r, 404) /\ UNCHANGED read
     ELSE IF job # "succeeded" THEN answer' = Nothing(r, 409) /\ UNCHANGED read
     ELSE IF ~inside THEN answer' = Nothing(r, 500) /\ UNCHANGED read
     ELSE read' = [request |-> r, plan |-> Plan(r)] /\ UNCHANGED answer
  /\ UNCHANGED <<size, fits, inside, job, disk, removing>>

\* One file is opened, measured, hashed or loaded.  An opened file can be read
\* to its end whatever becomes of its name.
Touch ==
  /\ read # NoRead
  /\ LET step == Head(read.plan)
         r == read.request
         Done(a) == answer' = a /\ read' = NoRead
     IN  IF step[1] \notin disk THEN Done(Nothing(r, 404))
         ELSE IF Verdict(r, step) # 0 THEN Done(Nothing(r, Verdict(r, step)))
         ELSE IF Len(read.plan) = 1 THEN Done(Final(r))
         ELSE read' = [read EXCEPT !.plan = Tail(@)] /\ UNCHANGED answer
  /\ UNCHANGED <<size, fits, inside, job, disk, removing>>

Deliver ==
  /\ answer # NoRead /\ answer' = NoRead
  /\ UNCHANGED <<size, fits, inside, job, disk, removing, read>>

------------------------------------------------------------------------------
(* The job *)

ArtifactsInit ==
  /\ size \in [media : MediaSizes, info : InfoSizes] /\ fits \in BOOLEAN
  /\ inside \in BOOLEAN /\ job = "none" /\ disk = {} /\ removing = FALSE
  /\ read = NoRead /\ answer = NoRead

AcceptJob ==
  /\ job = "none" /\ job' = "running"
  /\ UNCHANGED <<size, fits, inside, disk, removing, read, answer>>

\* The files are complete before the record says so.
CompleteJob ==
  /\ job = "running" /\ job' = "succeeded" /\ disk' = Files
  /\ UNCHANGED <<size, fits, inside, removing, read, answer>>

\* delete_job_record: the directory goes file by file, then the record follows.
StartRemoval ==
  /\ job = "succeeded" /\ inside /\ ~removing /\ removing' = TRUE
  /\ UNCHANGED <<size, fits, inside, job, disk, read, answer>>
RemoveFile(f) ==
  /\ removing /\ f \in disk /\ disk' = disk \ {f}
  /\ UNCHANGED <<size, fits, inside, job, removing, read, answer>>
EndRemoval ==
  /\ removing /\ disk = {} /\ job' = "deleted" /\ removing' = FALSE
  /\ UNCHANGED <<size, fits, inside, disk, read, answer>>

ArtifactsNext ==
  \/ read = NoRead /\ answer = NoRead /\ (\E r \in ReadRequests : Ask(r))
  \/ Touch \/ Deliver
  \/ AcceptJob \/ CompleteJob \/ StartRemoval \/ (\E f \in Files : RemoveFile(f)) \/ EndRemoval
ArtifactsSpec == ArtifactsInit /\ [][ArtifactsNext]_artifacts

------------------------------------------------------------------------------
(* Properties *)

\* Types of the variables.
ArtifactsTypeOK ==
  /\ size \in [media : MediaSizes, info : InfoSizes] /\ fits \in BOOLEAN /\ inside \in BOOLEAN
  /\ job \in {"none", "running", "succeeded", "deleted"} /\ disk \subseteq Files
  /\ removing \in BOOLEAN
  /\ read # NoRead => read.request \in ReadRequests /\ read.plan # <<>>
  /\ answer # NoRead => answer.status \in {200, 206, 304, 400, 404, 409, 416, 500}

\* A reader of the tar format that trusts the sizes in the headers.
IsTar(bytes) ==
  LET second == CHOOSE n \in 0 .. Len(bytes) :
                  n % Block = 0 /\ n >= Block + size["media"] /\ n < 2 * Block + size["media"]
      end == second + Block + size["info"]
      Zero(a, b) == \A i \in a .. b : bytes[i].part = "zero"
  IN  /\ Len(bytes) % Block = 0 /\ Len(bytes) >= end + 2 * Block
      /\ SubSeq(bytes, 1, Block + size["media"]) = TarHeader("media") \o Content("media")
      /\ Zero(Block + size["media"] + 1, second)
      /\ SubSeq(bytes, second + 1, end) = TarHeader("info") \o Content("info")
      /\ Zero(end + 1, Len(bytes))

\* The positions of a file, counted from 0, that a Range header asks for.
Selected(h, len) ==
  {i \in 0 .. (len - 1) :
     CASE h.form # "pair" -> TRUE
       [] h.form = "pair" /\ h.first = NoBound -> i + h.last >= len
       [] h.form = "pair" /\ h.first # NoBound ->
            i >= h.first /\ (h.last = NoBound \/ i <= h.last)}

\* What a read returns is what the files hold: exactly the bytes asked for, no
\* byte of a file that is being removed missing, as many as the length says,
\* or the length alone for a HEAD; 416 only when no byte was asked for; and an
\* archive is one that a tar reader gets both files out of.
AnswersExact ==
  answer # NoRead =>
    LET r == answer.request
        wanted == Selected(r.range, LenOf(r.what))
    IN  /\ answer.status \in {200, 206} /\ r.what # "artifacts" =>
             /\ answer.length =
                  IF answer.status = 206 THEN Cardinality(wanted) ELSE Len(Bytes(r.what))
             /\ r.head => answer.body = <<>>
             /\ ~r.head /\ answer.status = 200 => answer.body = Bytes(r.what)
             /\ ~r.head /\ answer.status = 206 =>
                  /\ Len(answer.body) = answer.length
                  /\ \A i \in wanted : \E k \in DOMAIN answer.body :
                       answer.body[k] = Bytes(r.what)[i + 1]
             /\ answer.status = 206 => r.range.form = "pair" /\ wanted # {}
             /\ r.what = "archive" /\ answer.body = Tar => IsTar(answer.body)
        /\ answer.status = 416 /\ r.range.form = "pair" =>
             \/ wanted = {} \/ LenOf(r.what) = 0
        /\ answer.status = 200 /\ r.what = "artifacts" => answer.length = Len(Tar)
=============================================================================
