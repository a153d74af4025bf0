------------------------------ MODULE JobFiles ------------------------------
(***************************************************************************)
(* The tools that read a job's files over HTTP while the job may still be  *)
(* running: get_job_log, get_job_log_errors, list_job_log_members,         *)
(* list_job_logs and get_step_needles, with the probe, the ranged request  *)
(* and its retry of artifact.rs.                                           *)
(*                                                                         *)
(* A file is bytes 1..size.  Of a byte the model knows whether it ends a   *)
(* line and whether it continues a character; of a line its class          *)
(* (LogText).  openQA is external: its log grows at any moment between two *)
(* requests, and its ETag and Last-Modified may or may not move with it.   *)
(***************************************************************************)
EXTENDS Integers, LogText, JobDetails

CONSTANTS Jobs,          \* what openQA holds (see JobAssumption)
          Asks,          \* the calls that are made
          MaxSize,       \* bound on the growing log
          BytesPerLine,  \* TAIL_BYTES_PER_LINE
          MinWindow,     \* MIN_TAIL_WINDOW_BYTES
          MaxArtifact,   \* MAX_ARTIFACT_BYTES
          MaxMembers,    \* MAX_ARCHIVE_MEMBERS
          MaxHits,       \* DIGEST_MAX_HITS
          TailLines,     \* DIGEST_TAIL_LINES
          MaxFrames      \* DIGEST_MAX_STACK_FRAMES

Context == 1             \* DIGEST_CONTEXT_LINES
All == 0 - 1             \* no tail_lines
Formats == {"plain", "binary", "tar", "gzip", "tgz"}

ASSUME LimitAssumption ==
  {MaxSize, BytesPerLine, MinWindow, MaxArtifact, MaxMembers, MaxHits, TailLines, MaxFrames}
    \subseteq Nat
ASSUME JobAssumption ==
  \A j \in Jobs :
    /\ j.format \in Formats /\ j.size \in 0..MaxSize
    /\ j.ends \subseteq 1..MaxSize /\ j.splits \subseteq (2..MaxSize) \ j.ends
    /\ {j.ranged, j.sized, j.stamped} \subseteq BOOLEAN
    /\ j.classes \in Seq(Classes) /\ j.serial \in Seq(Classes)
ASSUME AskAssumption ==
  \A a \in Asks :
    /\ a.tool \in {"get_job_log", "get_job_log_errors", "list_job_log_members",
                   "list_job_logs", "get_step_needles"}
    /\ a.ceiling \in 0..MaxArtifact /\ a.tail \in Nat \cup {All}
    /\ a.grep \in {"none", "invalid", "noise"} /\ {a.member, a.markers, a.filename} \subseteq BOOLEAN
    /\ a.candidates \in Nat

(* A step's candidates are known by their score and the rank of their name *)
(* (area and name of a needles entry).                                     *)
ASSUME NeedleAssumption ==
  \A j \in Jobs, a \in Asks : \A s \in Range(FindStep(j.details, a.module, a.step)) :
    /\ s.matched \in Seq(Range(s.matched)) /\ s.needles \in Seq(Range(s.needles))
    /\ \A n \in Range(s.needles) : n.score \in Int /\ n.rank \in Int
    /\ \A n, m \in Range(s.needles) : n.score = m.score /\ n.rank = m.rank => n = m

(* openQA shows the files of /details on the downloads page, if it shows   *)
(* any: the uploaded ones, and none of the others, below the heading.      *)
Shown(page, below) ==
  {page[i] : i \in {l \in DOMAIN page :
                     /\ page[l] \notin {"Uploaded logs", "another job's"}
                     /\ below <=> \E h \in 1..l - 1 : page[h] = "Uploaded logs"}}
ASSUME PageAssumption ==
  \A j \in Jobs :
    /\ j.page \in Seq(Range(j.page))
    /\ j.details.logs \in Seq(Range(j.details.logs))
    /\ j.details.ulogs \in Seq(Range(j.details.ulogs))
    /\ Range(j.details.logs) \cap Range(j.details.ulogs) = {}
    /\ Shown(j.page, TRUE) \cup Shown(j.page, FALSE) # {} =>
         /\ Shown(j.page, FALSE) = Range(j.details.logs)
         /\ Shown(j.page, TRUE) = Range(j.details.ulogs)

VARIABLES
  job,       \* what openQA holds, apart from the growing log
  size,      \* the log's size now
  stamp,     \* its ETag and Last-Modified
  pc,        \* the request the tool is at
  ask,       \* the call
  probe,     \* what the first request told: size, stamp and whether it was all
  known,     \* the job's /details, as a sequence of at most one
  images,    \* get_step_needles: the candidates looked at so far
  answer     \* the reply

vars == <<job, size, stamp, pc, ask, probe, known, images, answer>>

NoProbe == [size |-> 0, sized |-> FALSE, stamp |-> 0, at |-> 0]
NoAnswer == [kind |-> "none"]

Init ==
  /\ job \in Jobs /\ size = job.size /\ stamp = 0
  /\ ask \in Asks
  /\ pc = CASE ask.tool = "list_job_logs" -> "downloads"
            [] ask.tool \in {"get_job_log_errors", "get_step_needles"} -> "details"
            [] OTHER -> "probe"
  /\ probe = NoProbe /\ known = <<>> /\ images = <<>> /\ answer = NoAnswer

(* openQA appends to the log; a clock of whole seconds may hide it.        *)
Grow ==
  /\ pc # "done"
  /\ \E n \in 1..2 : size + n <= MaxSize /\ size' = size + n
  /\ stamp' \in {stamp, stamp + 1}
  /\ UNCHANGED <<job, pc, ask, probe, known, images, answer>>

-----------------------------------------------------------------------------
(* The lines of the log and of a part of it, from (exclusive) to           *)
(* (inclusive).                                                            *)
LineAt(p) == 1 + Cardinality({q \in job.ends : q < p})
Lines(from, to) == IF from = to THEN {} ELSE LineAt(from + 1)..LineAt(to)
Readable(from, to) ==
  job.format # "binary" /\ (to > from => {from + 1, to + 1} \cap job.splits = {})

(* drop_partial_first_line                                                 *)
DropPartialFirstLine(from, to) ==
  LET ends == {q \in job.ends : from < q /\ q <= to}
  IN IF ends = {} THEN {} ELSE Lines(Min(ends), to)

Text(lines) == [i \in 1..Cardinality(lines) |-> job.classes[Min(lines) + i - 1]]

Reply(a) == answer' = a /\ pc' = "done" /\ UNCHANGED <<probe, known, images>>
Bail(kind) == Reply([kind |-> kind])

(* slice: the text, or its matches, numbered from the text's own start.    *)
Slice(lines, bytes, total, moved) ==
  LET kept == IF ask.tail = All \/ lines = {} THEN lines
              ELSE LastLines(Min(lines), Max(lines), ask.tail)
  IN CASE ask.grep = "none" ->
            Reply([kind |-> "text", lines |-> kept, bytes |-> bytes, size |-> total,
                   moved |-> moved])
       [] ask.grep = "invalid" -> Bail("invalid_params")
       [] ask.grep = "noise" ->
            Reply([kind |-> "matches", of |-> kept,
                   grep |-> GrepLines(Text(kept), NoiseMarkers, Context, MaxHits)])

-----------------------------------------------------------------------------
(* A request openQA or the network fails, and a redirect to a login page   *)
(* (execute, check_not_bounced, status_failure).                           *)
Failures == {"connection", "unauthorized", "not_found"}

(* The size a reply names: the probe's, the whole body's, or what was read *)
(* when the server told none.                                              *)
TotalSize(bytes) ==
  IF ~job.ranged THEN size ELSE IF probe.sized THEN probe.size ELSE bytes

(* tar_members, extract_tar_member and CappedWriter.  A gzip unpacks to    *)
(* twice its size; a cut archive may be unreadable.                        *)
Unpacked(bytes) == IF job.format \in {"gzip", "tgz"} THEN 2 * bytes ELSE bytes
IsTar == job.format \in {"tar", "tgz"}

Extracted(bytes) ==
  CASE ~IsTar /\ ask.member -> \E kind \in {"invalid_response", "invalid_params"} : Bail(kind)
    [] IsTar /\ ~ask.member -> Bail("invalid_params")
    [] OTHER ->
         \/ ask.member /\ Bail("invalid_params")
         \/ IF ~Readable(0, size) THEN Bail("unsupported_media")
            ELSE Slice(Lines(0, size), bytes, Greatest(TotalSize(bytes), bytes), FALSE)
Members(bytes) ==
  IF IsTar THEN Reply([kind |-> "members", count |-> Least(bytes, MaxMembers),
                       truncated |-> bytes > MaxMembers, bytes |-> bytes])
  ELSE Bail("invalid_response")

-----------------------------------------------------------------------------
(* get_job_log_errors: the tier a text falls in, its hits, and where the   *)
(* test died.                                                              *)
DigestReply(tier, text, scan, location) ==
  Reply([kind |-> "digest", tier |-> tier, text |-> text, scan |-> scan, location |-> location,
         modules |-> IF known = <<>> THEN <<>> ELSE FailedModules(known[1])])
Nowhere == [step |-> 0, stack |-> {}]

Digest(text) ==
  LET died  == ScanMarkers(text, FatalMarkers, Context, MaxHits)
      noise == ScanMarkers(text, NoiseMarkers, Context, MaxHits)
  IN CASE ask.markers -> DigestReply("custom", text, noise, Nowhere)
       [] ~ask.markers /\ died.count > 0 ->
            DigestReply("test_died", text, died,
                        DiedContext(text, Min(Matching(text, FatalMarkers)), MaxFrames))
       [] ~ask.markers /\ died.count = 0 /\ noise.count > 0 ->
            DigestReply("generic", text, noise, Nowhere)
       [] OTHER -> DigestReply("tail", text, TailHits(text, TailLines), Nowhere)

(* What each tool does with a whole file.                                  *)
UseWhole(bytes) ==
  CASE ask.tool = "list_job_log_members" -> Members(bytes)
    [] ask.tool = "get_job_log_errors" ->
         IF IsTar THEN Bail("invalid_params") ELSE Digest(Text(Lines(0, size)))
    [] OTHER -> Extracted(bytes)

(* Mutant. *)
DecompressUnbounded ==         \* CappedWriter without its limit
  \/ job.format \notin {"plain", "binary"} /\ Bail("invalid_response")
  \/ UseWhole(Unpacked(size))

Decompress ==
  \/ job.format \notin {"plain", "binary"} /\ Bail("invalid_response")
  \/ IF Unpacked(size) > ask.ceiling THEN Bail("response_too_large")
     ELSE UseWhole(Unpacked(size))

NeedsFullDecode == ask.member \/ job.format \notin {"plain", "binary"}
WholeFile ==
  IF size > ask.ceiling THEN Bail("response_too_large")
  ELSE IF ask.tool = "get_job_log" /\ ~NeedsFullDecode
       THEN IF Readable(0, size)
            THEN Slice(Lines(0, size), size,
                       TotalSize(size), FALSE)
            ELSE Bail("unsupported_media")
       ELSE Decompress

(* probe: all of the file in one answer, or its head and perhaps its size. *)
ProbeWhole ==
  /\ pc = "probe" /\ ~job.ranged
  /\ WholeFile
  /\ UNCHANGED <<job, size, stamp, ask>>
ProbeHead ==
  /\ pc = "probe" /\ job.ranged
  /\ probe' = [size |-> IF job.sized THEN size ELSE 0, sized |-> job.sized, stamp |-> stamp,
               at |-> size]
  /\ pc' = IF ask.tool = "get_job_log" /\ ~NeedsFullDecode /\ ask.tail # All
           THEN "tail" ELSE "whole"
  /\ UNCHANGED <<job, size, stamp, ask, known, images, answer>>
FetchAll == pc = "whole" /\ WholeFile /\ UNCHANGED <<job, size, stamp, ask>>

(* tail_window and the start of the absolute range fetch_tail asks for.    *)
TailWindow ==
  LET wanted == Least(Greatest(ask.tail * BytesPerLine, MinWindow), ask.ceiling)
  IN IF probe.sized THEN Least(wanted, probe.size) ELSE wanted
Start == IF probe.sized THEN Greatest(probe.size, TailWindow) - TailWindow ELSE 0
Changed == job.stamped /\ stamp # probe.stamp

TailText(moved) ==
  CASE Start >= size -> Bail("not_found")
    [] Start < size /\ size - Start > ask.ceiling -> Bail("response_too_large")
    [] Start < size /\ size - Start <= ask.ceiling /\ ~Readable(Start, size) ->
         Bail("unsupported_media")
    [] OTHER ->
         Slice(DropPartialFirstLine(Start, size), size - Start,
               TotalSize(size - Start), moved)

(* Mutant. *)
RetryTailBlind ==              \* the second answer is taken as it is
  /\ pc = "retry" /\ TailText(FALSE)
  /\ UNCHANGED <<job, size, stamp, ask>>

(* fetch_tail: an answer whose validators moved is thrown away once.       *)
FetchTail ==
  /\ pc = "tail"
  /\ IF Changed THEN pc' = "retry" /\ UNCHANGED <<probe, known, images, answer>>
     ELSE TailText(FALSE)
  /\ UNCHANGED <<job, size, stamp, ask>>
RetryTail ==
  /\ pc = "retry" /\ TailText(Changed)
  /\ UNCHANGED <<job, size, stamp, ask>>
FetchFails ==
  /\ pc \in {"probe", "whole", "tail", "retry"}
  /\ \E kind \in Failures : Bail(kind)
  /\ UNCHANGED <<job, size, stamp, ask>>

-----------------------------------------------------------------------------
(* get_job_log_errors before the log itself: /details, which may fail, and *)
(* the serial terminal's log, which is taken as finished.                  *)
AfterDetails(details) ==
  IF ~ask.markers /\ ~ask.filename /\ details # <<>> /\ HasLog(details[1], "serial_terminal.txt")
  THEN "serial" ELSE "probe"

DigestDetails ==
  /\ pc = "details" /\ ask.tool = "get_job_log_errors"
  /\ known' \in {<<>>, <<job.details>>}
  /\ pc' = AfterDetails(known')
  /\ UNCHANGED <<job, size, stamp, ask, probe, images, answer>>

Serial ==
  /\ pc = "serial"
  /\ LET scan == ScanMarkers(job.serial, TapMarkers, Context, MaxHits)
     IN \/ scan.count > 0 /\ DigestReply("tap", job.serial, scan, Nowhere)
        \/ scan.count = 0 /\ pc' = "probe" /\ UNCHANGED <<probe, known, images, answer>>
        \/ \E kind \in Failures : Bail(kind)
  /\ UNCHANGED <<job, size, stamp, ask>>

(* get_step_needles: the step, its screenshot, then the candidates up to   *)
(* max_candidates, whose failures are kept beside their names.             *)
StepOf == FindStep(job.details, ask.module, ask.step)
HasScreenshot == \E s \in Range(StepOf) : s.screenshot
StepNeedles == NeedleStep(job.details, StepOf[1])

NeedleDetails ==
  /\ pc = "details" /\ ask.tool = "get_step_needles"
  /\ \/ \E kind \in Failures : Bail(kind)
     \/ ~HasScreenshot /\ Bail("not_found")
     \/ /\ HasScreenshot
        /\ pc' = "screenshot" /\ UNCHANGED <<probe, known, images, answer>>
  /\ UNCHANGED <<job, size, stamp, ask>>

(* What is left to fetch decides whether the reply is due.                 *)
NeedleReply(looked) ==
  IF Len(looked) = Least(ask.candidates, Len(StepNeedles))
  THEN /\ pc' = "done" /\ answer' = [kind |-> "needles", list |-> StepNeedles, looked |-> looked]
       /\ UNCHANGED <<probe, known>>
  ELSE pc' = "needle" /\ UNCHANGED <<probe, known, answer>>
Screenshot ==
  /\ pc = "screenshot"
  /\ \/ \E kind \in Failures \cup {"unsupported_media", "response_too_large"} : Bail(kind)
     \/ images' = <<>> /\ NeedleReply(<<>>)
  /\ UNCHANGED <<job, size, stamp, ask>>

Needle ==
  /\ pc = "needle"
  /\ LET candidate == StepNeedles[Len(images) + 1]
     IN \E found \in {"image", "error"} :
          /\ ~candidate.path => found = "error"
          /\ images' = Append(images, found)
          /\ NeedleReply(images')
  /\ UNCHANGED <<job, size, stamp, ask>>

(* list_job_logs: the downloads page, else /details.                       *)
Downloads ==
  /\ pc = "downloads"
  /\ \/ /\ ParseDownloads(job.page) # <<>>
        /\ Reply([kind |-> "files", source |-> "downloads_ajax", files |-> ParseDownloads(job.page)])
     \/ pc' = "listing" /\ UNCHANGED <<probe, known, images, answer>>
  /\ UNCHANGED <<job, size, stamp, ask>>
Listing ==
  /\ pc = "listing"
  /\ \/ Reply([kind |-> "files", source |-> "details", files |-> DetailsLogs(job.details)])
     \/ \E kind \in Failures : Bail(kind)
  /\ UNCHANGED <<job, size, stamp, ask>>

Next ==
  \/ Grow
  \/ ProbeWhole \/ ProbeHead \/ FetchAll \/ FetchTail \/ RetryTail \/ FetchFails
  \/ DigestDetails \/ Serial
  \/ NeedleDetails \/ Screenshot \/ Needle
  \/ Downloads \/ Listing

Spec == Init /\ [][Next]_vars

-----------------------------------------------------------------------------
TypeOK ==
  /\ size \in 0..MaxSize /\ stamp \in 0..MaxSize
  /\ pc \in {"probe", "whole", "tail", "retry", "details", "serial", "screenshot", "needle",
             "downloads", "listing", "done"}
  /\ (pc = "done") <=> (answer.kind # "none")
  /\ answer.kind = "matches" =>
       Range(answer.grep.hits) \subseteq 1..Cardinality(answer.of)

(* A tail read from a growing log is a run of whole lines that ends with   *)
(* the log's last line as it was when it was read, no shorter than asked   *)
(* unless the window was; and a log that grew since the probe is reported  *)
(* as changed unless its validators hid it (tail_window, fetch_tail,       *)
(* drop_partial_first_line, last_n_lines).                                 *)
LineStart(l) == 1 + Max({0} \cup {q \in job.ends : LineAt(q) < l})
TailIsCurrent ==
  answer.kind = "text" /\ probe # NoProbe /\ ask.tail # All /\ ~NeedsFullDecode =>
    LET from == size - answer.bytes
        whole == {l \in Lines(0, size) : LineStart(l) > from + 1}
    IN /\ answer.lines # {} => Max(answer.lines) = LineAt(size)
       /\ answer.lines \subseteq whole
       /\ Cardinality(answer.lines) = Least(ask.tail, Cardinality(whole))
       /\ probe.at # size => answer.moved \/ ~job.stamped \/ stamp = probe.stamp

(* Neither a reply nor what was unpacked for it is larger than the         *)
(* ceiling, whatever the log grows to and an archive unpacks to            *)
(* (read_capped, CappedWriter).                                            *)
WithinCeiling ==
  answer.kind \in {"text", "members"} => answer.bytes <= ask.ceiling

(* A digest neither repeats a line nor misses one: its hits are exactly    *)
(* the surroundings of the first matches, its counts are those of the      *)
(* text, it stays in its line budget, and a weaker tier answers only when  *)
(* a stronger one has no match (scan_markers, get_job_log_errors).         *)
Marks(tier) ==
  CASE tier = "tap" -> TapMarkers [] tier = "test_died" -> FatalMarkers [] OTHER -> NoiseMarkers
DigestHonest ==
  answer.kind = "digest" =>
    LET text == answer.text
        hits == answer.scan.hits
        found == Matching(text, Marks(answer.tier))
    IN /\ \A i \in 1..Len(hits) - 1 : hits[i] < hits[i + 1]
       /\ answer.tier # "tail" =>
            /\ Range(hits) = UNION {Around(text, i, Context) : i \in FirstOf(found, MaxHits)}
            /\ answer.scan.count = Cardinality(found)
       /\ Len(hits) <= Greatest(TailLines, (2 * Context + 1) * MaxHits)
       /\ answer.tier \in {"generic", "tail"} => Matching(text, FatalMarkers) = {}
       /\ answer.tier = "tail" => Matching(text, NoiseMarkers) = {}
       /\ \A f \in answer.location.stack : text[f] \notin Timestamped

(* The matched needle comes first and the rest by falling score, so that   *)
(* the candidates whose images are fetched are the best ones; a failed     *)
(* image neither moves nor hides another (needle_step, get_step_needles).  *)
NeedlesInOrder ==
  answer.kind = "needles" =>
    LET list == answer.list
    IN /\ \A i, j \in DOMAIN list : i < j =>
            list[i].matched \/ (~list[j].matched /\ list[i].score >= list[j].score)
       /\ Len(answer.looked) = Least(ask.candidates, Len(list))
       /\ \A i \in DOMAIN answer.looked : answer.looked[i] = "image" => list[i].path

(* Whichever of its two sources answers, a job lists the same files of the *)
(* same kinds (parse_downloads, details_logs).                             *)
SourcesAgree ==
  answer.kind = "files" => Range(answer.files) = Range(DetailsLogs(job.details))

(* artifact.rs:268 "then reports the mismatch instead of failing": a tail  *)
(* window that fits the ceiling is not refused because the log grew.       *)
GrowthTolerated ==
  ask.tail \notin {All, 0} /\ probe.sized /\ ~NeedsFullDecode =>
    answer.kind # "response_too_large"

(* README.md:241 "`serial_terminal.txt` is probed first", and read.rs:1114 *)
(* "a failed `/details` fetch just means no `failed_modules`".             *)
SerialVerdictFirst ==
  answer.kind = "digest" /\ ~ask.markers /\ ~ask.filename
    /\ HasLog(job.details, "serial_terminal.txt") /\ Matching(job.serial, TapMarkers) # {}
    => answer.tier = "tap"
=============================================================================
