----------------------------- MODULE JobDetails -----------------------------
(***************************************************************************)
(* What artifact.rs picks out of a job's /details answer and out of the    *)
(* downloads page: the failed modules, one step, its needle candidates,    *)
(* and the names of the job's files.                                       *)
(***************************************************************************)
EXTENDS Naturals, Sequences, FiniteSets, SequencesExt, Arranged

CONSTANTS MaxModules     \* DIGEST_MAX_MODULES

(* failed_modules: failed and softfailed modules, with the steps that are  *)
(* failures themselves.                                                    *)
FailedModules(details) ==
  LET failed == SelectSeq(details.modules, LAMBDA m : m.result \in {"failed", "softfailed"})
      cut == SubSeq(failed, 1, IF Len(failed) > MaxModules THEN MaxModules ELSE Len(failed))
  IN [i \in DOMAIN cut |->
       [module |-> cut[i].name,
        steps  |-> SelectSeq(cut[i].steps, LAMBDA s : s.result \in {"fail", "softfail"})]]

(* find_step: the first step of that number in the first module of that    *)
(* name, as a sequence of at most one.                                     *)
FindStep(details, module, num) ==
  LET modules == SelectSeq(details.modules, LAMBDA m : m.name = module)
      steps == IF modules = <<>> THEN <<>>
               ELSE SelectSeq(Head(modules).steps, LAMBDA s : s.num = num)
  IN SubSeq(steps, 1, IF steps = <<>> THEN 0 ELSE 1)

(* candidate: only a bare name of a job with a DISTRI has an image path.   *)
Candidate(details, needle, matched) ==
  [name |-> needle.name, matched |-> matched, score |-> needle.score,
   path |-> details.distri /\ needle.bare]

(* needle_step: the matched needle first, if the step has one (a sequence  *)
(* of at most one), the others by falling score and then by name.          *)
Others(step) ==
  {n \in Range(step.needles) : \A m \in Range(step.matched) : n.name # m.name}
Better(S) ==
  {p \in S \X S : \/ p[1].score > p[2].score
                  \/ p[1].score = p[2].score /\ p[1].rank < p[2].rank}
Candidates(details, needles, matched) ==
  [i \in DOMAIN needles |-> Candidate(details, needles[i], matched)]

(* Mutant. *)
NeedleStepUnsorted(details, step) ==   \* the others are not ordered by score
  LET byName == {p \in Others(step) \X Others(step) : p[1].rank < p[2].rank}
  IN Candidates(details, step.matched, TRUE)
       \o Candidates(details, ArrangedBy(byName, Others(step)), FALSE)

NeedleStep(details, step) ==
  Candidates(details, step.matched, TRUE)
    \o Candidates(details, ArrangedBy(Better(Others(step)), Others(step)), FALSE)

HasLog(details, name) == name \in Range(details.logs) \cup Range(details.ulogs)

(* details_logs and parse_downloads: the files a job lists, and whether    *)
(* each is an uploaded one.  The page is the sequence of its links and of  *)
(* the heading above the uploaded ones.                                    *)
DetailsLogs(details) ==
  [i \in DOMAIN details.logs |-> [name |-> details.logs[i], kind |-> "result"]]
    \o [i \in DOMAIN details.ulogs |-> [name |-> details.ulogs[i], kind |-> "ulog"]]

(* Mutant. *)
ParseDownloadsLastHeading(page) ==   \* a page without the heading is all uploads
  LET kept == Ascending({i \in DOMAIN page :
                 /\ page[i] \notin {"Uploaded logs", "another job's"}
                 /\ \A j \in 1..i - 1 : page[j] # page[i]})
  IN [k \in DOMAIN kept |->
       [name |-> page[kept[k]],
        kind |-> IF \E h \in DOMAIN page : page[h] = "Uploaded logs" /\ h > kept[k]
                 THEN "result" ELSE "ulog"]]

ParseDownloads(page) ==
  LET heading == {i \in DOMAIN page : page[i] = "Uploaded logs"}
      first(i) == /\ i \notin heading /\ page[i] # "another job's"
                  /\ \A j \in 1..i - 1 : page[j] # page[i]
      kept == Ascending({i \in DOMAIN page : first(i)})
  IN [k \in DOMAIN kept |->
       [name |-> page[kept[k]],
        kind |-> IF \E h \in heading : kept[k] > h THEN "ulog" ELSE "result"]]
=============================================================================
