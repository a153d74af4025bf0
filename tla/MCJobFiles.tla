---------------------------- MODULE MCJobFiles -----------------------------
(***************************************************************************)
(* JobFiles with a handful of jobs and calls.                              *)
(***************************************************************************)
EXTENDS JobFiles

Needle1 == [name |-> "boot", score |-> 90, rank |-> 2, bare |-> TRUE]
Needle2 == [name |-> "login", score |-> 95, rank |-> 3, bare |-> TRUE]
Needle3 == [name |-> "../x", score |-> 95, rank |-> 1, bare |-> FALSE]
Step(num, result, screenshot, matched, needles) ==
  [num |-> num, result |-> result, screenshot |-> screenshot, matched |-> matched,
   needles |-> needles]
Details(logs, ulogs) ==
  [logs |-> logs, ulogs |-> ulogs, distri |-> TRUE,
   modules |-> <<[name |-> "boot", result |-> "failed",
                  steps |-> <<Step(1, "ok", TRUE, <<Needle1>>, <<Needle1, Needle2, Needle3>>),
                              Step(2, "fail", TRUE, <<>>, <<Needle1, Needle2, Needle3>>),
                              Step(3, "unk", FALSE, <<>>, <<>>)>>],
                 [name |-> "update", result |-> "softfailed", steps |-> <<>>],
                 [name |-> "boot", result |-> "ok", steps |-> <<Step(4, "ok", TRUE, <<>>, <<>>)>>]>>]

Console == <<"plain", "tap", "tap", "plain", "plain", "tap">>
Job(format, ranged, sized, stamped, classes, splits, serial, logs, ulogs, page) ==
  [format |-> format, size |-> 5, ends |-> {2, 3, 6, 8}, splits |-> splits,
   ranged |-> ranged, sized |-> sized, stamped |-> stamped, classes |-> classes,
   serial |-> serial, details |-> Details(logs, ulogs), page |-> page]

Died == <<"step", "died", "trace", "frame", "noise">>
Noisy == <<"noise", "noise", "plain", "noise", "frame">>
Quiet == <<"plain", "step", "frame", "plain", "plain">>
SerialLog == "serial_terminal.txt"

MCJobs ==
  {Job("plain", TRUE, TRUE, TRUE, Died, {}, Console, <<"log", SerialLog>>, <<"up">>,
       <<"another job's", "log", SerialLog, "log", "Uploaded logs", "up">>),
   Job("plain", TRUE, TRUE, FALSE, Noisy, {5}, <<>>, <<"log">>, <<>>, <<"log">>),
   Job("plain", TRUE, FALSE, TRUE, Quiet, {}, <<"plain">>, <<"log", SerialLog>>, <<>>, <<"another job's">>),
   Job("plain", FALSE, FALSE, TRUE, Noisy, {}, <<>>, <<>>, <<"up">>, <<"Uploaded logs", "up">>),
   Job("binary", TRUE, TRUE, TRUE, Quiet, {}, <<>>, <<>>, <<>>, <<>>),
   Job("gzip", TRUE, TRUE, TRUE, Died, {}, <<>>, <<>>, <<>>, <<>>),
   Job("tar", TRUE, TRUE, TRUE, Noisy, {}, <<>>, <<>>, <<>>, <<>>),
   Job("tgz", FALSE, FALSE, TRUE, Noisy, {}, <<>>, <<>>, <<>>, <<>>)}

Ask(tool) ==
  [tool |-> tool, tail |-> All, ceiling |-> MaxArtifact, member |-> FALSE, grep |-> "none",
   markers |-> FALSE, filename |-> FALSE, module |-> "boot", step |-> 1, candidates |-> 1]
MCAsks ==
  {[Ask("get_job_log") EXCEPT !.tail = t, !.ceiling = c, !.grep = g, !.member = m] :
     t \in {All, 0, 1, 2}, c \in {2, 4, MaxArtifact}, g \in {"none", "noise", "invalid"},
     m \in BOOLEAN}
  \cup {[Ask("get_job_log_errors") EXCEPT !.markers = m, !.filename = f] : m, f \in BOOLEAN}
  \cup {Ask("list_job_log_members"), Ask("list_job_logs")}
  \cup {[Ask("get_step_needles") EXCEPT !.step = s, !.candidates = n] : s \in 1..4, n \in {0, 2, 3}}
=============================================================================
