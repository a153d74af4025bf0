------------------------------- MODULE Tools --------------------------------
(***************************************************************************)
(* The tools the server registers: their annotation, the openQA requests   *)
(* each one makes and the arguments it refuses before it makes any.        *)
(*                                                                         *)
(* A request is its method, its endpoint with the ids left out, the query  *)
(* keys in its path and the channel it takes: request_json, request_form,  *)
(* or artifact.rs's own execute.  `soft` marks a request whose failure the *)
(* tool survives, `enough` one whose success may already be the answer.    *)
(***************************************************************************)
EXTENDS Naturals, Sequences, FiniteSets

Request(method, endpoint, keys, channel) ==
  [method |-> method, endpoint |-> endpoint, keys |-> keys, channel |-> channel,
   soft |-> FALSE, enough |-> TRUE]
Soft(r) == [r EXCEPT !.soft = TRUE]
Partial(r) == [r EXCEPT !.enough = FALSE]

(* Tools of one request.  `keys` are the optional arguments.               *)
Get(name, endpoint, keys) ==
  [name |-> name, readOnly |-> TRUE, keys |-> keys,
   requests |-> <<Request("GET", endpoint, keys, "json")>>]
Form(name, method, endpoint, keys) ==
  [name |-> name, readOnly |-> FALSE, keys |-> keys,
   requests |-> <<Request(method, endpoint, keys, "form")>>]
Bare(name, method, endpoint, keys) ==
  [name |-> name, readOnly |-> FALSE, keys |-> keys,
   requests |-> <<Request(method, endpoint, keys, "json")>>]

JobFilters == {"state", "result", "distri", "version", "build", "test", "arch",
               "machine", "groupid", "group"}

JobTools ==
  {Get("list_jobs", "jobs", JobFilters \cup {"latest", "limit", "offset", "ids"}),
   Get("list_jobs_overview", "jobs/overview", JobFilters \cup {"latest", "limit", "ids"}),
   Get("get_job", "jobs/ID", {"ancestors", "descendants"}),
   Get("get_job_comments", "jobs/ID/comments", {})}

TestTools ==
  {Get("list_machines", "machines", {}),
   Get("list_test_suites", "test_suites", {}),
   Get("list_products", "products", {}),
   Get("find_jobs_by_setting", "job_settings/jobs", {"key", "list_value"}),
   Get("get_job_details", "jobs/ID/details", {}),
   Get("get_job_status", "experimental/jobs/ID/status", {"follow"})}

GroupTools ==
  {Get("list_job_groups", "job_groups", {}),
   Get("get_job_group", "job_groups/ID", {}),
   Get("list_job_group_jobs", "job_groups/ID/jobs", {}),
   Get("get_job_group_build_results", "job_groups/ID/build_results",
       {"limit_builds", "time_limit_days", "only_tagged", "show_tags"}),
   Get("list_parent_groups", "parent_groups", {}),
   Get("get_parent_group", "parent_groups/ID", {})}

AssetTools ==
  {Get("list_assets", "assets", {}),
   Get("get_asset", "assets/ID", {}),
   Get("list_workers", "workers", {"reserved", "limit", "offset"}),
   Get("list_bugs", "bugs", {}),
   Get("search", "experimental/search", {"q"}),
   Get("get_scheduled_product", "isos/ID", {}),
   Get("get_iso_job_stats", "isos/job_stats", {})}

CommentTools ==
  {Get("list_group_comments", "groups/ID/comments", {}),
   Get("list_parent_group_comments", "parent_groups/ID/comments", {})}

(* The tools that read a job's files, at their longest.  A log is a probe  *)
(* and, unless the probe held it all, one request more, repeated once when *)
(* the log moved (LogRead refines that); the digest may read two files.    *)
Raw(endpoint) == Request("GET", endpoint, {}, "raw")
Details == Request("GET", "jobs/ID/details", {}, "json")
ReadTool(name, requests) ==
  [name |-> name, readOnly |-> TRUE, keys |-> {}, requests |-> requests]

FileTools ==
  {ReadTool("list_job_logs", <<Soft(Request("GET", "tests/ID/downloads_ajax", {}, "json")), Details>>),
   ReadTool("list_job_log_members", <<Raw("tests/ID/file"), Raw("tests/ID/file")>>)}
LogTool ==
  ReadTool("get_job_log", <<Raw("tests/ID/file"), Raw("tests/ID/file"), Raw("tests/ID/file")>>)
DigestTool ==
  ReadTool("get_job_log_errors",
    <<Soft(Partial(Details)), Raw("tests/ID/file"), Raw("tests/ID/file"),
      Raw("tests/ID/file"), Raw("tests/ID/file")>>)
NeedleTool ==
  ReadTool("get_step_needles",
    <<Partial(Details), Raw("tests/ID/images"),
      Soft(Raw("needles")), Soft(Raw("needles")), Soft(Raw("needles"))>>)
ServersTool == ReadTool("list_servers", <<>>)

ReadTools ==
  JobTools \cup TestTools \cup GroupTools \cup AssetTools \cup CommentTools
    \cup FileTools \cup {LogTool, DigestTool, NeedleTool, ServersTool}

-----------------------------------------------------------------------------
(* The mutating tools.                                                     *)
JobWrites ==
  {Form("restart_jobs", "POST", "jobs/restart", {"force", "prio"}),
   Bare("cancel_job", "POST", "jobs/ID/cancel", {}),
   Form("add_job_comment", "POST", "jobs/ID/comments", {})}
JobChanges ==
  {Bare("delete_job", "DELETE", "jobs/ID", {}),
   Form("duplicate_job", "POST", "jobs/ID/duplicate", {"prio", "dup_type_auto"}),
   Form("set_job_priority", "POST", "jobs/ID/prio", {})}
TriggerIsos == Form("trigger_isos", "POST", "isos", {"async", "ASYNC", "distri", "Build", "BUILD"})
CancelJobs == Bare("cancel_jobs", "POST", "jobs/cancel", JobFilters)
CommentWrites ==
  {Form("add_group_comment", "POST", "groups/ID/comments", {}),
   Form("add_parent_group_comment", "POST", "parent_groups/ID/comments", {}),
   Form("update_job_comment", "PUT", "jobs/ID/comments/ID", {}),
   Bare("delete_job_comment", "DELETE", "jobs/ID/comments/ID", {})}
OtherWrites ==
  {Form("create_bug", "POST", "bugs", {"title"}),
   Bare("cancel_scheduled_product", "POST", "isos/NAME/cancel", {})}

WriteTools ==
  JobWrites \cup JobChanges \cup {TriggerIsos, CancelJobs} \cup CommentWrites \cup OtherWrites

Router(readonly) == IF readonly THEN ReadTools ELSE ReadTools \cup WriteTools

-----------------------------------------------------------------------------
(* Arguments.  `given` are the optional arguments a caller passes, `blank` *)
(* those of them that are white space; `ids` counts the ids of a bulk      *)
(* call or the extra keys of a trigger; `name` is a free path segment.     *)
Bounded(n, min, max) == min <= n /\ n <= max
MaxBulk == 500
MaxExtra == 100
Nonblank(args) == args.given \ args.blank

(* openQA stores every extra key of an ISO trigger in upper case, except   *)
(* the two named in write.rs; so these fold into one another.              *)
Upcased == [k \in TriggerIsos.keys |->
  CASE k \in {"async", "ASYNC"} -> "ASYNC"
    [] k = "distri"             -> "DISTRI"
    [] OTHER                    -> "BUILD"]
RequiredIsoKeys == {"DISTRI", "VERSION", "FLAVOR", "ARCH"}
StoredKey(k) == IF k = "async" \/ k \in RequiredIsoKeys THEN k ELSE Upcased[k]
(* Mutant. *)
CheckExtraKeysAsGiven(extra) ==   \* keys are compared as they were given
  \A k \in extra : k \notin RequiredIsoKeys

CheckExtraKeys(extra) ==
  /\ \A k \in extra : Upcased[k] \notin RequiredIsoKeys
  /\ \A k, l \in extra : Upcased[k] = Upcased[l] => k = l
PathSegmentOk(name) == name \notin {"", ".", ".."}

(* The check a tool makes of its arguments before the first request.       *)
ArgumentsOk(tool, args) ==
  /\ tool # ServersTool => args.server = "configured"
  /\ tool.name = "restart_jobs" => Bounded(args.ids, 1, MaxBulk)
  /\ tool.name \in {"list_jobs", "list_jobs_overview"} => Bounded(args.ids, 0, MaxBulk)
  /\ tool = TriggerIsos => Bounded(args.ids, 0, MaxExtra) /\ CheckExtraKeys(args.given)
  /\ tool = CancelJobs => Nonblank(args) # {}
  /\ tool.name = "cancel_scheduled_product" => PathSegmentOk(args.name)

(* The requests a call makes, in order: the tool's, with the query keys    *)
(* or form fields its arguments fill.                                      *)
FieldsOf(tool, args) ==
  CASE tool = TriggerIsos -> args.given \cup RequiredIsoKeys
    [] tool = CancelJobs  -> Nonblank(args)
    [] OTHER              -> args.given
Requests(tool, args) ==
  [i \in 1..Len(tool.requests) |->
     [tool.requests[i] EXCEPT !.keys = IF tool.keys = {} THEN {} ELSE FieldsOf(tool, args)]]

Mutating(request) == request.method # "GET"

=============================================================================
