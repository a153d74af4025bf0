------------------------------- MODULE Startup -------------------------------
(***************************************************************************)
(* What the server decides once, before it serves: ~/.env folded into the  *)
(* environment, the OTEL_* variables, the audit configuration against the  *)
(* telemetry there is, and the registry of openQA servers.  Everything     *)
(* here is a pure operator, applied in the order of main.rs by Process.    *)
(*                                                                         *)
(* An environment is a function from the variables that are set to what    *)
(* their text is worth: "" , "valid", "bad", "none" (an exporter switched  *)
(* off), "zero" (a number), "true".                                        *)
(***************************************************************************)
EXTENDS Integers, Sequences, FiniteSets, TLC

Unconfigured == "unset"

(* dotenv.rs: a variable that is set, even to nothing, wins over ~/.env.   *)
LoadHomeEnv(env, home) == env @@ home

(* otel/env.rs lookup: an empty variable counts as unset.                  *)
Lookup(env, var) ==
  IF var \in DOMAIN env /\ env[var] # "" THEN env[var] ELSE Unconfigured

-----------------------------------------------------------------------------
(* A variable of the OTLP exporters is a scope (the base or a signal) and  *)
(* what it sets there; the others are names.                               *)
Signals == <<"logs", "traces", "metrics">>
SignalNames == {Signals[i] : i \in DOMAIN Signals}
Name(var) == <<"", var>>

(* A signal's own value shadows the base's.                                *)
Own(env, signal, knob) ==
  IF Lookup(env, <<signal, knob>>) # Unconfigured THEN Lookup(env, <<signal, knob>>)
  ELSE Lookup(env, <<"base", knob>>)

(* validate_protocol, validate_compression, validate_no_tls_material: what *)
(* would change the wire is refused, never ignored.                        *)
WireAsAsked(env, scope) ==
  /\ Lookup(env, <<scope, "protocol">>) # "bad"
  /\ Lookup(env, <<scope, "compression">>) # "bad"
  /\ Lookup(env, <<scope, "tls">>) = Unconfigured

(* resolve_exporter, resolve_endpoint: a signal is on if it is not         *)
(* switched off and has an endpoint; then its headers and timeout count.   *)
SwitchedOff(env, signal) == Lookup(env, <<signal, "exporter">>) = "none"
SignalOn(env, signal) == ~SwitchedOff(env, signal) /\ Own(env, signal, "endpoint") # Unconfigured
SignalValid(env, signal) ==
  /\ Lookup(env, <<signal, "exporter">>) # "bad"
  /\ ~SwitchedOff(env, signal) => WireAsAsked(env, signal)
  /\ SignalOn(env, signal) =>
       \A knob \in {"endpoint", "headers", "timeout"} : Own(env, signal, knob) # "bad"

(* resolve: the signals that are on, or an error; off means off.           *)
Disabled(env) == Lookup(env, Name("sdk_disabled")) = "true"
On(env) == IF Disabled(env) THEN {} ELSE {s \in SignalNames : SignalOn(env, s)}
ResolveFails(env) ==
  /\ ~Disabled(env)
  /\ \/ ~WireAsAsked(env, "base")
     \/ Lookup(env, Name("sampler")) = "bad"
     \/ Lookup(env, Name("interval")) \in {"bad", "zero"}
     \/ Lookup(env, Name("temporality")) = "bad"
     \/ \E s \in SignalNames : ~SignalValid(env, s)
     \/ On(env) # {} /\ Lookup(env, Name("queue")) = "bad"

(* mpsc::channel panics on a capacity of zero, which resolve lets pass.    *)
StartPanics(env) == Lookup(env, Name("queue")) = "zero"

(* parse_duration_secs, for the heartbeat and the call deadline: anything  *)
(* that is no number of seconds stops the start.                           *)
Duration(env, var) ==
  IF Lookup(env, Name(var)) = "zero" THEN "disabled" ELSE Lookup(env, Name(var))

-----------------------------------------------------------------------------
(* An audit configuration: none asked for, one that cannot be read, a file *)
(* that cannot be opened, a file, or no file; and its fail mode.           *)
AuditConfigs == [kind : {"off", "unreadable", "unopenable", "file", "nofile"},
                 mode : {"default", "open", "closed"}]

(* AuditConfig::fail_mode_for                                              *)
FailModeFor(audit, transport) ==
  IF audit.mode # "default" THEN audit.mode
  ELSE IF transport = "http" THEN "closed" ELSE "open"

(* Mutant. *)
AuditStartsUngated(audit, transport, producer) ==  \* nothing asks what the gate relies on
  audit.kind \notin {"unreadable", "unopenable"}

(* build_auditor: a closed mode needs something to gate on.                *)
AuditStarts(audit, transport, producer) ==
  /\ audit.kind \notin {"unreadable", "unopenable"}
  /\ audit.kind = "nofile" /\ ~producer => FailModeFor(audit, transport) = "open"

-----------------------------------------------------------------------------
(* The entries of OPENQA_SERVER, resolved: host and port.  No entry stands *)
(* for client.conf's first section, else localhost.                        *)
Aliases == [h \in {"openqa.suse.de", "openqa.opensuse.org"} |->
              IF h = "openqa.suse.de" THEN "osd" ELSE "o3"]
Entry(host, port) == <<host, port>>
Fallback == Entry("localhost", "default")

Selectors(entry) ==
  {entry} \cup (IF entry[1] \in DOMAIN Aliases /\ entry[2] = "default"
                THEN {Entry(Aliases[entry[1]], "default")} ELSE {})

(* build_registry: what each selector names.                               *)
Entries(servers) == IF servers = <<>> THEN <<Fallback>> ELSE servers
RegistryFails(servers, credentials) ==
  LET entries == Entries(servers)
  IN \/ Len(entries) > 1 /\ credentials
     \/ \E i \in DOMAIN entries : entries[i][1] = "unbuildable"
     \/ \E i, j \in DOMAIN entries : i # j /\ Selectors(entries[i]) \cap Selectors(entries[j]) # {}
BuildRegistry(servers) ==
  LET entries == Entries(servers)
  IN [s \in UNION {Selectors(entries[i]) : i \in DOMAIN entries} |->
        CHOOSE e \in {entries[i] : i \in DOMAIN entries} : s \in Selectors(e)]
=============================================================================
