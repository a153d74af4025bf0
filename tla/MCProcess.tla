----------------------------- MODULE MCProcess -----------------------------
(***************************************************************************)
(* Process started in the ways TLC tries: one sound configuration of each  *)
(* transport, and every deviation from it that some check is there for.    *)
(***************************************************************************)
EXTENDS Process

Endpoint == <<"base", "endpoint">> :> "valid"
MetricsOnly == <<"metrics", "endpoint">> :> "valid"
Plain == [transport |-> "http", allowedHost |-> FALSE, write |-> "A", read |-> Unset,
          insecure |-> FALSE, audit |-> [kind |-> "off", mode |-> "default"],
          servers |-> <<>>, credentials |-> TRUE, env |-> <<>>, home |-> <<>>]
Osd == Entry("openqa.suse.de", "default")
O3 == Entry("openqa.opensuse.org", "default")
OsdPort == Entry("openqa.suse.de", "8080")

(* One more variable in the environment of a server that sends logs and    *)
(* traces.                                                                 *)
NoMetrics == (<<"metrics", "exporter">> :> "none") @@ Endpoint
Knobs == {<<scope, knob>> : scope \in {"base", "traces"},
                            knob \in {"protocol", "compression", "tls", "headers", "endpoint"}}
           \cup {<<"logs", "exporter">>}
           \cup {Name(n) : n \in {"sdk_disabled", "sampler", "interval", "temporality", "queue",
                                  "heartbeat", "call_timeout"}}
Environments ==
  {Endpoint, MetricsOnly}
    \cup {(k :> v) @@ NoMetrics : k \in Knobs, v \in {"", "bad", "none", "zero", "true"}}

MCConfs ==
  {[Plain EXCEPT !.env = e] : e \in Environments}
  \cup {[Plain EXCEPT !.env = (<<"base", "endpoint">> :> ""), !.home = Endpoint],
        [Plain EXCEPT !.home = NoMetrics],
        [Plain EXCEPT !.env = NoMetrics, !.home = (<<"base", "endpoint">> :> "bad")],
        [Plain EXCEPT !.transport = "stdio", !.env = Endpoint,
                      !.audit = [kind |-> "file", mode |-> "default"]]}
  \cup {[Plain EXCEPT !.write = w, !.read = r, !.insecure = i] :
          w \in TokenVars, r \in TokenVars, i \in BOOLEAN}
  \cup {[Plain EXCEPT !.transport = t, !.allowedHost = h] :
          t \in {"stdio", "invalid"}, h \in BOOLEAN}
  \cup {[Plain EXCEPT !.transport = t, !.audit = a, !.env = e] :
          t \in {"stdio", "http"}, a \in AuditConfigs, e \in {<<>>, NoMetrics}}
  \cup {[Plain EXCEPT !.servers = s, !.credentials = c] :
          c \in BOOLEAN,
          s \in {<<Osd>>, <<Osd, O3>>, <<Osd, OsdPort>>, <<Osd, Osd>>,
                 <<Osd, Entry("osd", "default")>>, <<Entry("unbuildable", "default")>>}}
=============================================================================
