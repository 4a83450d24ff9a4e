----------------------------- MODULE Normalizer -----------------------------
(***************************************************************************)
(* What becomes of one line of a sensor's log (pipeline/normalizer.py and  *)
(* detection/alert_event.py): nothing, an exception, or an AlertEvent.  No *)
(* state.  A line is reduced to what the code tells apart in it: whether   *)
(* it parses, to what, whether a source address is there and valid,        *)
(* whether its time and its other validated fields are, which event it     *)
(* reports and the category of the tool its banner gives away.             *)
(***************************************************************************)
EXTENDS Naturals

NoTool == "no tool"

\* The categories of identify_tool's signatures.
Categories == {"scanner", "brute_forcer", "web_scanner", "exploit_framework",
               "malware", "http_library", "ssh_library"}

\* Mutation: a category is graded otherwise than by the packet monitor.
_TOOL_SEV_low(category) ==
  IF category \in {"exploit_framework", "malware"} THEN "high"
  ELSE IF category \in {"scanner", "web_scanner"} THEN "medium"
  ELSE "low"

\* The pipeline's grades of tools.
_TOOL_SEV(category) ==
  IF category \in {"brute_forcer", "exploit_framework", "malware"} THEN "high"
  ELSE IF category \in {"scanner", "web_scanner"} THEN "medium"
  ELSE "low"

\* The packet monitor's (detectors/tool_fingerprint.py), written out again.
_SEVERITY(category) ==
  IF category \in {"http_library", "ssh_library"} THEN "low"
  ELSE IF category \in {"scanner", "web_scanner"} THEN "medium"
  ELSE "high"

CowrieEvents == {"login.success", "command.input", "file_download",
                 "client.version", "session.connect"}

Lines ==
  [form : {"broken", "object", "other"},  \* not JSON; a JSON object; other JSON
   src : {"none", "valid", "bad"},        \* the field with the source address
   ts : {"valid", "bad", "range"},        \* the time; a number out of range
   fields : {"valid", "bad"},             \* port and text fields
   event : CowrieEvents,                  \* eventid, in Cowrie's lines
   tool : Categories \cup {NoTool}]       \* identify_tool(banner or user agent)

Sources == {"cowrie", "dionaea", "zeek-conn", "zeek-http", "zeek-ssh", "zeek-dns"}

Event(attack_type, severity) == [attack_type |-> attack_type, severity |-> severity]

\* A tool's event, or the plain one.
Fingerprinted(line, plain) ==
  IF line.tool # NoTool
  THEN Event("automated_tool", _TOOL_SEV(line.tool))
  ELSE plain

_sev_for_cowrie(eventid) ==
  IF eventid \in {"login.success", "file_download"} THEN "high"
  ELSE IF eventid = "command.input" THEN "medium"
  ELSE "low"

from_cowrie(line) ==
  LET plain == Event(line.event, _sev_for_cowrie(line.event))
  IN  IF line.event = "client.version" THEN Fingerprinted(line, plain) ELSE plain

from_dionaea(line) == Event("connection", "medium")

from_zeek_conn(line) == Event("connection", "low")

from_zeek_http(line) == Fingerprinted(line, Event("http_request", "low"))

from_zeek_ssh(line) == Fingerprinted(line, Event("ssh_connection", "low"))

from_zeek_dns(line) == Event("dns_query", "low")

\* The event a source's function makes of a line.
normalize(source, line) ==
  IF source = "cowrie" THEN from_cowrie(line)
  ELSE IF source = "dionaea" THEN from_dionaea(line)
  ELSE IF source = "zeek-conn" THEN from_zeek_conn(line)
  ELSE IF source = "zeek-http" THEN from_zeek_http(line)
  ELSE IF source = "zeek-ssh" THEN from_zeek_ssh(line)
  ELSE from_zeek_dns(line)

\* Sources whose times are passed on as they are; _ts_to_iso replaces those of
\* Zeek that are no times, but raises on a number that datetime does not take.
PassTimes == {"cowrie", "dionaea"}

\* _ts_to_iso and AlertEvent's validators do not raise.
Valid(source, line) ==
  /\ line.src = "valid"
  /\ line.fields = "valid"
  /\ line.ts = "valid" \/ (line.ts = "bad" /\ source \notin PassTimes)

\* What tail_json and the source's function do with the line: pass over it
\* (not JSON, or no source address), raise, or give an event.
Outcome(source, line) ==
  IF line.form = "broken" THEN "skip"
  ELSE IF line.form = "other" THEN "raise"
  ELSE IF line.src = "none" THEN "skip"
  ELSE IF ~Valid(source, line) THEN "raise"
  ELSE "event"
=============================================================================
