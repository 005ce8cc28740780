----------------------------- MODULE Configurator -----------------------------
(***************************************************************************)
(* `marc configure` and `marc-server configure` (src/internal/configure).  *)
(* Both ask, check the services and write one file, without a temporary:   *)
(* the file is emptied, written and closed.  The client checks first and   *)
(* writes only what passed; the server writes first.                       *)
(*                                                                         *)
(* Both load it again later, and refuse it when a required field is empty, *)
(* which no check of the client asks for.                                  *)
(***************************************************************************)

VARIABLES
  platform,    \* "systemd" or "launchd" (marc), "server" (marc-server)
  config,      \* the file: "absent", "partial", or the answers it was written from
  cpc,         \* where the command is
  answers,     \* what the operator entered
  cutShort     \* history: a command was killed while it wrote

Server == platform = "server"
configVars == <<platform, config, cpc, answers, cutShort>>

\* Every answer fits; some service turns them down; the services take them but
\* a required field is empty.
Answers == {"good", "bad", "incomplete"}

\* validateClient, validateServer: no required field is missing.
Complete == config \in {"good", "bad"}
LoadClient == ~Server /\ Complete
LoadServer == Server /\ Complete

ConfigInit ==
  /\ platform \in {"systemd", "launchd", "server"}
  /\ config \in {"absent", "good"} /\ cpc = "idle" /\ answers = "good" /\ cutShort = FALSE

----------------------------------------------------------------------------
(* ValidateMinIO: name, then handshake (left out for plain http and with   *)
(* verify_tls off), then one Ping that answers for two steps.              *)

Stores == [dns : BOOLEAN, tls : BOOLEAN, ping : {"ok", "auth", "bucket", "other"}]

\* Every error that is not about the credentials counts as a store that took them.
AuthAndBucket(ping) == [auth |-> ping # "auth", bucket |-> ping = "ok"]

\* A store that cannot be found passes none of the steps.
StoreResults(s) ==
  LET found == AuthAndBucket(s.ping)
  IN  [dns |-> s.dns, tls |-> s.dns /\ s.tls,
       auth |-> s.dns /\ found.auth, bucket |-> s.dns /\ found.bucket]

Validates_LoginOnly(s) == StoreResults(s).auth

\* printAndCheckResults.
Validates(s) == \A step \in DOMAIN StoreResults(s) : StoreResults(s)[step]

\* The store the answers name.
StoreOf(a) == {s \in Stores : a = "bad" => s.ping # "ok"}

----------------------------------------------------------------------------
(* The commands *)

ConfigGoes(from, to) == cpc = from /\ cpc' = to

\* marc: prompts or flags.  The wizard may be declined and its reads may fail.
RunWizard ==
  /\ ~Server
  /\ ConfigGoes("idle", "validate") \/ ConfigGoes("idle", "over")
  /\ answers' \in Answers
  /\ UNCHANGED <<platform, config, cutShort>>

\* marc-server: the overwrite question and every field, an end of input being
\* the default.
CollectFields ==
  /\ Server
  /\ ConfigGoes("idle", "truncate") \/ ConfigGoes("idle", "over")
  /\ answers' \in Answers
  /\ UNCHANGED <<platform, config, cutShort>>

\* marc goes on only when every step passed.
Validate ==
  /\ ~Server
  /\ \E s \in StoreOf(answers) :
       ConfigGoes("validate", IF Validates(s) THEN "truncate" ELSE "over")
  /\ UNCHANGED <<platform, config, answers, cutShort>>

\* marc-server's file is in place by now and stays, whatever the pings say.
PingAllServices ==
  /\ Server
  /\ ConfigGoes("validate", "over")
  /\ UNCHANGED <<platform, config, answers, cutShort>>

\* os.WriteFile, os.OpenFile with O_TRUNC: the old file is gone before the new
\* one is there.
TruncateConfig ==
  /\ ConfigGoes("truncate", "write")
  /\ config' = "partial"
  /\ UNCHANGED <<platform, answers, cutShort>>

WriteConfig ==
  /\ ConfigGoes("write", IF Server THEN "validate" ELSE "over")
  /\ config' = answers
  /\ UNCHANGED <<platform, answers, cutShort>>

\* Killed, or the write fails.
KillConfigure ==
  /\ cpc \notin {"idle", "over"}
  /\ cpc' = "over"
  /\ cutShort' = (cutShort \/ cpc = "write")
  /\ UNCHANGED <<platform, config, answers>>

ConfigAgain == ConfigGoes("over", "idle") /\ UNCHANGED <<platform, config, answers, cutShort>>

ConfigNext ==
  RunWizard \/ CollectFields \/ Validate \/ PingAllServices \/ TruncateConfig \/ WriteConfig
    \/ KillConfigure \/ ConfigAgain

----------------------------------------------------------------------------
(* Properties *)

\* A client's configuration has passed every check when it is in place, and a
\* file is half written only while a command writes it, or for good when that
\* command was killed (wizard.go:310-322, 342-366; configure.go:127-160).
ConfigIsValidated ==
  /\ ~Server => config # "bad"
  /\ config = "partial" => cpc = "write" \/ cutShort

=============================================================================
