-------------------------------- MODULE Host --------------------------------
(***************************************************************************)
(* One host: updates, a configuration command, an install command, the     *)
(* service manager and `marc doctor` (src/internal/doctor) beside each     *)
(* other.  They share the binary, the configuration and the units and know *)
(* nothing of one another.                                                 *)
(***************************************************************************)
EXTENDS Services

CONSTANTS
  MaxCommands   \* bound: commands of all kinds

ASSUME CommandsAssumption == MaxCommands \in Nat

VARIABLES
  commands, \* started so far
  dpc,      \* where doctor is
  clean,    \* no check has failed so far
  quiet     \* history: nobody else took a step since doctor started

doctorVars == <<dpc, clean, quiet>>
worldVars == <<updaterVars, configVars, serviceVars>>
hostVars == <<worldVars, doctorVars, commands>>

HostInit ==
  /\ UpdaterInit /\ ConfigInit /\ ServicesInit
  /\ (Server => ~cross /\ ~writable)
  /\ dpc = "idle" /\ clean = TRUE /\ quiet = FALSE /\ commands = 0

----------------------------------------------------------------------------
(* marc doctor.  Checks only; a warning does not count as a failure. *)

DoctorGoes(from, to) == dpc = from /\ dpc' = to

DoctorStarts ==
  /\ ~Server
  /\ DoctorGoes("idle", "config")
  /\ clean' = TRUE /\ quiet' = TRUE

\* LoadClient, and the mode of the file.
CheckConfig ==
  /\ DoctorGoes("config", IF LoadClient THEN "units" ELSE "bare")
  /\ clean' = (clean /\ LoadClient)
  /\ UNCHANGED quiet

\* What launchctl list and systemctl is-active say of a unit; "restarting" is
\* systemd's "activating".
UnitState(u) ==
  CASE u \notin active -> "inactive"
    [] u \in active /\ running[u] # Absent -> "running"
    [] u \in active /\ running[u] = Absent ->
         IF platform = "launchd" THEN "not running" ELSE "restarting"

\* checkServiceLaunchd, checkServiceSystemd: only "restarting" is a warning.
UnitFails(u) == UnitState(u) \in {"inactive", "not running"}

CheckUnits_ActiveIsFine ==
  /\ DoctorGoes("units", "port")
  /\ clean' = clean
  /\ UNCHANGED quiet

CheckUnits ==
  /\ DoctorGoes("units", "port")
  /\ clean' = (clean /\ \A u \in Here : ~UnitFails(u))
  /\ UNCHANGED quiet

\* Without a configuration the units are looked at all the same, the port is
\* only said to be skipped, and the rest is left out.
RunWithoutConfig ==
  /\ DoctorGoes("bare", "over")
  /\ clean' = (clean /\ \A u \in Here : ~UnitFails(u))
  /\ UNCHANGED quiet

\* The port, the health page and the capture file.
CheckPort ==
  /\ DoctorGoes("port", "store")
  /\ \E healthy \in BOOLEAN : clean' = (clean /\ running["proxy"] # Absent /\ healthy)
  /\ UNCHANGED quiet

\* checkMinIO maps one Ping to three checks.
CheckStore ==
  /\ DoctorGoes("store", "over")
  /\ \E s \in StoreOf(config) : clean' = (clean /\ s.ping = "ok")
  /\ UNCHANGED quiet

DoctorStep ==
  DoctorStarts \/ CheckConfig \/ RunWithoutConfig \/ CheckUnits \/ CheckPort \/ CheckStore

----------------------------------------------------------------------------
(* The composition *)

WorldStep ==
  \/ ~Server /\ UpdaterNext /\ UNCHANGED <<configVars, serviceVars>>
  \/ ConfigNext /\ UNCHANGED <<updaterVars, serviceVars>>
  \/ ServicesNext /\ UNCHANGED <<updaterVars, configVars>>

\* The bound counts the commands that leave "idle".
Starting ==
  \/ dpc = "idle" /\ dpc' # "idle"
  \/ cpc = "idle" /\ cpc' # "idle"
  \/ ipc = "idle" /\ ipc' # "idle"
  \/ \E u \in Updaters : upc[u] = "idle" /\ upc'[u] # "idle"

HostNext ==
  /\ \/ DoctorStep /\ UNCHANGED worldVars
     \/ WorldStep /\ quiet' = FALSE /\ UNCHANGED <<dpc, clean>>
  /\ commands' = IF Starting THEN commands + 1 ELSE commands
  /\ commands' <= MaxCommands

HostSpec == HostInit /\ [][HostNext]_hostVars

----------------------------------------------------------------------------
(* Properties *)

\* When doctor exits with 0 and nobody interfered, there is a configuration
\* that passed its checks, the proxy runs and the shipper is kept, though on
\* systemd it may be restarting over and over (doctor.go:42-50, 173-280,
\* 393-437).
DoctorIsRight ==
  dpc = "over" /\ clean /\ quiet =>
    /\ config = "good"
    /\ running["proxy"] # Absent
    /\ "ship" \in active /\ (platform = "launchd" => running["ship"] # Absent)

=============================================================================
