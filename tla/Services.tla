------------------------------- MODULE Services -------------------------------
(***************************************************************************)
(* `marc install` and `marc-server install` (src/internal/install) and the *)
(* service manager they talk to (systemd, launchd; external).  A command   *)
(* writes one file for each unit, tells the manager to load and start      *)
(* them, and, for marc, lets the binary test itself and stops the units    *)
(* again when that fails.                                                  *)
(*                                                                         *)
(* The content of a unit's file is the number of the command that wrote    *)
(* it.  A unit the manager keeps is "active", also while its process is    *)
(* being restarted.  The server's "generate" is one run at a time, which   *)
(* the timer starts.                                                       *)
(***************************************************************************)
EXTENDS Updater, Configurator

CONSTANTS
  MaxInstalls,   \* bound: commands
  MaxFaults      \* bound: failing calls, dying services, kills, reboots

ASSUME InstallBounds == MaxInstalls \in Nat /\ MaxFaults \in Nat

VARIABLES
  file,      \* each unit's file: a command's number, Absent or Partial
  loaded,    \* what the manager has read of it
  enabled,   \* the units started at boot
  active,    \* the units the manager keeps running
  running,   \* what each process was started from: a definition, or Absent
  ipc,       \* where the command is
  icmd,      \* what it does: [op, load]
  next,      \* the unit it has come to
  gen,       \* commands so far
  ignored,   \* history: the command went on after a call that failed
  report,    \* how the last command ended
  faults

managerVars == <<loaded, enabled, active, running>>
commandVars == <<ipc, icmd, next, gen, ignored, report>>
serviceVars == <<file, managerVars, commandVars, faults>>

Absent == 0
Partial == -1

\* systemdUnits, launchdAgents, serverUnits.
UnitSeq == IF Server THEN <<"process", "generate", "timer">> ELSE <<"proxy", "ship">>
Units == {"process", "generate", "timer", "proxy", "ship"}
Here == {UnitSeq[i] : i \in DOMAIN UnitSeq}
Started == Here \ {"generate"}   \* the timer starts it

ServicesInit ==
  /\ file = [u \in Units |-> Absent] /\ loaded = [u \in Units |-> Absent]
  /\ enabled = {} /\ active = {} /\ running = [u \in Units |-> Absent]
  /\ ipc = "idle" /\ icmd = [op |-> "install", load |-> TRUE] /\ next = 1
  /\ gen = 0 /\ ignored = FALSE /\ report = "none" /\ faults = 0

Fault == faults < MaxFaults /\ faults' = faults + 1

----------------------------------------------------------------------------
(* The command *)

InstallGoes(from, to) == ipc = from /\ ipc' = to

\* On to the next unit, or with the last one on to the next step.
EachUnit(from, to) ==
  IF next < Len(UnitSeq)
  THEN InstallGoes(from, from) /\ next' = next + 1
  ELSE InstallGoes(from, to) /\ next' = 1

Unit == UnitSeq[next]

\* marc-server has no --skip-load, and its install no step that stops what runs.
FirstStep(op, load) ==
  IF load /\ ~(Server /\ op = "install") THEN "disable"
  ELSE IF op = "install" THEN "write" ELSE "remove"

\* Not root, a template that does not render, --dry-run: over before it starts.
\* A unit that is active without its file will be passed over as not installed.
StartInstall ==
  /\ gen < MaxInstalls /\ gen' = gen + 1
  /\ \E op \in {"install", "uninstall"}, load \in BOOLEAN :
       /\ Server => load
       /\ icmd' = [op |-> op, load |-> load]
       /\ InstallGoes("idle", FirstStep(op, load))
  /\ ignored' = \E u \in active : file[u] = Absent
  /\ report' = "none" /\ next' = 1
  /\ UNCHANGED <<file, managerVars, faults>>

Stop(units) ==
  /\ active' = active \ units
  /\ running' = [u \in Units |-> IF u \in units THEN Absent ELSE running[u]]

\* An uninstall of marc-server makes one call for all that is enabled; one of
\* marc goes through both steps with one unit, then the next.
ByUnit == ~Server /\ icmd.op = "uninstall" /\ icmd.load
DisableGoes ==
  IF Server THEN InstallGoes("disable", "stop") /\ UNCHANGED next
  ELSE IF ByUnit THEN InstallGoes("disable", "remove") /\ UNCHANGED next
  ELSE EachUnit("disable", IF icmd.op = "install" THEN "write" ELSE "remove")

\* The units one systemctl or launchctl call names.
Named_TimerLast ==
  IF ~Server THEN {Unit} ELSE IF ipc = "disable" THEN {"process", "generate"} ELSE {"timer"}
Named == IF ~Server THEN {Unit} ELSE IF ipc = "disable" THEN Started ELSE {"generate"}

\* systemctl disable --now, launchctl unload: for an install, of the units
\* whose file is there.  An error is ignored, with whatever was done before it.
DisableUnit ==
  /\ DisableGoes
  /\ \/ /\ icmd.op = "install" /\ file[Unit] = Absent
        /\ UNCHANGED <<managerVars, ignored, faults>>
     \/ /\ icmd.op = "uninstall" \/ file[Unit] # Absent
        /\ Stop(Named)
        /\ enabled' = IF platform = "launchd" THEN enabled ELSE enabled \ Named
        /\ UNCHANGED <<loaded, ignored, faults>>
     \/ /\ Fault /\ ignored' = TRUE
        /\ \E units \in SUBSET Named : Stop(units) /\ enabled' \in {enabled, enabled \ units}
        /\ UNCHANGED loaded
  /\ UNCHANGED <<file, icmd, gen, report>>

\* systemctl stop marc-generate.service, once the timer cannot start it again.
StopGenerate ==
  /\ InstallGoes("stop", "remove")
  /\ \/ Stop(Named) /\ UNCHANGED <<ignored, faults>>
     \/ Fault /\ ignored' = TRUE /\ UNCHANGED <<active, running>>
  /\ UNCHANGED <<file, loaded, enabled, icmd, next, gen, report>>

\* os.WriteFile: the old file first goes.
TruncateUnit ==
  /\ InstallGoes("write", "fill")
  /\ file' = [file EXCEPT ![Unit] = Partial]
  /\ UNCHANGED <<managerVars, icmd, next, gen, ignored, report, faults>>

\* With --skip-load systemd's install still runs the gate, launchd's is done.
WriteUnit ==
  /\ ipc = "fill"
  /\ file' = [file EXCEPT ![Unit] = gen]
  /\ IF next < Len(UnitSeq)
     THEN ipc' = "write" /\ next' = next + 1 /\ UNCHANGED report
     ELSE /\ next' = 1
          /\ ipc' = CASE icmd.load -> "reload"
                      [] ~icmd.load /\ platform = "systemd" -> "gate"
                      [] ~icmd.load /\ platform = "launchd" -> "idle"
          /\ report' = IF ipc' = "idle" THEN "ok" ELSE report
  /\ UNCHANGED <<managerVars, icmd, gen, ignored, faults>>

\* What the manager reads: files that are whole.
Readable == [u \in Units |-> IF file[u] = Partial THEN Absent ELSE file[u]]

\* systemctl daemon-reload; launchctl reads each file when it loads it.
ReloadManager ==
  /\ InstallGoes("reload", "enable")
  /\ loaded' = Readable
  /\ UNCHANGED <<file, enabled, active, running, icmd, next, gen, ignored, report, faults>>

\* systemctl enable --now, launchctl load -w: the units the manager does not
\* keep yet are started, the others are left as they are.  marc-server is
\* done with that.
EnableUnits ==
  /\ InstallGoes("enable", IF Server THEN "idle" ELSE "gate")
  /\ enabled' = enabled \union Started /\ active' = active \union Started
  /\ report' = IF Server THEN "ok" ELSE report
  /\ UNCHANGED <<file, loaded, running, icmd, next, gen, ignored, faults>>

\* A write, the reload or the start fails: the command ends with the error,
\* and what it did stays.
InstallFails ==
  /\ Fault
  /\ \E at \in {"write", "fill", "reload", "enable", "remove"} : InstallGoes(at, "idle")
  /\ \E on \in IF ipc = "enable" THEN SUBSET Started ELSE {{}}, up \in SUBSET Started :
       /\ up \subseteq on
       /\ enabled' = enabled \union on /\ active' = active \union up
  /\ report' = "failed"
  /\ UNCHANGED <<file, loaded, running, icmd, next, gen, ignored>>

\* runPostInstallGate: the binary at the path tests itself, with a proxy of
\* its own.
Gate ==
  /\ \/ /\ Runnable
        /\ InstallGoes("gate", "idle") /\ report' = "ok"
     \/ /\ icmd.load
        /\ InstallGoes("gate", "rollback") /\ UNCHANGED report
     \/ /\ ~icmd.load
        /\ InstallGoes("gate", "idle") /\ report' = "rolled back"
  /\ UNCHANGED <<file, managerVars, icmd, next, gen, ignored, faults>>

\* The units are stopped.  Their files stay, and so does their start at boot.
RollBack ==
  /\ EachUnit("rollback", "idle")
  /\ report' = IF ipc' = "idle" THEN "rolled back" ELSE report
  /\ \/ Stop({Unit}) /\ UNCHANGED <<ignored, faults>>
     \/ Fault /\ ignored' = TRUE /\ UNCHANGED <<active, running>>
  /\ UNCHANGED <<file, loaded, enabled, icmd, gen>>

\* An uninstall's os.Remove; a file that is gone already is no error.  With
\* the last one systemd is told, and an error of that is ignored.
RemoveUnit ==
  /\ IF ByUnit /\ next < Len(UnitSeq)
     THEN InstallGoes("remove", "disable") /\ next' = next + 1
     ELSE EachUnit("remove", "idle")
  /\ file' = [file EXCEPT ![Unit] = Absent]
  /\ report' = IF ipc' = "idle" THEN "removed" ELSE report
  /\ \/ /\ loaded' = IF ipc' = "idle" /\ icmd.load
                      THEN [Readable EXCEPT ![Unit] = Absent] ELSE loaded
        /\ UNCHANGED faults
     \/ Fault /\ UNCHANGED loaded
  /\ UNCHANGED <<enabled, active, running, icmd, gen, ignored>>

KillInstall ==
  /\ Fault
  /\ ipc # "idle" /\ ipc' = "idle"
  /\ report' = "killed"
  /\ UNCHANGED <<file, managerVars, icmd, next, gen, ignored>>

InstallStep ==
  StartInstall \/ DisableUnit \/ StopGenerate \/ TruncateUnit \/ WriteUnit \/ ReloadManager
    \/ EnableUnits \/ InstallFails \/ Gate \/ RollBack \/ RemoveUnit \/ KillInstall

----------------------------------------------------------------------------
(* The manager *)

\* proxy falls back to defaults without a configuration, the others do not start.
ServiceStarts(u) ==
  /\ u \in active /\ running[u] = Absent /\ loaded[u] # Absent
  /\ u \in {"proxy", "ship"} => Runnable
  /\ u = "ship" => LoadClient
  /\ u = "process" => LoadServer
  /\ running' = [running EXCEPT ![u] = loaded[u]]
  /\ UNCHANGED <<file, loaded, enabled, active, commandVars, faults>>

\* The hour has come, and a run is not under way.
TimerElapses ==
  /\ Server /\ "timer" \in active
  /\ loaded["generate"] # Absent /\ running["generate"] = Absent
  /\ active' = active \union {"generate"}
  /\ running' = [running EXCEPT !["generate"] = loaded["generate"]]
  /\ UNCHANGED <<file, loaded, enabled, commandVars, faults>>

\* A oneshot is over when its process is, well or badly.
GenerateEnds ==
  /\ running["generate"] # Absent
  /\ Stop({"generate"})
  /\ UNCHANGED <<file, loaded, enabled, commandVars, faults>>

ServiceDies(u) ==
  /\ Fault
  /\ running[u] # Absent /\ u \notin {"generate", "timer"}
  /\ running' = [running EXCEPT ![u] = Absent]
  /\ UNCHANGED <<file, loaded, enabled, active, commandVars>>

Reboot ==
  /\ Fault
  /\ loaded' = Readable
  /\ active' = {u \in IF platform = "launchd" THEN Here ELSE enabled : Readable[u] # Absent}
  /\ running' = [u \in Units |-> Absent]
  /\ ipc' = "idle" /\ report' = IF ipc = "idle" THEN report ELSE "killed"
  /\ UNCHANGED <<file, enabled, icmd, next, gen, ignored>>

ServicesNext ==
  InstallStep \/ Reboot \/ TimerElapses \/ GenerateEnds
    \/ \E u \in Units : ServiceStarts(u) \/ ServiceDies(u)

----------------------------------------------------------------------------
(* Properties *)

\* What a command says in the end is so.  An install that is done has the
\* manager keep every unit with the definition it wrote, and what runs was
\* started from that: marc stops old processes before, marc-server does not.
\* After a rollback and after an uninstall nothing is kept running, nor can the
\* timer have started another run meanwhile.  A call
\* that failed and was passed over may make it untrue, and without --load
\* nothing is said of the manager (systemd.go:86-158, launchd.go:85-151,
\* server.go:112-181, verify.go:41-72).
Kept(u) == u \in active /\ loaded[u] = gen /\ (Server \/ running[u] \in {Absent, gen})
Gone(u) == u \notin active /\ running[u] = Absent
ReportIsTrue ==
  icmd.load /\ ~ignored =>
    CASE report = "ok" -> \A u \in Started : Kept(u)
      [] report = "rolled back" -> \A u \in Here : Gone(u)
      [] report = "removed" -> \A u \in Here : Gone(u) /\ file[u] = Absent
      [] OTHER -> TRUE
InstallReportsTrue == [][report' # report => ReportIsTrue']_serviceVars

=============================================================================
