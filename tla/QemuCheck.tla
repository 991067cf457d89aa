------------------------------ MODULE QemuCheck ------------------------------
(***************************************************************************)
(* boot-check and shell-check of tools/xtask: the harness starts QEMU,     *)
(* polls the serial log it writes, drives the guest's shell through the    *)
(* QEMU monitor, and gives a verdict.  Harness and QEMU run concurrently:  *)
(* QEMU may print, stall or exit between any two steps of the harness.     *)
(* Checks are run one after the other on what the earlier ones left.       *)
(*                                                                         *)
(* A file is named by the check whose QEMU created it: serial.log holds    *)
(* what that QEMU has printed so far.  (A QEMU whose log was removed keeps *)
(* writing to the unlinked file.)  Staging the boot tree is not here.      *)
(***************************************************************************)
EXTENDS Naturals, Sequences, Functions

CONSTANTS MaxChecks,     \* how many checks are run in a row
          Subcommands    \* which ones

ASSUME CheckAssumption ==
  MaxChecks \in Nat /\ Subcommands \subseteq {"boot-check", "shell-check"}

VARIABLES
  check,      \* number of the current or last check
  subcommand, \* and which one it is
  todo,       \* operations left of it
  poll,       \* where wait_for_log_marker is in its loop
  expired,    \* `started.elapsed() >= timeout` of the current loop
  verdict,    \* of each check: "none" yet, "ok" or the reason of Err
  log,        \* dist/serial.log: the check whose QEMU created it, 0 if absent
  dump,       \* dist/framebuffer-shell.ppm: whose, and whether it is long enough to pass
  state,      \* of the QEMU of each check
  printed,    \* markers it has written to its serial port
  monitor,    \* commands in its monitor socket
  typed       \* shell commands typed on its keyboard, not yet executed

harness == <<check, subcommand, todo, poll, expired, verdict>>
files   == <<log, dump>>
guest   == <<printed, monitor, typed>>
vars    == <<harness, files, state, guest>>

Checks     == 1 .. MaxChecks
BootOutput == <<"shell_ready", "initialized">>   \* in the order core::init prints them
Commands   == {"help", "info", "ls"}
Markers    == Range(BootOutput) \cup Commands

NoDump == [by |-> 0, is |-> "absent"]

Op(name)      == <<name>>
Wait(marker)  == <<"wait_for_log_marker", marker>>
Send(command) == <<"send_monitor_command", command>>

\* verify_qemu_boot
BootCheck == <<Op("remove_log"), Op("spawn"), Wait("initialized"), Op("terminate_child")>>

\* verify_qemu_shell
ShellCheck ==
  <<Op("remove_log"), Op("remove_dump"), Op("spawn"),
    Wait("initialized"), Wait("shell_ready"), Op("connect_monitor"),
    Send("help"), Send("info"), Send("ls"), Send("screendump"),
    Wait("help"), Wait("info"), Wait("ls"),
    Op("validate_ppm_screenshot"), Op("terminate_child")>>

\* Mutant: the log of an earlier check is left in place
Program_KeepLog(sub) == IF sub = "boot-check" THEN Tail(BootCheck) ELSE ShellCheck

Program(sub) == IF sub = "boot-check" THEN BootCheck ELSE ShellCheck

Init ==
  /\ check = 0 /\ subcommand = "none" /\ todo = <<>>
  /\ poll = "marker" /\ expired = FALSE /\ verdict = [c \in Checks |-> "none"]
  /\ log = 0 /\ dump = NoDump
  /\ state = [c \in Checks |-> "none"]
  /\ printed = [c \in Checks |-> {}]
  /\ monitor = [c \in Checks |-> <<>>]
  /\ typed = [c \in Checks |-> <<>>]

-----------------------------------------------------------------------------
(* The harness                                                             *)

At(op) == todo # <<>> /\ Head(todo) = op

Waiting(place) == poll = place /\ \E m \in Markers : At(Wait(m))

Running(c) == state[c] = "running"

\* On to the next operation; a loop that waits starts its own clock.
Done == todo' = Tail(todo) /\ poll' = "marker" /\ expired' = FALSE /\ UNCHANGED <<check, subcommand, verdict>>

Return(result) ==
  /\ todo' = <<>> /\ poll' = "marker" /\ expired' = FALSE
  /\ verdict' = [verdict EXCEPT ![check] = result]
  /\ UNCHANGED <<check, subcommand>>

PollAt(place) == poll' = place /\ UNCHANGED <<check, subcommand, todo, expired, verdict>>

\* terminate_child kills the child unless it has exited, and waits for it.
TerminateChild == state' = [state EXCEPT ![check] = "exited"]

\* main, run
Start(sub) ==
  /\ todo = <<>> /\ check < MaxChecks
  /\ check' = check + 1 /\ subcommand' = sub /\ todo' = Program(sub)
  /\ UNCHANGED <<poll, expired, verdict, files, state, guest>>

\* remove_file may fail on a file that is there.
RemoveLog ==
  /\ At(Op("remove_log"))
  /\ \/ log' = 0 /\ Done
     \/ log # 0 /\ UNCHANGED log /\ Return("remove")
  /\ UNCHANGED <<dump, state, guest>>

RemoveDump ==
  /\ At(Op("remove_dump"))
  /\ \/ dump' = NoDump /\ Done
     \/ dump # NoDump /\ UNCHANGED dump /\ Return("remove")
  /\ UNCHANGED <<log, state, guest>>

Spawn ==
  /\ At(Op("spawn"))
  /\ \/ state' = [state EXCEPT ![check] = "starting"] /\ Done
     \/ UNCHANGED state /\ Return("spawn")
  /\ UNCHANGED <<files, guest>>

\* contains_marker
Found == log # 0 /\ Head(todo)[2] \in printed[log]

\* `if log.contains_marker(..)?`
LookForMarker ==
  /\ Waiting("marker")
  /\ IF Found THEN Done ELSE PollAt("try_wait")
  /\ UNCHANGED <<files, state, guest>>

\* `if let Some(status) = child.try_wait()?`
TryWait ==
  /\ Waiting("try_wait")
  /\ IF state[check] = "exited" THEN Return("exited") ELSE PollAt("elapsed")
  /\ UNCHANGED <<files, state, guest>>

\* Mutants: the child is not terminated; there is no deadline
Elapsed_Orphan ==
  /\ Waiting("elapsed")
  /\ IF expired THEN Return("timeout") ELSE PollAt("marker")
  /\ UNCHANGED <<files, state, guest>>

Elapsed_Never ==
  /\ Waiting("elapsed") /\ PollAt("marker")
  /\ UNCHANGED <<files, state, guest>>

\* `if started.elapsed() >= timeout`, else sleep and around the loop
Elapsed ==
  /\ Waiting("elapsed")
  /\ IF expired THEN TerminateChild /\ Return("timeout") ELSE PollAt("marker") /\ UNCHANGED state
  /\ UNCHANGED <<files, guest>>

\* read_to_string fails, in contains_marker or in the tail_lines of a report
LogUnreadable ==
  /\ log # 0
  /\ \/ Waiting("marker")
     \/ Waiting("try_wait") /\ state[check] = "exited"
     \/ Waiting("elapsed") /\ expired
  /\ Return("log_unreadable")
  /\ UNCHANGED <<files, state, guest>>

\* The monitor listens as soon as QEMU runs; for a QEMU that does not run the
\* connection is retried until the time is up.
ConnectMonitor ==
  /\ At(Op("connect_monitor"))
  /\ \/ Running(check) /\ Done
     \/ ~ Running(check) /\ expired /\ Return("monitor")
  /\ UNCHANGED <<files, state, guest>>

\* A write to a QEMU that has exited may fail, or be lost without notice.
SendMonitorCommand ==
  \E command \in Commands \cup {"screendump"} :
    /\ At(Send(command))
    /\ \/ /\ Running(check) /\ Done
          /\ monitor' = [monitor EXCEPT ![check] = Append(@, command)]
       \/ /\ ~ Running(check) /\ (Done \/ Return("send"))
          /\ UNCHANGED monitor
    /\ UNCHANGED <<files, state, printed, typed>>

\* Mutant: only the existence of the file is checked
ValidPpm_Exists == dump.is # "absent"

\* At least 16 bytes that start with P6; rows may still be missing
ValidPpm == dump.is = "image"

ValidatePpmScreenshot ==
  /\ At(Op("validate_ppm_screenshot"))
  /\ IF ValidPpm THEN Done ELSE Return("screenshot")
  /\ UNCHANGED <<files, state, guest>>

Pass ==
  /\ At(Op("terminate_child"))
  /\ TerminateChild /\ Return("ok")
  /\ UNCHANGED <<files, guest>>

-----------------------------------------------------------------------------
(* QEMU, the kernel in it, and time                                        *)

\* Opening the serial port creates the log.  A QEMU that finds the variable
\* store locked by another one goes no further than that.
QemuOpens(c) ==
  /\ state[c] = "starting"
  /\ log' = c
  /\ state' = [state EXCEPT ![c] = IF \E d \in Checks : Running(d) THEN "exited" ELSE "running"]
  /\ UNCHANGED <<harness, dump, guest>>

QemuExits(c) ==
  /\ state[c] \in {"starting", "running"}
  /\ state' = [state EXCEPT ![c] = "exited"]
  /\ UNCHANGED <<harness, files, guest>>

KernelPrints(c) ==
  /\ Running(c)
  /\ \E k \in DOMAIN BootOutput :
       /\ \A j \in DOMAIN BootOutput : j < k <=> BootOutput[j] \in printed[c]
       /\ printed' = [printed EXCEPT ![c] = @ \cup {BootOutput[k]}]
  /\ UNCHANGED <<harness, files, state, monitor, typed>>

MonitorSendKeys(c) ==
  /\ Running(c) /\ monitor[c] # <<>> /\ Head(monitor[c]) \in Commands
  /\ typed' = [typed EXCEPT ![c] = Append(@, Head(monitor[c]))]
  /\ monitor' = [monitor EXCEPT ![c] = Tail(@)]
  /\ UNCHANGED <<harness, files, state, printed>>

\* The file is created first, then the beginning of an image is in it.
MonitorScreendump(c) ==
  /\ Running(c) /\ monitor[c] # <<>> /\ Head(monitor[c]) = "screendump"
  /\ IF dump = [by |-> c, is |-> "short"]
     THEN /\ dump' = [by |-> c, is |-> "image"]
          /\ monitor' = [monitor EXCEPT ![c] = Tail(@)]
     ELSE /\ dump' = [by |-> c, is |-> "short"]
          /\ UNCHANGED monitor
  /\ UNCHANGED <<harness, log, state, printed, typed>>

ShellExecutes(c) ==
  /\ Running(c) /\ typed[c] # <<>>
  /\ printed' = [printed EXCEPT ![c] = @ \cup {Head(typed[c])}]
  /\ typed' = [typed EXCEPT ![c] = Tail(@)]
  /\ UNCHANGED <<harness, files, state, monitor>>

TimePasses ==
  /\ ~ expired
  /\ At(Op("connect_monitor")) \/ \E m \in Markers : At(Wait(m))
  /\ expired' = TRUE
  /\ UNCHANGED <<check, subcommand, todo, poll, verdict, files, state, guest>>

-----------------------------------------------------------------------------

HarnessStep ==
  \/ RemoveLog \/ RemoveDump \/ Spawn
  \/ LookForMarker \/ TryWait \/ Elapsed \/ LogUnreadable
  \/ ConnectMonitor \/ SendMonitorCommand \/ ValidatePpmScreenshot \/ Pass

QemuStep(c) ==
  \/ QemuOpens(c) \/ QemuExits(c) \/ KernelPrints(c)
  \/ MonitorSendKeys(c) \/ MonitorScreendump(c) \/ ShellExecutes(c)

Next ==
  \/ \E sub \in Subcommands : Start(sub)
  \/ HarnessStep
  \/ \E c \in Checks : QemuStep(c)
  \/ TimePasses

Spec == Init /\ [][Next]_vars

\* The harness is scheduled and time passes; QEMU may stall for ever.
FairSpec == Spec /\ WF_vars(HarnessStep) /\ WF_vars(TimePasses)

-----------------------------------------------------------------------------
(* Properties                                                              *)

(* A check passes only on what its own QEMU has printed, never on the log  *)
(* of an earlier check or of a QEMU that an earlier check left running     *)
(* (verify_qemu_boot removes the log before it starts QEMU).               *)
OkMeansBooted == \A c \in Checks : verdict[c] = "ok" => "initialized" \in printed[c]

\* Results of a `?` between spawn and terminate_child that QEMU may survive
OrphanReasons == {"log_unreadable", "screenshot"}

(* shell-check passes only if its own guest has executed the three         *)
(* commands and the dump is an image of its own QEMU, of which only the    *)
(* first bytes are looked at.  (A QEMU that an earlier check left running  *)
(* may still write a dump after the new check has removed it, main.rs:206; *)
(* then this is not known.)                                                *)
OkMeansDumped ==
  \A c \in Checks :
    c = check /\ verdict[c] = "ok" /\ subcommand = "shell-check" =>
      /\ Commands \subseteq printed[c]
      /\ \/ dump = [by |-> c, is |-> "image"]
         \/ \E d \in 1 .. c - 1 : verdict[d] \in OrphanReasons

(* Only an unreadable log or a bad dump leaves QEMU running behind a       *)
(* finished check, and no other QEMU runs beside the one left.             *)
OrphansAreRare ==
  /\ \A c \in Checks : verdict[c] \notin OrphanReasons \cup {"none"} => ~ Running(c)
  /\ \A c, d \in Checks : Running(c) /\ Running(d) => c = d

(* Every check gives a verdict, whatever QEMU does or fails to do: each    *)
(* loop of the harness has a deadline.                                     *)
ChecksReturn == todo # <<>> ~> todo = <<>>
=============================================================================
