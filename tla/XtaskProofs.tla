---------------------------- MODULE XtaskProofs -----------------------------
(***************************************************************************)
(* Proofs about the two halves of tools/xtask: Staging, for any number of  *)
(* source versions and failures, and QemuCheck, for any number of checks in *)
(* a row, of any kind.                                                     *)
(*                                                                         *)
(* Staging: the inductive invariant says, for every step an invocation may *)
(* be at, which files already are what the steps before have made them.    *)
(*                                                                         *)
(* QemuCheck: where the harness is, is the number of operations left of its *)
(* check.  AtMost(b, s) says that at most b are left of a boot-check or at *)
(* most s of a shell-check.                                                *)
(***************************************************************************)
EXTENDS QemuCheck, Staging, TLAPS

-----------------------------------------------------------------------------
(* Staging the boot tree                                                   *)

\* The steps past the copies of the kernel, of the two configurations and of the loader
KernelCopied  == {"copy_conf", "copy_efi_conf", "copy_loader", "staged", "vars", "launch"}
ConfCopied    == {"copy_efi_conf", "copy_loader", "staged", "vars", "launch"}
EfiConfCopied == {"copy_loader", "staged", "vars", "launch"}
LoaderCopied  == {"staged", "vars", "launch"}

\* The partition, as far as it has been rebuilt
FreshInv ==
  /\ file["limine.conf"] = Conf
  /\ pc \notin {"idle", "build"} => file["bin"] = Kernel(built)
  /\ pc \in KernelCopied  \/ Succeeded => file["esp/kernel.elf"] = Kernel(built)
  /\ pc \in ConfCopied    \/ Succeeded => file["esp/limine.conf"] = Conf
  /\ pc \in EfiConfCopied \/ Succeeded => file["esp/EFI/limine.conf"] = Conf

\* Nothing touches the archive between its verification and its unpacking.
VerifiedInv ==
  /\ pc \in {"clear", "extract"} => file["archive"] = Zip
  /\ OnlyVerifiedUnpacked

\* The inductive invariant
StageInv == DOMAIN file = Paths /\ FreshInv /\ VerifiedInv

\* The two cached files are either not there, or whole, or being written, if no
\* write of them was cut.
CacheInv ==
  /\ "extract" \notin cut =>
       /\ file["cache/BOOTX64.EFI"] \in {Absent, Loader} \/ (pc = "extract" /\ writing)
       /\ pc \in {"recreate"} \cup DOMAIN Copies => file["cache/BOOTX64.EFI"] = Loader
       /\ pc \in LoaderCopied \/ Succeeded => file["esp/EFI/BOOTX64.EFI"] = Loader
  /\ "vars" \notin cut =>
       /\ file["vars"] \in {Absent, Template} \/ (pc = "vars" /\ writing)
       /\ pc = "launch" => file["vars"] = Template

(* What a file may hold can be told apart.                                 *)
LEMMA Distinct ==
  /\ Absent # Partial /\ Absent # Loader /\ Absent # Conf /\ Absent # Template
  /\ Partial # Loader /\ Partial # Template
  BY Zenon DEF Absent, Partial, Loader, Conf, Template

(* The four copies of stage_boot_tree, spelled out.                        *)
LEMMA CopiesAre ==
  /\ DOMAIN Copies = {"copy_kernel", "copy_conf", "copy_efi_conf", "copy_loader"}
  /\ Copies["copy_kernel"].from = "bin" /\ Copies["copy_kernel"].to = "esp/kernel.elf"
  /\ Copies["copy_kernel"].then = "copy_conf"
  /\ Copies["copy_conf"].from = "limine.conf" /\ Copies["copy_conf"].to = "esp/limine.conf"
  /\ Copies["copy_conf"].then = "copy_efi_conf"
  /\ Copies["copy_efi_conf"].from = "limine.conf" /\ Copies["copy_efi_conf"].to = "esp/EFI/limine.conf"
  /\ Copies["copy_efi_conf"].then = "copy_loader"
  /\ Copies["copy_loader"].from = "cache/BOOTX64.EFI" /\ Copies["copy_loader"].to = "esp/EFI/BOOTX64.EFI"
  /\ Copies["copy_loader"].then = "staged"
  BY Zenon DEF Copies

(* The initial states satisfy the inductive invariant.                     *)
LEMMA StageInitInv == StageInit => StageInv
<1> SUFFICES ASSUME StageInit PROVE StageInv
  BY Zenon
<1> USE DEF StageInit
<1>1. DOMAIN file = Paths
  BY Zenon
<1>2. FreshInv
  BY Zenon DEF FreshInv, Paths, Succeeded, KernelCopied, ConfCopied, EfiConfCopied
<1>3. VerifiedInv
  BY Zenon DEF VerifiedInv, OnlyVerifiedUnpacked, Paths
<1> QED
  BY <1>1, <1>2, <1>3, Zenon DEF StageInv

(* Every step keeps it.                                                    *)
LEMMA StageInvNext == StageInv /\ [StageNext]_stage_vars => StageInv'
<1> SUFFICES ASSUME StageInv, [StageNext]_stage_vars PROVE StageInv'
  BY Zenon
<1> USE DEF StageInv
<1>1. CASE Edit
  BY <1>1, Zenon DEF Edit, FreshInv, VerifiedInv, OnlyVerifiedUnpacked, Succeeded,
            KernelCopied, ConfCopied, EfiConfCopied
<1>2. CASE EndEarly
  BY <1>2, Zenon DEF EndEarly, Finish, FreshInv, VerifiedInv, OnlyVerifiedUnpacked, Succeeded,
            KernelCopied, ConfCopied, EfiConfCopied
<1>3. CASE Invoke
  BY <1>3, Zenon DEF Invoke, Goto, FreshInv, VerifiedInv, OnlyVerifiedUnpacked, Succeeded,
            KernelCopied, ConfCopied, EfiConfCopied
<1>4. CASE BuildKernel
  <2> USE <1>4 DEF BuildKernel, Goto
  <2>1. DOMAIN file' = Paths
    BY Zenon DEF Paths
  <2>2. FreshInv'
    BY Zenon DEF FreshInv, Succeeded, Paths, KernelCopied, ConfCopied, EfiConfCopied
  <2>3. VerifiedInv'
    BY Zenon DEF VerifiedInv, OnlyVerifiedUnpacked, Paths
  <2> QED
    BY <2>1, <2>2, <2>3, Zenon
<1>5. CASE EnsureLimineBundle
  BY <1>5, Zenon DEF EnsureLimineBundle, Goto, FreshInv, VerifiedInv, OnlyVerifiedUnpacked, Succeeded,
            KernelCopied, ConfCopied, EfiConfCopied
<1>6. CASE DownloadFile
  <2> USE <1>6 DEF DownloadFile, Goto, Overwrite
  <2>1. DOMAIN file' = Paths
    BY Zenon DEF Paths
  <2>2. FreshInv'
    BY Zenon DEF FreshInv, Succeeded, Paths, KernelCopied, ConfCopied, EfiConfCopied
  <2>3. VerifiedInv'
    BY Zenon DEF VerifiedInv, OnlyVerifiedUnpacked, Paths
  <2> QED
    BY <2>1, <2>2, <2>3, Zenon
<1>7. CASE VerifySha256
  BY <1>7, Zenon DEF VerifySha256, Goto, Finish, Verified, FreshInv, VerifiedInv, OnlyVerifiedUnpacked, Succeeded,
            KernelCopied, ConfCopied, EfiConfCopied
<1>8. CASE ClearExtracted
  <2> USE <1>8 DEF ClearExtracted, Goto
  <2>1. DOMAIN file' = Paths
    BY Zenon DEF Paths
  <2>2. FreshInv'
    BY Zenon DEF FreshInv, Succeeded, Paths, KernelCopied, ConfCopied, EfiConfCopied
  <2>3. VerifiedInv'
    BY Zenon DEF VerifiedInv, OnlyVerifiedUnpacked, Paths
  <2> QED
    BY <2>1, <2>2, <2>3, Zenon
<1>9. CASE Unzip
  <2> USE <1>9 DEF Unzip, Overwrite, Goto
  <2>1. DOMAIN file' = Paths
    BY Zenon DEF Paths
  <2>2. FreshInv'
    BY Zenon DEF FreshInv, Succeeded, Paths, KernelCopied, ConfCopied, EfiConfCopied
  <2>3. VerifiedInv'
    BY Zenon DEF VerifiedInv, OnlyVerifiedUnpacked, Paths
  <2> QED
    BY <2>1, <2>2, <2>3, Zenon
<1>10. CASE RecheckBundle
  BY <1>10, Zenon DEF RecheckBundle, Goto, Finish, FreshInv, VerifiedInv, OnlyVerifiedUnpacked, Succeeded,
            KernelCopied, ConfCopied, EfiConfCopied
<1>11. CASE RecreateEsp
  <2> USE <1>11 DEF RecreateEsp, Goto, Finish, Esp
  <2>1. DOMAIN file' = Paths
    BY Zenon DEF Paths
  <2>2. FreshInv'
    BY Zenon DEF FreshInv, Succeeded, Paths, KernelCopied, ConfCopied, EfiConfCopied
  <2>3. VerifiedInv'
    BY Zenon DEF VerifiedInv, OnlyVerifiedUnpacked, Paths
  <2> QED
    BY <2>1, <2>2, <2>3, Zenon
<1>12. CASE Copy
  <2> USE <1>12 DEF Copy, Overwrite, Goto
  <2>1. DOMAIN file' = Paths
    BY CopiesAre, Zenon DEF Paths
  <2>2. FreshInv'
    BY CopiesAre DEF FreshInv, Succeeded, Paths, KernelCopied, ConfCopied, EfiConfCopied
  <2>3. VerifiedInv'
    BY CopiesAre DEF VerifiedInv, OnlyVerifiedUnpacked, Paths
  <2> QED
    BY <2>1, <2>2, <2>3, Zenon
<1>13. CASE Staged
  BY <1>13, Zenon DEF Staged, Goto, Finish, FreshInv, VerifiedInv, OnlyVerifiedUnpacked, Succeeded,
            KernelCopied, ConfCopied, EfiConfCopied
<1>14. CASE EnsureOvmfVars
  <2> USE <1>14 DEF EnsureOvmfVars, Overwrite, Goto
  <2>1. DOMAIN file' = Paths
    BY Zenon DEF Paths
  <2>2. FreshInv'
    BY Zenon DEF FreshInv, Succeeded, Paths, KernelCopied, ConfCopied, EfiConfCopied
  <2>3. VerifiedInv'
    BY Zenon DEF VerifiedInv, OnlyVerifiedUnpacked, Paths
  <2> QED
    BY <2>1, <2>2, <2>3, Zenon
<1>15. CASE Launch
  BY <1>15, Zenon DEF Launch, Finish, FreshInv, VerifiedInv, OnlyVerifiedUnpacked, Succeeded,
            KernelCopied, ConfCopied, EfiConfCopied
<1>16. CASE UNCHANGED stage_vars
  BY <1>16, Zenon DEF stage_vars, FreshInv, VerifiedInv, OnlyVerifiedUnpacked, Succeeded
<1> QED
  BY <1>1, <1>2, <1>3, <1>4, <1>5, <1>6, <1>7, <1>8, <1>9, <1>10, <1>11, <1>12, <1>13, <1>14, <1>15, <1>16, Zenon DEF StageNext, StageStep

(* The inductive invariant holds throughout.                               *)
LEMMA StageInvariance == StageSpec => []StageInv
  BY StageInitInv, StageInvNext, PTL DEF StageSpec

(* When stage or run succeeds, the partition holds the kernel that this    *)
(* invocation built and the configuration, however many edits, bad         *)
(* downloads and interrupted invocations came before.                      *)
THEOREM StagingIsFresh == StageSpec => []StagedIsFresh
<1>1. StageInv => StagedIsFresh
  BY Zenon DEF StageInv, FreshInv, StagedIsFresh
<1> QED
  BY <1>1, StageInvariance, PTL

(* Nothing but the pinned bundle is ever unpacked or staged.               *)
THEOREM UnpacksOnlyVerified == StageSpec => []OnlyVerifiedUnpacked
  BY StageInvariance, PTL DEF StageInv, VerifiedInv

-----------------------------------------------------------------------------
(* The caches                                                              *)

(* The loader that is staged and the variable store that QEMU starts on    *)
(* are whole (ensure_limine_bundle, ensure_ovmf_vars), wherever any number *)
(* of invocations ended, unless one ended in the middle of that very file. *)
THEOREM CachesStayWhole == StageSpec => []WholeUnlessCut
<1>1. StageInit => CacheInv
  BY Zenon DEF StageInit, CacheInv, Paths, LoaderCopied, Succeeded, Copies
<1>2. StageInv /\ CacheInv /\ [StageNext]_stage_vars => CacheInv'
  <2> SUFFICES ASSUME StageInv, CacheInv, [StageNext]_stage_vars PROVE CacheInv'
    BY Zenon
  <2> USE Distinct, CopiesAre DEF StageInv, CacheInv, LoaderCopied, Succeeded, Paths
  <2>1. CASE Edit
    BY <2>1, Zenon DEF Edit
  <2>2. CASE EndEarly
    BY <2>2, Zenon DEF EndEarly, Finish, CacheSteps
  <2>3. CASE Invoke
    BY <2>3, Zenon DEF Invoke, Goto
  <2>4. CASE BuildKernel
    BY <2>4, Zenon DEF BuildKernel, Goto
  <2>5. CASE EnsureLimineBundle
    BY <2>5, Zenon DEF EnsureLimineBundle, Goto, Exists
  <2>6. CASE DownloadFile
    BY <2>6, Zenon DEF DownloadFile, Goto, Overwrite
  <2>7. CASE VerifySha256
    BY <2>7, Zenon DEF VerifySha256, Goto, Finish, Verified
  <2>8. CASE ClearExtracted
    BY <2>8, Zenon DEF ClearExtracted, Goto
  <2>9. CASE Unzip
    BY <2>9, Zenon DEF Unzip, Overwrite, Goto, VerifiedInv
  <2>10. CASE RecheckBundle
    BY <2>10, Zenon DEF RecheckBundle, Goto, Finish, Exists
  <2>11. CASE RecreateEsp
    BY <2>11, Zenon DEF RecreateEsp, Goto, Finish, Esp
  <2>12. CASE Copy
    BY <2>12 DEF Copy, Overwrite, Goto
  <2>13. CASE Staged
    BY <2>13, Zenon DEF Staged, Goto, Finish
  <2>14. CASE EnsureOvmfVars
    BY <2>14, Zenon DEF EnsureOvmfVars, Overwrite, Goto, Exists
  <2>15. CASE Launch
    BY <2>15, Zenon DEF Launch, Finish
  <2>16. CASE UNCHANGED stage_vars
    BY <2>16, Zenon DEF stage_vars
  <2> QED
    BY <2>1, <2>2, <2>3, <2>4, <2>5, <2>6, <2>7, <2>8, <2>9, <2>10, <2>11, <2>12, <2>13, <2>14, <2>15, <2>16, Zenon DEF StageNext, StageStep
<1>3. CacheInv => WholeUnlessCut
  BY Zenon DEF CacheInv, WholeUnlessCut
<1> QED
  BY <1>1, <1>2, <1>3, StageInvariance, PTL DEF StageSpec

-----------------------------------------------------------------------------
(* Checks under QEMU                                                       *)

\* The operations of the two programs
Ops == {BootCheck[k] : k \in 1 .. 4} \cup {ShellCheck[k] : k \in 1 .. 15}

\* So many operations are left of the check.
Left(b, s) == todo # <<>> /\ Len(todo) = IF subcommand = "boot-check" THEN b ELSE s

\* At most so many operations are left of the check.
AtMost(b, s) == todo # <<>> /\ Len(todo) <= IF subcommand = "boot-check" THEN b ELSE s

\* What is left is the end of the program of the subcommand.
ProgInv ==
  /\ check \in 0 .. MaxChecks
  /\ todo \in Seq(Ops)
  /\ todo # <<>> =>
       LET p == Program(subcommand)
       IN  /\ check \in Checks /\ subcommand \in {"boot-check", "shell-check"}
           /\ Len(todo) <= Len(p)
           /\ \A k \in 1 .. Len(todo) : todo[k] = p[(Len(p) - Len(todo)) + k]

\* The checks before the current one have their verdicts, the later ones none.
VerdictInv ==
  /\ DOMAIN verdict = Checks
  /\ \A c \in Checks : verdict[c] = "none" <=> c > check \/ (c = check /\ todo # <<>>)

\* Only the QEMU of the current check can still be starting, and the log is its own
\* from the moment the harness has removed the old one.
QemuInv ==
  /\ DOMAIN state = Checks /\ DOMAIN printed = Checks
  /\ \A c \in Checks : c > check => state[c] = "none"
  /\ \A c \in Checks : state[c] = "starting" => c = check /\ AtMost(2, 12)
  /\ todo # <<>> /\ ~ AtMost(2, 12) => state[check] = "none"
  /\ AtMost(3, 14) => log \in {0, check} /\ (log = check => state[check] \notin {"none", "starting"})
  /\ AtMost(1, 11) => "initialized" \in printed[check] /\ state[check] \notin {"none", "starting"}

\* An earlier check has left its QEMU running.
Orphaned == \E d \in 1 .. check - 1 : verdict[d] \in OrphanReasons

\* No request for a dump is waiting at the monitor of a check's QEMU.
NoScreendump(c) == \A k \in 1 .. Len(monitor[c]) : monitor[c][k] # "screendump"

\* What is sent to the monitor
Messages == Commands \cup {"screendump"}

\* A shell-check asks for one dump, and a dump it finds that is not its own is an orphan's.
DumpInv ==
  /\ monitor \in [Checks -> Seq(Messages)]
  /\ dump \in [by : 0 .. check, is : {"absent", "short", "image"}]
  /\ \A c \in Checks : c > check => monitor[c] = <<>>
  /\ \A c \in Checks : \A j, k \in 1 .. Len(monitor[c]) :
       monitor[c][j] = "screendump" /\ monitor[c][k] = "screendump" => j = k
  /\ \A c \in Checks : dump = [by |-> c, is |-> "image"] => NoScreendump(c)
  /\ todo # <<>> /\ ~ AtMost(0, 5) => NoScreendump(check) /\ dump.by # check
  /\ AtMost(0, 13) => dump = NoDump \/ dump.by = check \/ Orphaned
  /\ AtMost(0, 1) => dump = [by |-> check, is |-> "image"] \/ Orphaned

\* The commands whose answers have been seen
CommandInv ==
  /\ AtMost(0, 4) => "help" \in printed[check]
  /\ AtMost(0, 3) => "info" \in printed[check]
  /\ AtMost(0, 2) => "ls" \in printed[check]

\* The log, the QEMU processes and the verdicts on them
BootInv == VerdictInv /\ QemuInv /\ OrphansAreRare /\ OkMeansBooted

\* The monitor, the dump and the verdicts on them
ShellInv == DumpInv /\ CommandInv /\ OkMeansDumped

\* The inductive invariant
IInv == ProgInv /\ BootInv /\ ShellInv

-----------------------------------------------------------------------------
(* Where the harness is                                                    *)

(* The two programs, as sequences of operations.                           *)
LEMMA Programs ==
  /\ Program("boot-check") = BootCheck /\ Program("shell-check") = ShellCheck
  /\ BootCheck \in Seq(Ops) /\ Len(BootCheck) = 4
  /\ ShellCheck \in Seq(Ops) /\ Len(ShellCheck) = 15
  <1>1. Program("boot-check") = BootCheck /\ Program("shell-check") = ShellCheck  BY Zenon DEF Program
  <1>2. Len(BootCheck) = 4 /\ Len(ShellCheck) = 15  BY Zenon DEF BootCheck, ShellCheck
  <1>3. BootCheck \in Seq(Ops)
    <2>1. \A k \in 1 .. 4 : BootCheck[k] \in Ops  BY Zenon DEF Ops
    <2>2. BootCheck = [k \in 1 .. 4 |-> BootCheck[k]]  BY DEF BootCheck
    <2> QED  BY <2>1, <2>2
  <1>4. ShellCheck \in Seq(Ops)
    <2>1. \A k \in 1 .. 15 : ShellCheck[k] \in Ops  BY Zenon DEF Ops
    <2>2. ShellCheck = [k \in 1 .. 15 |-> ShellCheck[k]]  BY DEF ShellCheck
    <2> QED  BY <2>1, <2>2
  <1> QED  BY <1>1, <1>2, <1>3, <1>4, Zenon

(* The operations of a program differ.                                     *)
LEMMA OpsDiffer ==
  \A a, b : /\ Op(a) # Wait(b) /\ Op(a) # Send(b) /\ Wait(a) # Send(b)
            /\ (Op(a) = Op(b) => a = b) /\ (Wait(a) = Wait(b) => a = b) /\ (Send(a) = Send(b) => a = b)
            /\ Wait(a)[2] = a
  BY Zenon DEF Op, Wait, Send

(* How much is left says what comes next.                                  *)
LEMMA NextOp ==
  ASSUME ProgInv, todo # <<>>
  PROVE  \/ /\ subcommand = "boot-check"
            /\ \E n \in 1 .. 4 : Len(todo) = n /\ Head(todo) = BootCheck[(4 - n) + 1]
         \/ /\ subcommand = "shell-check"
            /\ \E n \in 1 .. 15 : Len(todo) = n /\ Head(todo) = ShellCheck[(15 - n) + 1]
  <1>1. todo \in Seq(Ops) /\ Len(todo) \in Nat /\ Len(todo) > 0 /\ Head(todo) = todo[1]  BY DEF ProgInv
  <1>2. PICK n \in Nat : Len(todo) = n  BY <1>1, Zenon
  <1>3. LET p == Program(subcommand) IN n > 0 /\ n <= Len(p) /\ Head(todo) = p[(Len(p) - n) + 1]
    BY <1>1, <1>2 DEF ProgInv
  <1>4. CASE subcommand = "boot-check"
    <2>1. Program(subcommand) = BootCheck  BY <1>4, Programs, Zenon
    <2>2. n > 0 /\ n <= 4 /\ Head(todo) = BootCheck[(4 - n) + 1]  BY <1>3, <2>1, Programs, Zenon
    <2>3. n \in 1 .. 4  BY <2>2
    <2> QED  BY <1>2, <1>4, <2>2, <2>3, Zenon
  <1>5. CASE subcommand = "shell-check"
    <2>1. Program(subcommand) = ShellCheck  BY <1>5, Programs, Zenon
    <2>2. n > 0 /\ n <= 15 /\ Head(todo) = ShellCheck[(15 - n) + 1]  BY <1>3, <2>1, Programs, Zenon
    <2>3. n \in 1 .. 15  BY <2>2
    <2> QED  BY <1>2, <1>5, <2>2, <2>3, Zenon
  <1> QED  BY <1>4, <1>5, Zenon DEF ProgInv

(* And what comes next says how much is left.                              *)
LEMMA Where ==
  ASSUME ProgInv
  PROVE  /\ At(Op("remove_log")) => Left(4, 15)
         /\ At(Op("remove_dump")) => Left(0, 14)
         /\ At(Op("spawn")) => Left(3, 13)
         /\ At(Op("connect_monitor")) => Left(0, 10)
         /\ At(Send("screendump")) => Left(0, 6)
         /\ \A m \in Commands : At(Send(m)) => Left(0, 7) \/ Left(0, 8) \/ Left(0, 9)
         /\ At(Op("validate_ppm_screenshot")) => Left(0, 2)
         /\ At(Op("terminate_child")) => Left(1, 1)
         /\ \A m \in Markers : At(Wait(m)) =>
              /\ Head(todo)[2] = m
              /\ \/ Left(2, 12) /\ m = "initialized"
                 \/ Left(0, 11)
                 \/ Left(0, 5) /\ m = "help"
                 \/ Left(0, 4) /\ m = "info"
                 \/ Left(0, 3) /\ m = "ls"
  <1> SUFFICES ASSUME todo # <<>>  PROVE
         /\ Head(todo) = Op("remove_log") => Left(4, 15)
         /\ Head(todo) = Op("remove_dump") => Left(0, 14)
         /\ Head(todo) = Op("spawn") => Left(3, 13)
         /\ Head(todo) = Op("connect_monitor") => Left(0, 10)
         /\ Head(todo) = Send("screendump") => Left(0, 6)
         /\ \A m \in Commands : Head(todo) = Send(m) => Left(0, 7) \/ Left(0, 8) \/ Left(0, 9)
         /\ Head(todo) = Op("validate_ppm_screenshot") => Left(0, 2)
         /\ Head(todo) = Op("terminate_child") => Left(1, 1)
         /\ \A m \in Markers : Head(todo) = Wait(m) =>
              /\ Head(todo)[2] = m
              /\ \/ Left(2, 12) /\ m = "initialized"
                 \/ Left(0, 11)
                 \/ Left(0, 5) /\ m = "help"
                 \/ Left(0, 4) /\ m = "info"
                 \/ Left(0, 3) /\ m = "ls"
    BY Zenon DEF At
  <1>1. CASE subcommand = "boot-check"
    <2>1. PICK n \in 1 .. 4 : Len(todo) = n /\ Head(todo) = BootCheck[(4 - n) + 1]  BY <1>1, NextOp, Zenon
    <2>2. \/ Len(todo) = 4 /\ Head(todo) = Op("remove_log")
          \/ Len(todo) = 3 /\ Head(todo) = Op("spawn")
          \/ Len(todo) = 2 /\ Head(todo) = Wait("initialized")
          \/ Len(todo) = 1 /\ Head(todo) = Op("terminate_child")
      <3>1. /\ BootCheck[1] = Op("remove_log") /\ BootCheck[2] = Op("spawn")
            /\ BootCheck[3] = Wait("initialized") /\ BootCheck[4] = Op("terminate_child")
        BY Zenon DEF BootCheck
      <3> QED  BY ONLY <2>1, <3>1
    <2> QED  BY <2>2, <1>1 DEF Left, Op, Wait, Send
  <1>2. CASE subcommand = "shell-check"
    <2>1. PICK n \in 1 .. 15 : Len(todo) = n /\ Head(todo) = ShellCheck[(15 - n) + 1]  BY <1>2, NextOp, Zenon
    <2>2. \/ Len(todo) = 15 /\ Head(todo) = Op("remove_log")
          \/ Len(todo) = 14 /\ Head(todo) = Op("remove_dump")
          \/ Len(todo) = 13 /\ Head(todo) = Op("spawn")
          \/ Len(todo) = 12 /\ Head(todo) = Wait("initialized")
          \/ Len(todo) = 11 /\ Head(todo) = Wait("shell_ready")
          \/ Len(todo) = 10 /\ Head(todo) = Op("connect_monitor")
          \/ Len(todo) = 9 /\ Head(todo) = Send("help")
          \/ Len(todo) = 8 /\ Head(todo) = Send("info")
          \/ Len(todo) = 7 /\ Head(todo) = Send("ls")
          \/ Len(todo) = 6 /\ Head(todo) = Send("screendump")
          \/ Len(todo) = 5 /\ Head(todo) = Wait("help")
          \/ Len(todo) = 4 /\ Head(todo) = Wait("info")
          \/ Len(todo) = 3 /\ Head(todo) = Wait("ls")
          \/ Len(todo) = 2 /\ Head(todo) = Op("validate_ppm_screenshot")
          \/ Len(todo) = 1 /\ Head(todo) = Op("terminate_child")
      <3>1. /\ ShellCheck[1] = Op("remove_log") /\ ShellCheck[2] = Op("remove_dump")
            /\ ShellCheck[3] = Op("spawn") /\ ShellCheck[4] = Wait("initialized")
            /\ ShellCheck[5] = Wait("shell_ready") /\ ShellCheck[6] = Op("connect_monitor")
            /\ ShellCheck[7] = Send("help") /\ ShellCheck[8] = Send("info")
            /\ ShellCheck[9] = Send("ls") /\ ShellCheck[10] = Send("screendump")
            /\ ShellCheck[11] = Wait("help") /\ ShellCheck[12] = Wait("info")
            /\ ShellCheck[13] = Wait("ls") /\ ShellCheck[14] = Op("validate_ppm_screenshot")
            /\ ShellCheck[15] = Op("terminate_child")
        BY Zenon DEF ShellCheck
      <3>2. \/ n = 1 \/ n = 2 \/ n = 3 \/ n = 4 \/ n = 5 \/ n = 6 \/ n = 7 \/ n = 8 \/ n = 9
            \/ n = 10 \/ n = 11 \/ n = 12 \/ n = 13 \/ n = 14 \/ n = 15
        BY ONLY <2>1
      <3> QED  BY ONLY <2>1, <3>1, <3>2, SMTT(40)
    <2>3. subcommand # "boot-check"  BY <1>2, Zenon
    <2>4. \A b, s : Left(b, s) <=> Len(todo) = s  BY <2>3, Zenon DEF Left
    <2>5. /\ Head(todo) = Op("remove_log") => Left(4, 15)
          /\ Head(todo) = Op("remove_dump") => Left(0, 14)
          /\ Head(todo) = Op("spawn") => Left(3, 13)
      BY ONLY <2>2, <2>4, OpsDiffer, ZenonT(40)
    <2>6. /\ Head(todo) = Op("connect_monitor") => Left(0, 10)
          /\ Head(todo) = Op("validate_ppm_screenshot") => Left(0, 2)
          /\ Head(todo) = Op("terminate_child") => Left(1, 1)
      BY ONLY <2>2, <2>4, OpsDiffer, ZenonT(40)
    <2>7. Head(todo) = Send("screendump") => Left(0, 6)
      BY ONLY <2>2, <2>4, OpsDiffer, ZenonT(40)
    <2>8. ASSUME NEW m \in Commands, Head(todo) = Send(m)  PROVE Left(0, 7) \/ Left(0, 8) \/ Left(0, 9)
      BY ONLY <2>2, <2>4, <2>8, OpsDiffer, ZenonT(40) DEF Commands
    <2>9. ASSUME NEW m \in Markers, Head(todo) = Wait(m)
          PROVE  /\ Head(todo)[2] = m
                 /\ \/ Left(2, 12) /\ m = "initialized"
                    \/ Left(0, 11)
                    \/ Left(0, 5) /\ m = "help"
                    \/ Left(0, 4) /\ m = "info"
                    \/ Left(0, 3) /\ m = "ls"
      BY ONLY <2>2, <2>4, <2>9, OpsDiffer, ZenonT(40)
    <2> QED  BY <2>5, <2>6, <2>7, <2>8, <2>9, Zenon
  <1> QED  BY <1>1, <1>2, NextOp, Zenon

(* An operation that is done leaves one less.                              *)
LEMMA DoneLeaves ==
  ASSUME ProgInv, todo # <<>>, Done
  PROVE  /\ ProgInv' /\ check' = check /\ subcommand' = subcommand /\ verdict' = verdict
         /\ Len(todo') = Len(todo) - 1 /\ (todo' # <<>> <=> Len(todo) > 1)
  <1>1. Len(todo) \in Nat /\ Len(todo) > 0  BY DEF ProgInv
  <1>2. Len(todo') = Len(todo) - 1 /\ todo' \in Seq(Ops)  BY <1>1 DEF ProgInv, Done
  <1>3. \A k \in 1 .. Len(todo') : todo'[k] = todo[k + 1]  BY <1>1 DEF ProgInv, Done
  <1>4. Len(Program(subcommand)) \in Nat  BY Programs DEF ProgInv
  <1>5. ProgInv'  BY <1>1, <1>2, <1>3, <1>4 DEF ProgInv, Done, Checks
  <1>6. todo' # <<>> <=> Len(todo') > 0  BY <1>2
  <1> QED  BY <1>1, <1>2, <1>5, <1>6 DEF Done

(* A check that returns has nothing left to do.                            *)
LEMMA ReturnLeaves ==
  ASSUME ProgInv, todo # <<>>, NEW outcome, Return(outcome)
  PROVE  ProgInv' /\ check' = check /\ subcommand' = subcommand /\ todo' = <<>>
  BY DEF ProgInv, Return, Checks

(* A check starts with its whole program ahead of it.                      *)
LEMMA StartLeaves ==
  ASSUME ProgInv, NEW sub \in Subcommands, Start(sub)
  PROVE  /\ ProgInv' /\ check' = check + 1 /\ check' \in Checks /\ todo' # <<>>
         /\ Len(todo') = IF sub = "boot-check" THEN 4 ELSE 15
  <1>1. sub \in {"boot-check", "shell-check"}  BY CheckAssumption, Zenon
  <1>2. check' = check + 1 /\ check' \in Checks  BY CheckAssumption DEF ProgInv, Start, Checks
  <1>3. /\ todo' = Program(sub) /\ subcommand' = sub /\ Program(sub) \in Seq(Ops)
        /\ Len(Program(sub)) = IF sub = "boot-check" THEN 4 ELSE 15
    BY <1>1, Programs, Zenon DEF Start
  <1>4. todo' # <<>>
    <2>1. Len(todo') > 0  BY <1>3
    <2> QED  BY <2>1
  <1>5. todo' \in Seq(Ops)  BY <1>3, Zenon
  <1>6. \A k \in 1 .. Len(todo') :
          todo'[k] = Program(subcommand')[(Len(Program(subcommand')) - Len(todo')) + k]
    BY <1>3
  <1>7. Len(todo') <= Len(Program(subcommand'))  BY <1>3
  <1>8. check' \in 0 .. MaxChecks  BY <1>2 DEF Checks
  <1>9. ProgInv'  BY <1>1, <1>2, <1>3, <1>5, <1>6, <1>7, <1>8, Zenon DEF ProgInv, Checks
  <1> QED  BY <1>2, <1>3, <1>4, <1>9, Zenon

(* Every step keeps the program counter in the program.                    *)
LEMMA ProgNext == ProgInv /\ [Next]_vars => ProgInv'
  <1> SUFFICES ASSUME ProgInv, [Next]_vars  PROVE ProgInv'
    BY Zenon
  <1>1. CASE \E sub \in Subcommands : Start(sub)  BY <1>1, StartLeaves, Zenon
  <1>2. CASE HarnessStep
    <2>1. todo # <<>>
      BY <1>2, Zenon DEF HarnessStep, RemoveLog, RemoveDump, Spawn, LookForMarker, TryWait, Elapsed, LogUnreadable,
                  ConnectMonitor, SendMonitorCommand, ValidatePpmScreenshot, Pass, Waiting, At
    <2>2. Done \/ (\E outcome : Return(outcome)) \/ (\E place : PollAt(place))
      BY <1>2, Zenon DEF HarnessStep, RemoveLog, RemoveDump, Spawn, LookForMarker, TryWait, Elapsed, LogUnreadable,
                  ConnectMonitor, SendMonitorCommand, ValidatePpmScreenshot, Pass
    <2>3. ASSUME NEW place, PollAt(place)  PROVE ProgInv'  BY <2>3, Zenon DEF PollAt, ProgInv, Checks
    <2> QED  BY <2>1, <2>2, <2>3, DoneLeaves, ReturnLeaves, Zenon
  <1>3. CASE UNCHANGED <<check, subcommand, todo>>  BY <1>3, Zenon DEF ProgInv, Checks
  <1>4. ASSUME NEW c \in Checks, QemuStep(c)  PROVE UNCHANGED <<check, subcommand, todo>>
    BY <1>4, Zenon DEF QemuStep, QemuOpens, QemuExits, KernelPrints, MonitorSendKeys, MonitorScreendump,
                ShellExecutes, harness
  <1>5. TimePasses => UNCHANGED <<check, subcommand, todo>>  BY Zenon DEF TimePasses
  <1>6. UNCHANGED vars => UNCHANGED <<check, subcommand, todo>>  BY Zenon DEF vars, harness
  <1> QED  BY <1>1, <1>2, <1>3, <1>4, <1>5, <1>6, Zenon DEF Next

(* Of an operation of its own a shell-check is left.                       *)
LEMMA OnlyShell ==
  ASSUME ProgInv, NEW s, Left(0, s)
  PROVE  subcommand = "shell-check" /\ subcommand # "boot-check" /\ Len(todo) = s
  <1>1. todo # <<>> /\ todo \in Seq(Ops)  BY Zenon DEF ProgInv, Left
  <1>2. Len(todo) # 0  BY <1>1
  <1>3. subcommand # "boot-check"  BY <1>2, Zenon DEF Left
  <1> QED  BY <1>1, <1>3, Zenon DEF ProgInv, Left

(* What ProgInv says of the numbers.                                       *)
LEMMA ProgFacts ==
  ASSUME ProgInv
  PROVE  /\ check \in Nat /\ check <= MaxChecks /\ MaxChecks \in Nat
         /\ Len(todo) \in Nat /\ (todo # <<>> <=> Len(todo) > 0)
         /\ todo # <<>> => check \in Checks /\ subcommand \in {"boot-check", "shell-check"}
  BY CheckAssumption DEF ProgInv

-----------------------------------------------------------------------------
(* What a check passes on                                                  *)

(* After the kernel has come up, an operation that is done changes nothing *)
(* of this.                                                                *)
LEMMA BootDone ==
  ASSUME ProgInv, BootInv, Done, AtMost(2, 12), Len(todo) > 1, UNCHANGED <<log, state, printed>>,
         "initialized" \in printed[check], state[check] \notin {"none", "starting"}
  PROVE  BootInv'
  <1>1. UNCHANGED <<check, subcommand, verdict>> /\ Len(todo') = Len(todo) - 1 /\ todo # <<>> /\ todo' # <<>>
    BY DoneLeaves, Zenon DEF AtMost
  <1>2. AtMost(2, 12)' /\ (AtMost(3, 14)' => AtMost(3, 14))
    BY <1>1, ProgFacts DEF AtMost
  <1> QED
    BY <1>1, <1>2, ProgFacts, Zenon
       DEF BootInv, VerdictInv, QemuInv, OrphansAreRare, OkMeansBooted, Running, Checks

(* A check that returns has its verdict, and its QEMU is not left starting.*)
LEMMA BootReturn ==
  ASSUME ProgInv, BootInv, todo # <<>>, NEW outcome, Return(outcome), outcome # "none",
         UNCHANGED <<log, printed>>,
         UNCHANGED state \/ TerminateChild,
         state'[check] # "starting",
         outcome \notin OrphanReasons => state'[check] # "running",
         outcome = "ok" => "initialized" \in printed[check]
  PROVE  BootInv'
  <1>1. /\ UNCHANGED <<check, subcommand>> /\ todo' = <<>> /\ check \in Checks
        /\ verdict' = [verdict EXCEPT ![check] = outcome]
    BY ReturnLeaves, ProgFacts, Zenon DEF Return
  <1>2. \A b, s : ~ AtMost(b, s)'  BY <1>1, Zenon DEF AtMost
  <1>3. VerdictInv'  BY <1>1, ProgFacts DEF BootInv, VerdictInv, Checks
  <1>4. /\ DOMAIN state' = Checks /\ \A c \in Checks : c # check => state'[c] = state[c]
    BY <1>1, Zenon DEF BootInv, QemuInv, TerminateChild
  <1>5. QemuInv'  BY <1>1, <1>2, <1>4, ProgFacts DEF BootInv, QemuInv, Checks
  <1>6. \A c \in Checks : state'[c] = "running" => state[c] = "running"
    BY <1>1, Zenon DEF BootInv, QemuInv, TerminateChild
  <1>7. OrphansAreRare'  BY <1>1, <1>4, <1>6, Zenon DEF BootInv, VerdictInv, OrphansAreRare, Running
  <1>8. OkMeansBooted'  BY <1>1, Zenon DEF BootInv, VerdictInv, OkMeansBooted
  <1> QED  BY <1>3, <1>5, <1>7, <1>8, Zenon DEF BootInv

(* Polling, and time.                                                      *)
LEMMA BootStays ==
  ASSUME BootInv, UNCHANGED <<check, subcommand, todo, verdict, log, state, printed>>
  PROVE  BootInv'
  BY Zenon DEF BootInv, VerdictInv, QemuInv, OrphansAreRare, OkMeansBooted, Running, AtMost

(* Every step keeps what the log and the QEMU processes are about.         *)
LEMMA BootNext == ProgInv /\ BootInv /\ [Next]_vars => BootInv'
  <1> SUFFICES ASSUME ProgInv, BootInv, [Next]_vars  PROVE BootInv'
    BY Zenon
  <1>0. /\ AtMost(1, 11) => "initialized" \in printed[check] /\ state[check] \notin {"none", "starting"}
        /\ AtMost(3, 14) => log \in {0, check} /\ (log = check => state[check] \notin {"none", "starting"})
        /\ todo # <<>> /\ ~ AtMost(2, 12) => state[check] = "none"
    BY Zenon DEF BootInv, QemuInv
  <1>1. ASSUME NEW sub \in Subcommands, Start(sub)  PROVE BootInv'
    <2>1. /\ check' = check + 1 /\ check' \in Checks /\ todo' # <<>> /\ todo = <<>>
          /\ Len(todo') = (IF sub = "boot-check" THEN 4 ELSE 15) /\ subcommand' = sub
          /\ UNCHANGED <<verdict, log, state, printed>>
      BY <1>1, StartLeaves, Zenon DEF Start, files, guest
    <2>2. ~ AtMost(3, 14)' /\ ~ AtMost(2, 12)' /\ ~ AtMost(1, 11)' /\ ~ AtMost(2, 12)
      BY <2>1 DEF AtMost
    <2>3. VerdictInv'  BY <2>1, ProgFacts DEF BootInv, VerdictInv, Checks
    <2>4. QemuInv'  BY <2>1, <2>2, ProgFacts DEF BootInv, QemuInv, Checks
    <2>5. OrphansAreRare' /\ OkMeansBooted'
      BY <2>1, Zenon DEF BootInv, OrphansAreRare, OkMeansBooted, Running
    <2> QED  BY <2>3, <2>4, <2>5, Zenon DEF BootInv
  <1>2. CASE RemoveLog
    <2>1. Left(4, 15) /\ UNCHANGED <<state, printed>>  BY <1>2, Where, Zenon DEF RemoveLog, guest
    <2>2. ~ AtMost(2, 12)  BY <2>1 DEF Left, AtMost
    <2>3. CASE Done /\ log' = 0
      <3>1. /\ UNCHANGED <<check, subcommand, verdict>> /\ todo # <<>> /\ todo' # <<>>
            /\ Len(todo) = (IF subcommand = "boot-check" THEN 4 ELSE 15) /\ Len(todo') = Len(todo) - 1
        BY <2>1, <2>3, DoneLeaves DEF Left
      <3>2. ~ AtMost(2, 12)' /\ ~ AtMost(1, 11)'  BY <3>1 DEF AtMost
      <3> QED
        BY <2>1, <2>2, <2>3, <3>1, <3>2, ProgFacts
           DEF BootInv, VerdictInv, QemuInv, OrphansAreRare, OkMeansBooted, Running, Checks
    <2>4. CASE Return("remove") /\ UNCHANGED log
      BY <1>0, <2>1, <2>2, <2>4, BootReturn, Zenon DEF Left
    <2> QED  BY <1>2, <2>3, <2>4, Zenon DEF RemoveLog
  <1>3. CASE RemoveDump
    <2>1. Left(0, 14) /\ UNCHANGED <<log, state, printed>>  BY <1>3, Where, Zenon DEF RemoveDump, guest
    <2>2. subcommand # "boot-check" /\ Len(todo) = 14 /\ todo # <<>>  BY <2>1, OnlyShell, Zenon DEF Left
    <2>3. ~ AtMost(2, 12) /\ AtMost(3, 14)  BY <2>2 DEF AtMost
    <2>4. CASE Done
      <3>1. UNCHANGED <<check, subcommand, verdict>> /\ todo' # <<>> /\ Len(todo') = 13
        BY <2>2, <2>4, DoneLeaves
      <3>2. ~ AtMost(2, 12)' /\ ~ AtMost(1, 11)'  BY <2>2, <3>1 DEF AtMost
      <3> QED
        BY <2>1, <2>2, <2>3, <3>1, <3>2, ProgFacts, Zenon
           DEF BootInv, VerdictInv, QemuInv, OrphansAreRare, OkMeansBooted, Running, Checks
    <2>5. CASE Return("remove")
      BY <1>0, <2>1, <2>2, <2>3, <2>5, BootReturn, Zenon
    <2> QED  BY <1>3, <2>4, <2>5, Zenon DEF RemoveDump
  <1>4. CASE Spawn
    <2>1. Left(3, 13) /\ UNCHANGED <<log, printed>>  BY <1>4, Where, Zenon DEF Spawn, guest, files
    <2>2. ~ AtMost(2, 12) /\ AtMost(3, 14) /\ todo # <<>>  BY <2>1 DEF Left, AtMost
    <2>3. CASE Done /\ state' = [state EXCEPT ![check] = "starting"]
      <3>1. /\ UNCHANGED <<check, subcommand, verdict>> /\ todo' # <<>>
            /\ Len(todo') = IF subcommand = "boot-check" THEN 2 ELSE 12
        <4>1. Len(todo) = IF subcommand = "boot-check" THEN 3 ELSE 13  BY <2>1, Zenon DEF Left
        <4>2. /\ UNCHANGED <<check, subcommand, verdict>>
              /\ Len(todo') = Len(todo) - 1 /\ (todo' # <<>> <=> Len(todo) > 1)
          BY <2>2, <2>3, DoneLeaves, Zenon
        <4> QED  BY <4>1, <4>2
      <3>2. AtMost(2, 12)' /\ ~ AtMost(1, 11)'  BY <3>1 DEF AtMost
      <3>3. log \in {0, check} /\ log # check /\ state[check] = "none"  BY <1>0, <2>2, Zenon
      <3>4. check \in Checks /\ verdict[check] = "none"  BY <2>2, ProgFacts, Zenon DEF BootInv, VerdictInv
      <3>5. /\ DOMAIN state' = Checks /\ state'[check] = "starting"
            /\ \A c \in Checks : c # check => state'[c] = state[c]
        BY <2>3, <3>4, Zenon DEF BootInv, QemuInv
      <3>6. VerdictInv' /\ OkMeansBooted'  BY <2>1, <2>2, <3>1, Zenon DEF BootInv, VerdictInv, OkMeansBooted
      <3>7. QemuInv'  BY <2>1, <2>2, <3>1, <3>2, <3>3, <3>5, ProgFacts DEF BootInv, QemuInv
      <3>8. OrphansAreRare'  BY <3>1, <3>5, Zenon DEF BootInv, OrphansAreRare, Running
      <3> QED  BY <3>6, <3>7, <3>8, Zenon DEF BootInv
    <2>4. CASE Return("spawn") /\ UNCHANGED state
      BY <1>0, <2>1, <2>2, <2>4, BootReturn, Zenon
    <2> QED  BY <1>4, <2>3, <2>4, Zenon DEF Spawn
  <1>5. ASSUME NEW m \in Markers, At(Wait(m))
        PROVE  /\ AtMost(2, 12) /\ AtMost(3, 14) /\ Len(todo) > 1 /\ Head(todo)[2] = m
               /\ AtMost(1, 11) \/ m = "initialized"
    <2>1. Head(todo)[2] = m /\ ((m = "initialized" /\ Left(2, 12)) \/ \E n \in {3, 4, 5, 11} : Left(0, n))
      BY <1>5, Where, Zenon
    <2>2. CASE Left(2, 12) /\ m = "initialized"  BY <2>1, <2>2 DEF Left, AtMost
    <2>3. ASSUME NEW n \in {3, 4, 5, 11}, Left(0, n)  PROVE AtMost(1, 11) /\ AtMost(2, 12) /\ AtMost(3, 14) /\ Len(todo) > 1
      BY <2>3, OnlyShell DEF Left, AtMost
    <2> QED  BY <2>1, <2>2, <2>3, Zenon
  <1>6. CASE LookForMarker
    <2>1. PICK m \in Markers : At(Wait(m))  BY <1>6, Zenon DEF LookForMarker, Waiting
    <2>2. UNCHANGED <<log, state, printed>>  BY <1>6, Zenon DEF LookForMarker, files, guest
    <2>3. CASE Found /\ Done
      <3>1. log = check /\ m \in printed[check]  BY <1>0, <1>5, <2>1, <2>3, Zenon DEF Found
      <3>2. "initialized" \in printed[check] /\ state[check] \notin {"none", "starting"}
        BY <1>0, <1>5, <2>1, <3>1, Zenon
      <3> QED  BY <1>5, <2>1, <2>2, <2>3, <3>2, BootDone, Zenon
    <2>4. CASE PollAt("try_wait")  BY <2>2, <2>4, BootStays, Zenon DEF PollAt
    <2> QED  BY <1>6, <2>3, <2>4, Zenon DEF LookForMarker
  <1>7. CASE TryWait
    <2>1. todo # <<>> /\ UNCHANGED <<log, state, printed>>  BY <1>7, Zenon DEF TryWait, Waiting, At, files, guest
    <2>2. CASE state[check] = "exited" /\ Return("exited")  BY <2>1, <2>2, BootReturn, Zenon
    <2>3. CASE PollAt("elapsed")  BY <2>1, <2>3, BootStays, Zenon DEF PollAt
    <2> QED  BY <1>7, <2>2, <2>3, Zenon DEF TryWait
  <1>8. todo # <<>> /\ TerminateChild => state'[check] = "exited"
    BY ProgFacts, Zenon DEF TerminateChild, BootInv, QemuInv
  <1>9. CASE Elapsed
    <2>1. todo # <<>> /\ UNCHANGED <<log, printed>>  BY <1>9, Zenon DEF Elapsed, Waiting, At, files, guest
    <2>2. CASE TerminateChild /\ Return("timeout")  BY <1>8, <2>1, <2>2, BootReturn, Zenon
    <2>3. CASE PollAt("marker") /\ UNCHANGED state  BY <2>1, <2>3, BootStays, Zenon DEF PollAt
    <2> QED  BY <1>9, <2>2, <2>3, Zenon DEF Elapsed
  <1>10. CASE LogUnreadable
    <2>1. PICK m \in Markers : At(Wait(m))  BY <1>10, Zenon DEF LogUnreadable, Waiting
    <2>2. todo # <<>> /\ UNCHANGED <<log, state, printed>> /\ log # 0 /\ Return("log_unreadable")
      BY <1>10, <2>1, Zenon DEF LogUnreadable, At, files, guest
    <2>3. state[check] # "starting"  BY <1>0, <1>5, <2>1, <2>2, Zenon
    <2>4. "log_unreadable" \in OrphanReasons  BY Zenon DEF OrphanReasons
    <2> QED  BY <2>2, <2>3, <2>4, BootReturn, Zenon
  <1>11. ASSUME NEW n, n \in {2, 6, 7, 8, 9, 10}, Left(0, n)
         PROVE  /\ AtMost(2, 12) /\ AtMost(1, 11) /\ Len(todo) > 1 /\ todo # <<>>
                /\ "initialized" \in printed[check] /\ state[check] \notin {"none", "starting"}
    BY <1>0, <1>11, OnlyShell DEF AtMost, Left
  <1>12. CASE ConnectMonitor
    <2>1. Left(0, 10) /\ UNCHANGED <<log, state, printed>>  BY <1>12, Where, Zenon DEF ConnectMonitor, files, guest
    <2>2. CASE Done  BY <1>11, <2>1, <2>2, BootDone, Zenon
    <2>3. CASE ~ Running(check) /\ Return("monitor")  BY <1>11, <2>1, <2>3, BootReturn, Zenon DEF Running
    <2> QED  BY <1>12, <2>2, <2>3, Zenon DEF ConnectMonitor
  <1>13. CASE SendMonitorCommand
    <2>1. PICK n \in {6, 7, 8, 9} : Left(0, n)  BY <1>13, Where, Zenon DEF SendMonitorCommand
    <2>2. UNCHANGED <<log, state, printed>>  BY <1>13, Zenon DEF SendMonitorCommand, files
    <2>3. CASE Done  BY <1>11, <2>1, <2>2, <2>3, BootDone, Zenon
    <2>4. CASE ~ Running(check) /\ Return("send")  BY <1>11, <2>1, <2>2, <2>4, BootReturn, Zenon DEF Running
    <2> QED  BY <1>13, <2>3, <2>4, Zenon DEF SendMonitorCommand
  <1>14. CASE ValidatePpmScreenshot
    <2>1. Left(0, 2) /\ UNCHANGED <<log, state, printed>>
      BY <1>14, Where, Zenon DEF ValidatePpmScreenshot, files, guest
    <2>2. CASE Done  BY <1>11, <2>1, <2>2, BootDone, Zenon
    <2>3. "screenshot" \in OrphanReasons  BY Zenon DEF OrphanReasons
    <2>4. CASE Return("screenshot")  BY <1>11, <2>1, <2>3, <2>4, BootReturn, Zenon
    <2> QED  BY <1>14, <2>2, <2>4, Zenon DEF ValidatePpmScreenshot
  <1>15. CASE Pass
    <2>1. Left(1, 1) /\ UNCHANGED <<log, printed>> /\ TerminateChild /\ Return("ok")
      BY <1>15, Where, Zenon DEF Pass, files, guest
    <2>2. AtMost(1, 11) /\ todo # <<>>  BY <2>1 DEF Left, AtMost
    <2> QED  BY <1>0, <1>8, <2>1, <2>2, BootReturn, Zenon
  <1>16. ASSUME NEW c \in Checks, QemuStep(c)  PROVE BootInv'
    <2> USE <1>16
    <2>0. UNCHANGED <<check, subcommand, todo, verdict>> /\ \A b, s : AtMost(b, s)' <=> AtMost(b, s)
      BY Zenon DEF QemuStep, QemuOpens, QemuExits, KernelPrints, MonitorSendKeys, MonitorScreendump,
             ShellExecutes, harness, AtMost
    <2>1. CASE QemuOpens(c)
      <3>1. state[c] = "starting" /\ log' = c /\ UNCHANGED printed  BY <2>1, Zenon DEF QemuOpens, guest
      <3>2. c = check /\ AtMost(2, 12)  BY <3>1, Zenon DEF BootInv, QemuInv
      <3>3. /\ DOMAIN state' = Checks /\ state'[c] \notin {"none", "starting"}
            /\ \A d \in Checks : d # c => state'[d] = state[d]
            /\ state'[c] = "running" => \A d \in Checks : state[d] # "running"
        BY <2>1, Zenon DEF QemuOpens, BootInv, QemuInv, Running
      <3>4. VerdictInv' /\ OkMeansBooted'  BY <2>0, <3>1, Zenon DEF BootInv, VerdictInv, OkMeansBooted
      <3>5. QemuInv'  BY <2>0, <3>1, <3>2, <3>3, ProgFacts, Zenon DEF BootInv, QemuInv
      <3>6. verdict[c] = "none"  BY <3>2, Zenon DEF BootInv, VerdictInv, AtMost
      <3>7. OrphansAreRare'  BY <2>0, <3>3, <3>6, Zenon DEF BootInv, OrphansAreRare, Running
      <3> QED  BY <3>4, <3>5, <3>7, Zenon DEF BootInv
    <2>2. CASE QemuExits(c)
      <3>1. UNCHANGED <<log, printed>> /\ state[c] \in {"starting", "running"}  BY <2>2, Zenon DEF QemuExits, guest, files
      <3>2. /\ DOMAIN state' = Checks /\ state'[c] = "exited"
            /\ \A d \in Checks : d # c => state'[d] = state[d]
        BY <2>2, Zenon DEF QemuExits, BootInv, QemuInv
      <3>3. VerdictInv' /\ OkMeansBooted'  BY <2>0, <3>1, Zenon DEF BootInv, VerdictInv, OkMeansBooted
      <3>4. QemuInv'
        <4>1. todo # <<>> /\ ~ AtMost(2, 12) => c # check  BY <1>0, <3>1, Zenon
        <4>2. check \in Checks => (state'[check] \in {"none", "starting"} => state'[check] = state[check])
          BY <3>2, Zenon
        <4>3. \A b, s : AtMost(b, s) => check \in Checks  BY ProgFacts, Zenon DEF AtMost
        <4> QED  BY <2>0, <3>1, <3>2, <4>1, <4>2, <4>3, ProgFacts, Zenon DEF BootInv, QemuInv
      <3>5. OrphansAreRare'  BY <2>0, <3>2, Zenon DEF BootInv, OrphansAreRare, Running
      <3> QED  BY <3>3, <3>4, <3>5, Zenon DEF BootInv
    <2>3. ASSUME NEW m, printed' = [printed EXCEPT ![c] = @ \cup {m}], UNCHANGED <<log, state>>
          PROVE  BootInv'
      <3>1. DOMAIN printed' = Checks /\ \A d \in Checks : printed[d] \subseteq printed'[d]
        BY <2>3, Zenon DEF BootInv, QemuInv
      <3>2. VerdictInv' /\ OrphansAreRare'  BY <2>0, <2>3, Zenon DEF BootInv, VerdictInv, OrphansAreRare, Running
      <3>3. QemuInv'
        <4>1. AtMost(1, 11) => check \in Checks  BY ProgFacts, Zenon DEF AtMost
        <4> QED  BY <2>0, <2>3, <3>1, <4>1, Zenon DEF BootInv, QemuInv
      <3>4. OkMeansBooted'  BY <2>0, <3>1, Zenon DEF BootInv, OkMeansBooted
      <3> QED  BY <3>2, <3>3, <3>4, Zenon DEF BootInv
    <2>4. CASE KernelPrints(c)  BY <2>3, <2>4, Zenon DEF KernelPrints, files
    <2>5. CASE ShellExecutes(c)  BY <2>3, <2>5, Zenon DEF ShellExecutes, files
    <2>6. CASE MonitorSendKeys(c) \/ MonitorScreendump(c)
      BY <2>0, <2>6, BootStays, Zenon DEF MonitorSendKeys, MonitorScreendump, files
    <2> QED  BY <2>1, <2>2, <2>4, <2>5, <2>6, Zenon DEF QemuStep
  <1>17. CASE TimePasses  BY <1>17, BootStays, Zenon DEF TimePasses, files, guest
  <1>18. CASE UNCHANGED vars  BY <1>18, BootStays, Zenon DEF vars, harness, files, guest
  <1> QED
    BY <1>1, <1>2, <1>3, <1>4, <1>6, <1>7, <1>9, <1>10, <1>12, <1>13, <1>14, <1>15, <1>16, <1>17, <1>18, Zenon
       DEF Next, HarnessStep

-----------------------------------------------------------------------------
(* What a shell-check passes on                                            *)

(* A QEMU that runs is that of the check under way, or an orphan.          *)
LEMMA OwnOrOrphan ==
  ASSUME ProgInv, BootInv, NEW c \in Checks, Running(c)
  PROVE  \/ c = check /\ todo # <<>>
         \/ c = check /\ todo = <<>> /\ verdict[c] # "ok"
         \/ c < check /\ Orphaned
  <1>1. c <= check  BY ProgFacts DEF BootInv, QemuInv, Running, Checks
  <1>2. CASE c = check /\ todo = <<>>
    BY <1>2, Zenon DEF BootInv, OrphansAreRare, OrphanReasons
  <1>3. CASE c < check
    <2>1. verdict[c] # "none"  BY <1>3, ProgFacts DEF BootInv, VerdictInv, Checks
    <2>2. verdict[c] \in OrphanReasons  BY <2>1, Zenon DEF BootInv, OrphansAreRare
    <2>3. c \in 1 .. check - 1  BY <1>3, ProgFacts DEF Checks
    <2> QED  BY <1>3, <2>2, <2>3, Zenon DEF Orphaned
  <1> QED  BY <1>1, <1>2, <1>3, ProgFacts DEF Checks

(* An operation that is done and touches neither the dump nor the monitor. *)
LEMMA ShellDone ==
  ASSUME ProgInv, ShellInv, todo # <<>>, Done, UNCHANGED <<dump, printed, monitor>>,
         ~ Left(0, 14),
         Left(0, 2) => dump = [by |-> check, is |-> "image"] \/ Orphaned,
         Left(0, 5) => "help" \in printed[check],
         Left(0, 4) => "info" \in printed[check],
         Left(0, 3) => "ls" \in printed[check]
  PROVE  ShellInv'
  <1>1. /\ UNCHANGED <<check, subcommand, verdict>> /\ Len(todo') = Len(todo) - 1
        /\ Len(todo) \in Nat /\ (todo' # <<>> <=> Len(todo) > 1)
    BY DoneLeaves, ProgFacts, Zenon
  <1>2. /\ AtMost(0, 13)' => AtMost(0, 13)
        /\ AtMost(0, 5) => ~ (todo' # <<>> /\ ~ AtMost(0, 5)')
        /\ AtMost(0, 1)' => AtMost(0, 1) \/ Left(0, 2)
        /\ AtMost(0, 4)' => AtMost(0, 4) \/ Left(0, 5)
        /\ AtMost(0, 3)' => AtMost(0, 3) \/ Left(0, 4)
        /\ AtMost(0, 2)' => AtMost(0, 2) \/ Left(0, 3)
    <2>1. Len(todo) > 0 /\ subcommand' = subcommand  BY <1>1, ProgFacts, Zenon
    <2>2. CASE subcommand = "boot-check"
      <3>1. \A s : ~ AtMost(0, s) /\ ~ AtMost(0, s)'  BY <1>1, <2>1, <2>2 DEF AtMost
      <3> QED  BY <3>1, Zenon
    <2>3. CASE subcommand # "boot-check"
      <3>1. \A s : AtMost(0, s) <=> Len(todo) <= s  BY <2>1, <2>3, Zenon DEF AtMost
      <3>2. \A s : AtMost(0, s)' <=> Len(todo) > 1 /\ Len(todo) - 1 <= s  BY <1>1, <2>1, <2>3, Zenon DEF AtMost
      <3>3. \A s : Left(0, s) <=> Len(todo) = s  BY <2>1, <2>3, Zenon DEF Left
      <3> QED  BY <1>1, <3>1, <3>2, <3>3, SMTT(40)
    <2> QED  BY <2>2, <2>3, Zenon
  <1>3. Orphaned' <=> Orphaned  BY <1>1, Zenon DEF Orphaned
  <1>4. DumpInv'  BY <1>1, <1>2, <1>3, SMTT(40) DEF ShellInv, DumpInv, NoScreendump
  <1>5. CommandInv'  BY <1>1, <1>2, Zenon DEF ShellInv, CommandInv
  <1>6. OkMeansDumped'  BY <1>1, Zenon DEF ShellInv, OkMeansDumped
  <1> QED  BY <1>4, <1>5, <1>6, Zenon DEF ShellInv

(* A check that returns.                                                   *)
LEMMA ShellReturn ==
  ASSUME ProgInv, BootInv, ShellInv, todo # <<>>, NEW outcome, Return(outcome),
         UNCHANGED <<dump, printed, monitor>>,
         outcome = "ok" /\ subcommand = "shell-check" =>
           Commands \subseteq printed[check] /\ (dump = [by |-> check, is |-> "image"] \/ Orphaned)
  PROVE  ShellInv'
  <1>1. /\ UNCHANGED <<check, subcommand>> /\ todo' = <<>> /\ check \in Checks /\ DOMAIN verdict = Checks
        /\ verdict' = [verdict EXCEPT ![check] = outcome]
    BY ReturnLeaves, ProgFacts, Zenon DEF Return, BootInv, VerdictInv
  <1>2. \A b, s : ~ AtMost(b, s)'  BY <1>1, Zenon DEF AtMost
  <1>3. \A d \in 1 .. check - 1 : verdict'[d] = verdict[d]  BY <1>1, ProgFacts, SMTT(40) DEF Checks
  <1>4. DumpInv'  BY <1>1, <1>2, SMTT(40) DEF ShellInv, DumpInv, NoScreendump
  <1>5. CommandInv'  BY <1>2, Zenon DEF CommandInv
  <1>6. verdict'[check] = outcome  BY <1>1, Zenon
  <1>7. OkMeansDumped'  BY <1>1, <1>3, <1>6, Zenon DEF OkMeansDumped, Orphaned
  <1> QED  BY <1>4, <1>5, <1>7, Zenon DEF ShellInv

(* Polling, time, and what QEMU does to neither dump nor monitor.          *)
LEMMA ShellStays ==
  ASSUME ShellInv, UNCHANGED <<check, subcommand, todo, verdict, dump, printed, monitor>>
  PROVE  ShellInv'
  <1>1. DumpInv'  BY SMTT(40) DEF ShellInv, DumpInv, NoScreendump, AtMost, Orphaned
  <1>2. CommandInv' /\ OkMeansDumped'  BY Zenon DEF ShellInv, CommandInv, OkMeansDumped, AtMost
  <1> QED  BY <1>1, <1>2, Zenon DEF ShellInv

(* A command sent: a screendump is the first in its monitor.               *)
LEMMA ShellSend ==
  ASSUME ProgInv, ShellInv, NEW command \in Messages, At(Send(command)), Done, UNCHANGED <<dump, printed>>,
         monitor' = [monitor EXCEPT ![check] = Append(@, command)]
  PROVE  ShellInv'
  <1>1. todo # <<>> /\ check \in Checks  BY ProgFacts, Zenon DEF At
  <1>2. /\ UNCHANGED <<check, subcommand, verdict>> /\ Len(todo') = Len(todo) - 1
        /\ (todo' # <<>> <=> Len(todo) > 1)
    BY <1>1, DoneLeaves, Zenon
  <1>3. /\ command = "screendump" => Left(0, 6)
        /\ command # "screendump" => Left(0, 7) \/ Left(0, 8) \/ Left(0, 9)
    BY Where, Zenon DEF Messages
  <1>4. subcommand # "boot-check" /\ Len(todo) \in Nat /\ Len(todo) >= 6 /\ Len(todo) <= 9
    BY <1>3, OnlyShell
  <1>5. /\ ~ AtMost(0, 5) /\ ~ AtMost(0, 4)' /\ ~ AtMost(0, 3)' /\ ~ AtMost(0, 2)' /\ ~ AtMost(0, 1)'
        /\ AtMost(0, 13)
    BY <1>1, <1>2, <1>4 DEF AtMost
  <1>6. command = "screendump" => AtMost(0, 5)'
    <2>1. CASE command = "screendump"
      <3>1. Len(todo) = 6  BY <1>3, <2>1, OnlyShell, Zenon
      <3> QED  BY <1>2, <1>4, <3>1 DEF AtMost
    <2> QED  BY <2>1, Zenon
  <1>7. NoScreendump(check) /\ dump.by # check  BY <1>1, <1>5, Zenon DEF ShellInv, DumpInv
  <1>8. /\ monitor' \in [Checks -> Seq(Messages)] /\ monitor[check] \in Seq(Messages)
        /\ \A c \in Checks : c # check => monitor'[c] = monitor[c]
        /\ monitor'[check] = Append(monitor[check], command)
    <2>1. monitor \in [Checks -> Seq(Messages)]  BY Zenon DEF ShellInv, DumpInv
    <2>2. Append(monitor[check], command) \in Seq(Messages)  BY <1>1, <2>1
    <2> QED  BY <1>1, <2>1, <2>2, Zenon
  <1>9. /\ Len(monitor'[check]) = Len(monitor[check]) + 1 /\ Len(monitor[check]) \in Nat
        /\ \A k \in 1 .. Len(monitor[check]) : monitor'[check][k] # "screendump"
        /\ monitor'[check][Len(monitor[check]) + 1] = command
    BY <1>7, <1>8 DEF NoScreendump
  <1>10. Orphaned' <=> Orphaned  BY <1>2, Zenon DEF Orphaned
  <1>11. \A c \in Checks : \A j, k \in 1 .. Len(monitor'[c]) :
           monitor'[c][j] = "screendump" /\ monitor'[c][k] = "screendump" => j = k
    <2>1. \A k \in 1 .. Len(monitor'[check]) :
            monitor'[check][k] = "screendump" => k = Len(monitor[check]) + 1
      BY <1>9
    <2> QED  BY <1>8, <2>1 DEF ShellInv, DumpInv
  <1>12. \A c \in Checks : dump' = [by |-> c, is |-> "image"] => NoScreendump(c)'
    BY <1>7, <1>8 DEF ShellInv, DumpInv, NoScreendump
  <1>13. todo' # <<>> /\ ~ AtMost(0, 5)' => NoScreendump(check)' /\ dump'.by # check'
    <2>1. CASE command # "screendump"
      <3>1. \A k \in 1 .. Len(monitor'[check]) : monitor'[check][k] # "screendump"  BY <1>9, <2>1, SMTT(40)
      <3> QED  BY <1>2, <1>7, <3>1, Zenon DEF NoScreendump
    <2> QED  BY <1>6, <2>1, Zenon
  <1>14. DumpInv'
    <2>1. \A c \in Checks : c > check => monitor'[c] = <<>>
      BY <1>1, <1>8, ProgFacts DEF ShellInv, DumpInv, Checks
    <2>2. dump' \in [by : 0 .. check, is : {"absent", "short", "image"}]  BY Zenon DEF ShellInv, DumpInv
    <2>3. dump = NoDump \/ dump.by = check \/ Orphaned  BY <1>5, Zenon DEF ShellInv, DumpInv
    <2> QED  BY <1>2, <1>5, <1>8, <1>10, <1>11, <1>12, <1>13, <2>1, <2>2, <2>3, Zenon DEF DumpInv
  <1>15. CommandInv'  BY <1>5, Zenon DEF CommandInv
  <1>16. OkMeansDumped'  BY <1>2, Zenon DEF ShellInv, OkMeansDumped
  <1> QED  BY <1>14, <1>15, <1>16, Zenon DEF ShellInv

(* The monitor has taken its first command.                                *)
LEMMA MonitorTakes ==
  ASSUME ShellInv, NEW c \in Checks, monitor[c] # <<>>, monitor' = [monitor EXCEPT ![c] = Tail(@)]
  PROVE  /\ monitor' \in [Checks -> Seq(Messages)]
         /\ \A d \in Checks : d # c => monitor'[d] = monitor[d]
         /\ Len(monitor'[c]) = Len(monitor[c]) - 1 /\ Len(monitor[c]) \in Nat
         /\ \A k \in 1 .. Len(monitor'[c]) : k + 1 \in 1 .. Len(monitor[c]) /\ monitor'[c][k] = monitor[c][k + 1]
  <1>1. monitor \in [Checks -> Seq(Messages)] /\ monitor[c] \in Seq(Messages)  BY Zenon DEF ShellInv, DumpInv
  <1>2. Tail(monitor[c]) \in Seq(Messages) /\ Len(Tail(monitor[c])) = Len(monitor[c]) - 1
    BY <1>1
  <1>3. \A k \in 1 .. Len(Tail(monitor[c])) : Tail(monitor[c])[k] = monitor[c][k + 1]  BY <1>1
  <1>4. monitor'[c] = Tail(monitor[c])  BY <1>1, Zenon
  <1>5. Len(monitor[c]) \in Nat  BY <1>1
  <1>6. monitor' \in [Checks -> Seq(Messages)] /\ \A d \in Checks : d # c => monitor'[d] = monitor[d]
    BY <1>1, <1>2, Zenon
  <1> QED  BY <1>2, <1>3, <1>4, <1>5, <1>6

(* The monitor creates the dump, or has written it.                        *)
LEMMA ShellScreendump ==
  ASSUME ProgInv, BootInv, ShellInv, NEW c \in Checks, MonitorScreendump(c)
  PROVE  ShellInv'
  <1>1. /\ UNCHANGED <<check, subcommand, todo, verdict, printed>> /\ Running(c)
        /\ monitor[c] # <<>> /\ Head(monitor[c]) = "screendump"
    BY Zenon DEF MonitorScreendump, harness
  <1>2. \A b, s : AtMost(b, s)' <=> AtMost(b, s)  BY <1>1, Zenon DEF AtMost
  <1>3. Orphaned' <=> Orphaned  BY <1>1, Zenon DEF Orphaned
  <1>4. /\ monitor \in [Checks -> Seq(Messages)] /\ monitor[c] \in Seq(Messages)
        /\ Len(monitor[c]) \in Nat /\ Len(monitor[c]) > 0 /\ monitor[c][1] = "screendump"
    BY <1>1 DEF ShellInv, DumpInv
  <1>5. \A k \in 1 .. Len(monitor[c]) : monitor[c][k] = "screendump" => k = 1
    BY <1>4 DEF ShellInv, DumpInv
  <1>6. c <= check /\ check \in Nat /\ c \in 0 .. check
    BY <1>1, OwnOrOrphan, ProgFacts DEF Checks
  <1>7. todo # <<>> /\ ~ AtMost(0, 5) => c # check
    BY <1>4 DEF ShellInv, DumpInv, NoScreendump
  <1>8. c = check \/ Orphaned  BY <1>1, OwnOrOrphan, Zenon
  <1>9. dump # [by |-> c, is |-> "image"]
    BY <1>4 DEF ShellInv, DumpInv, NoScreendump
  <1>10. c = check /\ AtMost(0, 1) => Orphaned
    BY <1>9, Zenon DEF ShellInv, DumpInv
  <1>11. verdict[check] = "ok" /\ check \in Checks => c # check
    BY <1>1, OwnOrOrphan, Zenon DEF BootInv, VerdictInv
  <1>12. CommandInv'  BY <1>1, <1>2, Zenon DEF ShellInv, CommandInv
  <1>13. OkMeansDumped'  BY <1>1, <1>8, <1>11, Zenon DEF ShellInv, OkMeansDumped, Orphaned
  <1>14. ASSUME dump' = [by |-> c, is |-> "short"], UNCHANGED monitor  PROVE DumpInv'
    <2>1. dump' \in [by : 0 .. check, is : {"absent", "short", "image"}] /\ dump'.by = c /\ dump'.is = "short"
      BY <1>6, <1>14, Zenon
    <2>2. \A d \in Checks : dump' # [by |-> d, is |-> "image"]  BY <2>1
    <2>3. todo # <<>> /\ ~ AtMost(0, 5) => NoScreendump(check)'
      BY <1>1, <1>14, Zenon DEF ShellInv, DumpInv, NoScreendump
    <2> QED  BY <1>1, <1>2, <1>3, <1>7, <1>8, <1>10, <1>14, <2>1, <2>2, <2>3 DEF ShellInv, DumpInv, NoScreendump
  <1>15. ASSUME dump' = [by |-> c, is |-> "image"], monitor' = [monitor EXCEPT ![c] = Tail(@)]  PROVE DumpInv'
    <2>1. dump' \in [by : 0 .. check, is : {"absent", "short", "image"}] /\ dump'.by = c
      BY <1>6, <1>15, Zenon
    <2>2. /\ monitor' \in [Checks -> Seq(Messages)]
          /\ \A d \in Checks : d # c => monitor'[d] = monitor[d]
          /\ \A k \in 1 .. Len(monitor'[c]) : monitor'[c][k] # "screendump"
      <3>1. /\ monitor' \in [Checks -> Seq(Messages)]
            /\ \A d \in Checks : d # c => monitor'[d] = monitor[d]
            /\ Len(monitor'[c]) = Len(monitor[c]) - 1
            /\ \A k \in 1 .. Len(monitor'[c]) : k + 1 \in 1 .. Len(monitor[c]) /\ monitor'[c][k] = monitor[c][k + 1]
        BY <1>1, <1>15, MonitorTakes, Zenon
      <3>2. ASSUME NEW k \in 1 .. Len(monitor'[c])  PROVE monitor'[c][k] # "screendump"
        <4>1. k + 1 # 1  BY <1>4, <3>1
        <4> QED  BY <1>5, <3>1, <4>1, Zenon
      <3> QED  BY <3>1, <3>2, Zenon
    <2>3. \A d \in Checks : dump' = [by |-> d, is |-> "image"] => NoScreendump(d)'
      BY <1>15, <2>2, Zenon DEF NoScreendump
    <2>4. \A d \in Checks : d > check' => monitor'[d] = <<>>
      BY <1>1, <1>6, <2>2, Zenon DEF ShellInv, DumpInv
    <2>5. \A d \in Checks : \A j, k \in 1 .. Len(monitor'[d]) :
            monitor'[d][j] = "screendump" /\ monitor'[d][k] = "screendump" => j = k
      <3>1. \A d \in Checks : \A j, k \in 1 .. Len(monitor[d]) :
              monitor[d][j] = "screendump" /\ monitor[d][k] = "screendump" => j = k
        BY Zenon DEF ShellInv, DumpInv
      <3> QED  BY <2>2, <3>1, Zenon
    <2>6. todo' # <<>> /\ ~ AtMost(0, 5)' => NoScreendump(check)' /\ dump'.by # check'
      <3>1. CASE todo # <<>> /\ ~ AtMost(0, 5)
        <4>1. NoScreendump(check) /\ check # c /\ check \in Checks
          BY <1>7, <3>1, ProgFacts, Zenon DEF ShellInv, DumpInv
        <4>2. \A k \in 1 .. Len(monitor'[check]) : monitor'[check][k] # "screendump"
          BY <2>2, <4>1, Zenon DEF NoScreendump
        <4> QED  BY <1>1, <2>1, <4>1, <4>2, Zenon DEF NoScreendump
      <3> QED  BY <1>1, <1>2, <3>1, Zenon
    <2>7. dump' = [by |-> check, is |-> "image"] \/ Orphaned  BY <1>8, <1>15, Zenon
    <2>8. dump'.by = check \/ Orphaned  BY <1>8, <2>1, Zenon
    <2> QED  BY <1>1, <1>2, <1>3, <2>1, <2>2, <2>3, <2>4, <2>5, <2>6, <2>7, <2>8, Zenon DEF DumpInv
  <1> QED  BY <1>12, <1>13, <1>14, <1>15, Zenon DEF ShellInv, MonitorScreendump

(* The monitor types a command.                                            *)
LEMMA ShellSendKeys ==
  ASSUME ProgInv, ShellInv, NEW c \in Checks, MonitorSendKeys(c)
  PROVE  ShellInv'
  <1>1. UNCHANGED <<check, subcommand, todo, verdict, printed, dump>> /\ monitor[c] # <<>>
    BY Zenon DEF MonitorSendKeys, harness, files
  <1>2. monitor' = [monitor EXCEPT ![c] = Tail(@)]  BY Zenon DEF MonitorSendKeys
  <1>3. \A b, s : AtMost(b, s)' <=> AtMost(b, s)  BY <1>1, Zenon DEF AtMost
  <1>4. Orphaned' <=> Orphaned  BY <1>1, Zenon DEF Orphaned
  <1>5. /\ monitor' \in [Checks -> Seq(Messages)]
        /\ \A d \in Checks : d # c => monitor'[d] = monitor[d]
        /\ Len(monitor[c]) \in Nat /\ Len(monitor'[c]) = Len(monitor[c]) - 1
        /\ \A k \in 1 .. Len(monitor'[c]) : k + 1 \in 1 .. Len(monitor[c]) /\ monitor'[c][k] = monitor[c][k + 1]
    BY <1>1, <1>2, MonitorTakes, Zenon
  <1>6. \A d \in Checks : NoScreendump(d) => NoScreendump(d)'
    BY <1>5, ZenonT(40) DEF NoScreendump
  <1>7. \A d \in Checks : d > check => monitor'[d] = <<>>
    <2>1. c <= check  BY <1>1, ProgFacts DEF ShellInv, DumpInv, Checks
    <2> QED  BY <1>5, <2>1, ProgFacts DEF ShellInv, DumpInv, Checks
  <1>8. ASSUME NEW d \in Checks, NEW j \in 1 .. Len(monitor'[d]), NEW k \in 1 .. Len(monitor'[d]),
               monitor'[d][j] = "screendump", monitor'[d][k] = "screendump"
        PROVE  j = k
    <2>1. CASE d # c  BY <1>5, <1>8, <2>1 DEF ShellInv, DumpInv
    <2>2. CASE d = c
      <3>1. /\ j + 1 \in 1 .. Len(monitor[c]) /\ monitor[c][j + 1] = "screendump"
            /\ k + 1 \in 1 .. Len(monitor[c]) /\ monitor[c][k + 1] = "screendump"
        BY <1>5, <1>8, <2>2, Zenon
      <3>2. j + 1 = k + 1  BY <3>1, Zenon DEF ShellInv, DumpInv
      <3>3. j \in Int /\ k \in Int  BY <1>5, <2>2, SMTT(40)
      <3> QED  BY <3>2, <3>3
    <2> QED  BY <2>1, <2>2, Zenon
  <1>9. DumpInv'
    <2>1. \A d \in Checks : dump' = [by |-> d, is |-> "image"] => NoScreendump(d)'
      BY <1>1, <1>6, Zenon DEF ShellInv, DumpInv
    <2>2. todo' # <<>> /\ ~ AtMost(0, 5)' => NoScreendump(check)' /\ dump'.by # check'
      <3>1. CASE todo # <<>> /\ ~ AtMost(0, 5)
        <4>1. NoScreendump(check) /\ dump.by # check /\ check \in Checks
          BY <3>1, ProgFacts, Zenon DEF ShellInv, DumpInv
        <4>2. \A k \in 1 .. Len(monitor'[check]) : monitor'[check][k] # "screendump"
          BY <1>6, <4>1, Zenon DEF NoScreendump
        <4> QED  BY <1>1, <4>1, <4>2, Zenon DEF NoScreendump
      <3> QED  BY <1>1, <1>3, <3>1, Zenon
    <2> QED  BY <1>1, <1>3, <1>4, <1>5, <1>7, <1>8, <2>1, <2>2, Zenon DEF ShellInv, DumpInv
  <1>10. CommandInv'  BY <1>1, <1>3, Zenon DEF ShellInv, CommandInv
  <1>11. OkMeansDumped'  BY <1>1, Zenon DEF ShellInv, OkMeansDumped
  <1> QED  BY <1>9, <1>10, <1>11, Zenon DEF ShellInv

(* The kernel or its shell prints.                                         *)
LEMMA ShellPrints ==
  ASSUME ProgInv, BootInv, ShellInv, NEW c \in Checks, NEW m,
         printed' = [printed EXCEPT ![c] = @ \cup {m}],
         UNCHANGED <<check, subcommand, todo, verdict, dump, monitor>>
  PROVE  ShellInv'
  <1>1. \A d \in Checks : printed[d] \subseteq printed'[d]  BY Zenon DEF BootInv, QemuInv
  <1>2. \A b, s : /\ AtMost(b, s)' <=> AtMost(b, s)
                  /\ AtMost(b, s) => check \in Checks
    BY ProgFacts, Zenon DEF AtMost
  <1>3. DumpInv'  BY <1>2 DEF ShellInv, DumpInv, NoScreendump, Orphaned
  <1>4. CommandInv'  BY <1>1, <1>2, Zenon DEF ShellInv, CommandInv
  <1>5. OkMeansDumped'  BY <1>1, Zenon DEF ShellInv, OkMeansDumped
  <1> QED  BY <1>3, <1>4, <1>5, Zenon DEF ShellInv

(* Every step keeps what the monitor and the dump are about.               *)
LEMMA ShellNext == ProgInv /\ BootInv /\ ShellInv /\ [Next]_vars => ShellInv'
  <1> SUFFICES ASSUME ProgInv, BootInv, ShellInv, [Next]_vars  PROVE ShellInv'
    BY Zenon
  <1>1. ASSUME NEW sub \in Subcommands, Start(sub)  PROVE ShellInv'
    <2>1. /\ check' = check + 1 /\ check' \in Checks /\ check \in Nat /\ todo' # <<>> /\ todo = <<>>
          /\ Len(todo') = (IF sub = "boot-check" THEN 4 ELSE 15) /\ subcommand' = sub
          /\ UNCHANGED <<verdict, dump, monitor, printed>>
      BY <1>1, StartLeaves, ProgFacts, Zenon DEF Start, files, guest
    <2>2. \A s \in 1 .. 13 : ~ AtMost(0, s)'  BY <2>1 DEF AtMost
    <2>3. monitor[check'] = <<>> /\ verdict[check'] = "none"
      BY <2>1 DEF ShellInv, DumpInv, BootInv, VerdictInv
    <2>4. NoScreendump(check)'  BY <2>1, <2>3 DEF NoScreendump
    <2>5. dump' \in [by : 0 .. check', is : {"absent", "short", "image"}] /\ dump'.by # check'
      <3>1. dump \in [by : 0 .. check, is : {"absent", "short", "image"}]  BY Zenon DEF ShellInv, DumpInv
      <3>2. dump.by \in 0 .. check /\ 0 .. check \subseteq 0 .. check'  BY <2>1, <3>1
      <3>3. dump' \in [by : 0 .. check', is : {"absent", "short", "image"}]  BY <2>1, <3>1, <3>2, Zenon
      <3> QED  BY <2>1, <3>2, <3>3
    <2>6. \A c \in Checks : c > check' => monitor'[c] = <<>>
      BY <2>1, SMTT(40) DEF ShellInv, DumpInv, Checks
    <2>7. DumpInv'  BY <2>1, <2>2, <2>4, <2>5, <2>6 DEF ShellInv, DumpInv, NoScreendump
    <2>8. CommandInv'  BY <2>2, SMTT(40) DEF CommandInv
    <2>9. OkMeansDumped'  BY <2>1, <2>3, Zenon DEF OkMeansDumped
    <2> QED  BY <2>7, <2>8, <2>9, Zenon DEF ShellInv
  <1>2. CASE RemoveLog
    <2>1. Left(4, 15) /\ UNCHANGED <<dump, printed, monitor>>  BY <1>2, Where, Zenon DEF RemoveLog, guest
    <2>2. todo # <<>> /\ \A n \in 2 .. 14 : ~ Left(0, n)  BY <2>1 DEF Left
    <2>3. CASE Done  BY <2>1, <2>2, <2>3, ShellDone
    <2>4. CASE Return("remove")  BY <2>1, <2>2, <2>4, ShellReturn, Zenon
    <2> QED  BY <1>2, <2>3, <2>4, Zenon DEF RemoveLog
  <1>3. CASE RemoveDump
    <2>1. Left(0, 14) /\ UNCHANGED <<printed, monitor>>  BY <1>3, Where, Zenon DEF RemoveDump, guest
    <2>2. subcommand # "boot-check" /\ Len(todo) = 14 /\ todo # <<>> /\ check \in Checks
      BY <2>1, OnlyShell, ProgFacts, Zenon DEF Left
    <2>3. CASE Done /\ dump' = NoDump
      <3>1. UNCHANGED <<check, subcommand, verdict>> /\ todo' # <<>> /\ Len(todo') = 13
        BY <2>2, <2>3, DoneLeaves
      <3>2. ~ AtMost(0, 5) /\ \A s \in 1 .. 5 : ~ AtMost(0, s)'  BY <2>2, <3>1 DEF AtMost
      <3>3. /\ NoDump \in [by : 0 .. check, is : {"absent", "short", "image"}] /\ NoDump.by = 0
            /\ \A c \in Checks : NoDump # [by |-> c, is |-> "image"]
        BY ProgFacts DEF NoDump
      <3>4. check # 0  BY <2>2 DEF Checks
      <3>5. NoScreendump(check)'  BY <2>1, <2>2, <3>1, <3>2, Zenon DEF ShellInv, DumpInv, NoScreendump
      <3>6. DumpInv'  BY <2>1, <2>2, <2>3, <3>1, <3>2, <3>3, <3>4, <3>5 DEF ShellInv, DumpInv
      <3>7. CommandInv'  BY <3>2, SMTT(40) DEF CommandInv
      <3>8. OkMeansDumped'  BY <2>2, <3>1, Zenon DEF OkMeansDumped, BootInv, VerdictInv
      <3> QED  BY <3>6, <3>7, <3>8, Zenon DEF ShellInv
    <2>4. CASE Return("remove") /\ UNCHANGED dump  BY <2>1, <2>2, <2>4, ShellReturn, Zenon
    <2> QED  BY <1>3, <2>3, <2>4, Zenon DEF RemoveDump
  <1>4. CASE Spawn
    <2>1. Left(3, 13) /\ UNCHANGED <<dump, printed, monitor>>  BY <1>4, Where, Zenon DEF Spawn, guest, files
    <2>2. todo # <<>> /\ \A n \in {2, 3, 4, 5, 6, 14} : ~ Left(0, n)  BY <2>1, SMTT(40) DEF Left
    <2>3. CASE Done  BY <2>1, <2>2, <2>3, ShellDone, Zenon
    <2>4. CASE Return("spawn")  BY <2>1, <2>2, <2>4, ShellReturn, Zenon
    <2> QED  BY <1>4, <2>3, <2>4, Zenon DEF Spawn
  <1>5. CASE LookForMarker
    <2>1. PICK m \in Markers : At(Wait(m))  BY <1>5, Zenon DEF LookForMarker, Waiting
    <2>2. UNCHANGED <<dump, printed, monitor>> /\ todo # <<>>  BY <1>5, <2>1, Zenon DEF LookForMarker, At, files, guest
    <2>3. CASE Found /\ Done
      <3>1. /\ Head(todo)[2] = m
            /\ \/ Left(2, 12)
               \/ Left(0, 11)
               \/ Left(0, 5) /\ m = "help"
               \/ Left(0, 4) /\ m = "info"
               \/ Left(0, 3) /\ m = "ls"
        BY <2>1, Where, Zenon
      <3>2. AtMost(3, 14)
        <4>1. CASE Left(2, 12)  BY <4>1 DEF Left, AtMost
        <4>2. ASSUME NEW n \in {3, 4, 5, 11}, Left(0, n)  PROVE AtMost(3, 14)
          BY <4>2, OnlyShell DEF Left, AtMost
        <4> QED  BY <3>1, <4>1, <4>2, Zenon
      <3>3. m \in printed[check]  BY <2>3, <3>1, <3>2, Zenon DEF Found, BootInv, QemuInv
      <3>4. /\ ~ Left(0, 2) /\ ~ Left(0, 14)
            /\ Left(0, 5) => m = "help"
            /\ Left(0, 4) => m = "info"
            /\ Left(0, 3) => m = "ls"
        <4>1. \A n : Left(0, n) => \A a, b : Left(a, b) => b = n  BY OnlyShell, Zenon DEF Left
        <4> QED  BY <3>1, <4>1
      <3> QED  BY <2>2, <2>3, <3>3, <3>4, ShellDone, Zenon
    <2>4. CASE PollAt("try_wait")  BY <2>2, <2>4, ShellStays, Zenon DEF PollAt
    <2> QED  BY <1>5, <2>3, <2>4, Zenon DEF LookForMarker
  <1>6. CASE TryWait
    <2>1. todo # <<>> /\ UNCHANGED <<dump, printed, monitor>>  BY <1>6, Zenon DEF TryWait, Waiting, At, files, guest
    <2>2. CASE Return("exited")  BY <2>1, <2>2, ShellReturn, Zenon
    <2>3. CASE PollAt("elapsed")  BY <2>1, <2>3, ShellStays, Zenon DEF PollAt
    <2> QED  BY <1>6, <2>2, <2>3, Zenon DEF TryWait
  <1>7. CASE Elapsed
    <2>1. todo # <<>> /\ UNCHANGED <<dump, printed, monitor>>  BY <1>7, Zenon DEF Elapsed, Waiting, At, files, guest
    <2>2. CASE Return("timeout")  BY <2>1, <2>2, ShellReturn, Zenon
    <2>3. CASE PollAt("marker")  BY <2>1, <2>3, ShellStays, Zenon DEF PollAt
    <2> QED  BY <1>7, <2>2, <2>3, Zenon DEF Elapsed
  <1>8. CASE LogUnreadable
    <2>1. todo # <<>> /\ UNCHANGED <<dump, printed, monitor>> /\ Return("log_unreadable")
      BY <1>8, Zenon DEF LogUnreadable, Waiting, At, files, guest
    <2> QED  BY <2>1, ShellReturn, Zenon
  <1>9. ASSUME NEW n \in {6, 7, 8, 9, 10}, Left(0, n)
        PROVE  todo # <<>> /\ ~ Left(0, 2) /\ ~ Left(0, 3) /\ ~ Left(0, 4) /\ ~ Left(0, 5) /\ ~ Left(0, 14)
    BY <1>9, OnlyShell DEF Left
  <1>10. CASE ConnectMonitor
    <2>1. Left(0, 10) /\ UNCHANGED <<dump, printed, monitor>>  BY <1>10, Where, Zenon DEF ConnectMonitor, files, guest
    <2>2. CASE Done  BY <1>9, <2>1, <2>2, ShellDone, Zenon
    <2>3. CASE Return("monitor")  BY <1>9, <2>1, <2>3, ShellReturn, Zenon
    <2> QED  BY <1>10, <2>2, <2>3, Zenon DEF ConnectMonitor
  <1>11. CASE SendMonitorCommand
    <2>1. PICK command \in Messages : /\ At(Send(command)) /\ UNCHANGED <<dump, printed>>
                                      /\ \/ /\ Done
                                            /\ monitor' = [monitor EXCEPT ![check] = Append(@, command)]
                                         \/ ~ Running(check) /\ Done /\ UNCHANGED monitor
                                         \/ Return("send") /\ UNCHANGED monitor
      BY <1>11, Zenon DEF SendMonitorCommand, files, Messages
    <2>2. PICK n \in {6, 7, 8, 9} : Left(0, n)  BY <2>1, Where, Zenon DEF Messages
    <2>3. todo # <<>>  BY <2>2, Zenon DEF Left
    <2>4. CASE Return("send") /\ UNCHANGED monitor  BY <2>1, <2>3, <2>4, ShellReturn, Zenon
    <2>5. CASE Done /\ monitor' = [monitor EXCEPT ![check] = Append(@, command)]
      BY <2>1, <2>5, ShellSend, Zenon
    <2>6. CASE Done /\ UNCHANGED monitor
      <3>1. UNCHANGED <<dump, printed, monitor>>  BY <2>1, <2>6, Zenon
      <3> QED  BY <1>9, <2>2, <2>3, <2>6, <3>1, ShellDone, Zenon
    <2> QED  BY <2>1, <2>4, <2>5, <2>6, Zenon
  <1>12. CASE ValidatePpmScreenshot
    <2>1. Left(0, 2) /\ UNCHANGED <<dump, printed, monitor>>
      BY <1>12, Where, Zenon DEF ValidatePpmScreenshot, files, guest
    <2>2. todo # <<>> /\ AtMost(0, 13) /\ \A n \in {3, 4, 5, 6, 14} : ~ Left(0, n)
      BY <2>1, OnlyShell DEF Left, AtMost
    <2>3. CASE ValidPpm /\ Done
      <3>1. dump = NoDump \/ dump.by = check \/ Orphaned  BY <2>2, Zenon DEF ShellInv, DumpInv
      <3>2. dump # NoDump  BY <2>3, SMTT(40) DEF ValidPpm, NoDump
      <3>3. dump.by = check => dump = [by |-> check, is |-> "image"]
        BY <2>3, Zenon DEF ValidPpm, ShellInv, DumpInv
      <3> QED  BY <2>1, <2>2, <2>3, <3>1, <3>2, <3>3, ShellDone, Zenon
    <2>4. CASE Return("screenshot")  BY <2>1, <2>2, <2>4, ShellReturn, Zenon
    <2> QED  BY <1>12, <2>3, <2>4, Zenon DEF ValidatePpmScreenshot
  <1>13. CASE Pass
    <2>1. Left(1, 1) /\ UNCHANGED <<dump, printed, monitor>> /\ Return("ok")
      BY <1>13, Where, Zenon DEF Pass, files, guest
    <2>2. todo # <<>>  BY <2>1, Zenon DEF Left
    <2>3. subcommand = "shell-check" => AtMost(0, 1) /\ AtMost(0, 2) /\ AtMost(0, 3) /\ AtMost(0, 4)
      BY <2>1 DEF Left, AtMost
    <2> QED  BY <2>1, <2>2, <2>3, ShellReturn, Zenon DEF ShellInv, DumpInv, CommandInv, Commands
  <1>14. ASSUME NEW c \in Checks, QemuStep(c)  PROVE ShellInv'
    <2>1. CASE QemuOpens(c) \/ QemuExits(c)
      BY <2>1, ShellStays, Zenon DEF QemuOpens, QemuExits, harness, files, guest
    <2>2. CASE KernelPrints(c)  BY <2>2, ShellPrints, Zenon DEF KernelPrints, harness, files
    <2>3. CASE ShellExecutes(c)  BY <2>3, ShellPrints, Zenon DEF ShellExecutes, harness, files
    <2> QED  BY <1>14, <2>1, <2>2, <2>3, ShellSendKeys, ShellScreendump, Zenon DEF QemuStep
  <1>15. CASE TimePasses  BY <1>15, ShellStays, Zenon DEF TimePasses, files, guest
  <1>16. CASE UNCHANGED vars  BY <1>16, ShellStays, Zenon DEF vars, harness, files, guest
  <1> QED
    BY <1>1, <1>2, <1>3, <1>4, <1>5, <1>6, <1>7, <1>8, <1>10, <1>11, <1>12, <1>13, <1>14, <1>15, <1>16, Zenon
       DEF Next, HarnessStep

-----------------------------------------------------------------------------
(* The theorems                                                            *)

(* Before the first check.                                                 *)
LEMMA InitInv == Init => IInv
  <1> SUFFICES ASSUME Init  PROVE IInv
    BY Zenon
  <1>1. /\ check = 0 /\ todo = <<>> /\ dump = NoDump
        /\ verdict = [c \in Checks |-> "none"] /\ state = [c \in Checks |-> "none"]
        /\ printed = [c \in Checks |-> {}] /\ monitor = [c \in Checks |-> <<>>]
    BY Zenon DEF Init
  <1>2. \A b, s : ~ AtMost(b, s)  BY <1>1, Zenon DEF AtMost
  <1>3. ProgInv  BY <1>1, CheckAssumption DEF ProgInv
  <1>4. \A c \in Checks : c > 0  BY DEF Checks
  <1>5. BootInv
    BY <1>1, <1>2, <1>4, Zenon
       DEF BootInv, VerdictInv, QemuInv, OrphansAreRare, OkMeansBooted, OrphanReasons, Running
  <1>6. DumpInv
    <2>1. dump \in [by : 0 .. check, is : {"absent", "short", "image"}] /\ dump.is = "absent"
      BY <1>1 DEF NoDump
    <2>2. \A c \in Checks : dump # [by |-> c, is |-> "image"]  BY <2>1
    <2>3. monitor \in [Checks -> Seq(Messages)] /\ \A c \in Checks : Len(monitor[c]) = 0  BY <1>1
    <2> QED  BY <1>1, <1>2, <2>1, <2>2, <2>3 DEF DumpInv
  <1>7. CommandInv /\ OkMeansDumped  BY <1>1, <1>2, Zenon DEF CommandInv, OkMeansDumped
  <1> QED  BY <1>3, <1>5, <1>6, <1>7, Zenon DEF IInv, ShellInv

(* The invariant holds throughout.                                         *)
LEMMA Invariance == Spec => []IInv
  <1>1. IInv /\ [Next]_vars => IInv'  BY ProgNext, BootNext, ShellNext, Zenon DEF IInv
  <1> QED  BY InitInv, <1>1, PTL DEF Spec

(* No check passes on the log of another QEMU, however many checks were    *)
(* run before and whatever they left behind.                               *)
THEOREM PassesOnItsOwnLog == Spec => []OkMeansBooted
  <1>1. IInv => OkMeansBooted  BY Zenon DEF IInv, BootInv
  <1> QED  BY Invariance, <1>1, PTL

(* A shell-check passes only on the commands and, unless an earlier check  *)
(* has left a QEMU running, the dump of its own QEMU.                      *)
THEOREM PassesOnItsOwnDump == Spec => []OkMeansDumped
  <1>1. IInv => OkMeansDumped  BY Zenon DEF IInv, ShellInv
  <1> QED  BY Invariance, <1>1, PTL

(* Only two of the reasons for which a check fails leave a QEMU running,   *)
(* and never two of them.                                                  *)
THEOREM OrphansStayRare == Spec => []OrphansAreRare
  <1>1. IInv => OrphansAreRare  BY Zenon DEF IInv, BootInv
  <1> QED  BY Invariance, <1>1, PTL
=============================================================================
