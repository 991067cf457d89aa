------------------------------- MODULE Staging -------------------------------
(***************************************************************************)
(* `xtask stage` and `xtask run`: build the kernel, fetch and cache the    *)
(* Limine loader, rebuild the EFI system partition, provide the variable   *)
(* store and start QEMU.  The command is run again and again on what the   *)
(* earlier invocations left under dist/, and an invocation may end early   *)
(* at any step: a tool or a file operation fails (every error is returned  *)
(* with `?`), or the process is killed.                                    *)
(***************************************************************************)
EXTENDS Naturals, Sequences

CONSTANTS
  MaxVersion,       \* bound: the kernel source is edited up to this version
  MaxFailures       \* bound: bad downloads and invocations that end early

Paths == {"bin", "limine.conf", "archive", "cache/BOOTX64.EFI", "vars",
          "esp/kernel.elf", "esp/limine.conf", "esp/EFI/limine.conf", "esp/EFI/BOOTX64.EFI"}

Esp == {"esp/kernel.elf", "esp/limine.conf", "esp/EFI/limine.conf", "esp/EFI/BOOTX64.EFI"}

\* stage_boot_tree, in the order of its copies
Copies == [copy_kernel   |-> [from |-> "bin",               to |-> "esp/kernel.elf",       then |-> "copy_conf"],
           copy_conf     |-> [from |-> "limine.conf",       to |-> "esp/limine.conf",      then |-> "copy_efi_conf"],
           copy_efi_conf |-> [from |-> "limine.conf",       to |-> "esp/EFI/limine.conf",  then |-> "copy_loader"],
           copy_loader   |-> [from |-> "cache/BOOTX64.EFI", to |-> "esp/EFI/BOOTX64.EFI",  then |-> "staged"]]

\* The steps whose file marks, by its existence, that they need not be taken again
CacheSteps == {"extract", "vars"}

ASSUME StagingAssumption == MaxVersion \in Nat /\ MaxFailures \in Nat

\* What a file holds
Absent    == <<"absent">>
Partial   == <<"partial">>          \* the beginning of what was being written
Kernel(v) == <<"kernel", v>>
Conf      == <<"conf">>
Zip       == <<"limine-binary.zip">>  \* the bytes that LIMINE_DOWNLOAD_SHA256 pins
Page      == <<"error page">>         \* what `curl -L` without --fail saves on an HTTP error
Loader    == <<"loader">>
Template  == <<"template">>          \* a whole store, with what the firmware has changed in it

VARIABLES
  source,    \* version of the kernel's source
  file,      \* contents of each path
  pc,        \* next step of the invocation, "idle" between invocations
  writing,   \* the step has begun to write its file
  result,    \* of the last invocation: "none" yet, "err", "staged" or "running"
  built,     \* version that the current or last invocation has built
  failures,  \* how often something went wrong
  cut        \* history: steps of CacheSteps that an invocation ended in the middle of

stage_vars == <<source, file, pc, writing, result, built, failures, cut>>

Exists(path) == file[path] # Absent

StageInit ==
  /\ source = 1 /\ built = 0
  /\ file = [path \in Paths |-> IF path = "limine.conf" THEN Conf ELSE Absent]
  /\ pc = "idle" /\ writing = FALSE /\ result = "none" /\ failures = 0 /\ cut = {}

Goto(step) == pc' = step /\ writing' = FALSE

Finish(outcome) == pc' = "idle" /\ writing' = FALSE /\ result' = outcome

\* A file is created or truncated, and then written.
Overwrite(path, contents, next) ==
  \/ /\ ~ writing /\ writing' = TRUE
     /\ file' = [file EXCEPT ![path] = Partial]
     /\ UNCHANGED pc
  \/ /\ writing /\ Goto(next)
     /\ file' = [file EXCEPT ![path] = contents]

-----------------------------------------------------------------------------

Edit ==
  /\ source < MaxVersion /\ source' = source + 1
  /\ UNCHANGED <<file, pc, writing, result, built, failures, cut>>

\* main, run
Invoke ==
  /\ pc = "idle" /\ Goto("build")
  /\ UNCHANGED <<source, file, result, built, failures, cut>>

\* Mutant: the exit status of cargo is ignored if there is a binary already
BuildKernel_Unchecked ==
  /\ pc = "build" /\ Goto("ensure") /\ built' = source
  /\ \/ file' = [file EXCEPT !["bin"] = Kernel(source)]
     \/ Exists("bin") /\ UNCHANGED file
  /\ UNCHANGED <<source, result, failures, cut>>

\* build_kernel; cargo replaces the binary as a whole
BuildKernel ==
  /\ pc = "build" /\ Goto("ensure") /\ built' = source
  /\ file' = [file EXCEPT !["bin"] = Kernel(source)]
  /\ UNCHANGED <<source, result, failures, cut>>

\* Mutant: an archive in the cache is not downloaded again
EnsureLimineBundle_KeepArchive ==
  /\ pc = "ensure"
  /\ Goto(IF Exists("cache/BOOTX64.EFI") THEN "recreate" ELSE IF Exists("archive") THEN "verify" ELSE "download")
  /\ UNCHANGED <<source, file, result, built, failures, cut>>

\* ensure_limine_bundle, up to the download
EnsureLimineBundle ==
  /\ pc = "ensure"
  /\ Goto(IF Exists("cache/BOOTX64.EFI") THEN "recreate" ELSE "download")
  /\ UNCHANGED <<source, file, result, built, failures, cut>>

\* download_file: curl exits with success on an error page too
DownloadFile ==
  /\ pc = "download"
  /\ \/ Overwrite("archive", Zip, "verify") /\ UNCHANGED failures
     \/ /\ writing /\ failures < MaxFailures /\ failures' = failures + 1
        /\ Overwrite("archive", Page, "verify")
  /\ UNCHANGED <<source, result, built, cut>>

\* Mutant: the digest is not compared
Verified_Always == Exists("archive")

\* The digest is compared with LIMINE_DOWNLOAD_SHA256.
Verified == file["archive"] = Zip

VerifySha256 ==
  /\ pc = "verify"
  /\ IF Verified THEN Goto("clear") /\ UNCHANGED result ELSE Finish("err")
  /\ UNCHANGED <<source, file, built, failures, cut>>

\* extract_zip: what was extracted before is removed
ClearExtracted ==
  /\ pc = "clear" /\ Goto("extract")
  /\ file' = [file EXCEPT !["cache/BOOTX64.EFI"] = Absent]
  /\ UNCHANGED <<source, result, built, failures, cut>>

\* Mutant: the exit status of unzip is ignored
Unzip_Unchecked ==
  /\ pc = "extract" /\ Goto("recheck")
  /\ file' \in {[file EXCEPT !["cache/BOOTX64.EFI"] = c] : c \in {Partial, Loader}}
  /\ UNCHANGED <<source, result, built, failures, cut>>

Unzip ==
  /\ pc = "extract"
  /\ Overwrite("cache/BOOTX64.EFI", IF file["archive"] = Zip THEN Loader ELSE file["archive"], "recheck")
  /\ UNCHANGED <<source, result, built, failures, cut>>

\* ensure_limine_bundle, after the download
RecheckBundle ==
  /\ pc = "recheck"
  /\ IF Exists("cache/BOOTX64.EFI") THEN Goto("recreate") /\ UNCHANGED result ELSE Finish("err")
  /\ UNCHANGED <<source, file, built, failures, cut>>

\* locate_kernel_binary, locate_limine_config, recreate_directory, create_dir_all
RecreateEsp ==
  /\ pc = "recreate"
  /\ IF Exists("bin") /\ Exists("limine.conf")
     THEN /\ Goto("copy_kernel")
          /\ file' = [path \in Paths |-> IF path \in Esp THEN Absent ELSE file[path]]
          /\ UNCHANGED result
     ELSE Finish("err") /\ UNCHANGED file
  /\ UNCHANGED <<source, built, failures, cut>>

\* fs::copy
Copy ==
  /\ pc \in DOMAIN Copies
  /\ LET copy == Copies[pc] IN Overwrite(copy.to, file[copy.from], copy.then)
  /\ UNCHANGED <<source, result, built, failures, cut>>

\* `stage` returns; `run` goes on with build_qemu_command
Staged ==
  /\ pc = "staged"
  /\ Finish("staged") \/ (Goto("vars") /\ UNCHANGED result)
  /\ UNCHANGED <<source, file, built, failures, cut>>

\* ensure_ovmf_vars
EnsureOvmfVars ==
  /\ pc = "vars"
  /\ IF Exists("vars") /\ ~ writing THEN Goto("launch") /\ UNCHANGED file
                                    ELSE Overwrite("vars", Template, "launch")
  /\ UNCHANGED <<source, result, built, failures, cut>>

\* run_qemu; on part of a store QEMU may refuse to run, which run_command reports
Launch ==
  /\ pc = "launch"
  /\ Finish("running") \/ (file["vars"] # Template /\ Finish("err"))
  /\ UNCHANGED <<source, file, built, failures, cut>>

\* A tool or a file operation fails, or the process is killed.
EndEarly ==
  /\ pc # "idle"
  /\ failures < MaxFailures
  /\ failures' = failures + 1
  /\ cut' = IF writing THEN cut \cup ({pc} \cap CacheSteps) ELSE cut
  /\ Finish("err")
  /\ UNCHANGED <<source, file, built>>

-----------------------------------------------------------------------------

StageStep ==
  \/ Invoke \/ BuildKernel
  \/ EnsureLimineBundle \/ DownloadFile \/ VerifySha256 \/ ClearExtracted \/ Unzip \/ RecheckBundle
  \/ RecreateEsp \/ Copy \/ Staged \/ EnsureOvmfVars \/ Launch

StageNext == StageStep \/ Edit \/ EndEarly

StageSpec == StageInit /\ [][StageNext]_stage_vars

\* The command is run again whenever it has returned.
FairStageSpec == StageSpec /\ WF_stage_vars(StageStep)

-----------------------------------------------------------------------------
(* Properties                                                              *)

Succeeded == pc = "idle" /\ result \in {"staged", "running"}

(* When the command succeeds the partition holds the kernel that this very *)
(* invocation built and both copies of the configuration, whole, whatever  *)
(* an interrupted invocation before it left there.                         *)
StagedIsFresh ==
  Succeeded =>
    /\ file["esp/kernel.elf"] = Kernel(built)
    /\ file["esp/limine.conf"] = Conf /\ file["esp/EFI/limine.conf"] = Conf

(* No byte of an archive other than the pinned one gets into the cache or  *)
(* the partition: a bad download is refused before it is unpacked, in this *)
(* invocation and in every later one that finds it on disk.                *)
OnlyVerifiedUnpacked ==
  \A path \in {"cache/BOOTX64.EFI", "esp/EFI/BOOTX64.EFI"} :
    file[path] \in {Absent, Partial, Loader}

(* `stage` stages a bootable tree (src/tools/xtask/src/main.rs:61): when   *)
(* the command succeeds, the loader in the partition is the whole one of   *)
(* the pinned bundle.                                                      *)
StagesBootableTree == Succeeded => file["esp/EFI/BOOTX64.EFI"] = Loader

(* Of the two cached files, whose existence alone marks them as complete,  *)
(* only an end in the middle of writing them makes a later invocation use  *)
(* a part: no bad download, no end before or after, and no interrupted     *)
(* copy does (ensure_limine_bundle, ensure_ovmf_vars).                     *)
WholeUnlessCut ==
  /\ Succeeded /\ "extract" \notin cut => file["esp/EFI/BOOTX64.EFI"] = Loader
  /\ pc = "launch" /\ "vars" \notin cut => file["vars"] = Template

(* Bad downloads and interrupted invocations leave nothing behind that     *)
(* makes later ones fail: while the command is run again, it keeps         *)
(* succeeding in the end.  The one exception is part of a variable store,  *)
(* on which QEMU may refuse to run each time.                              *)
RetriesSucceed == []<>(Succeeded \/ "vars" \in cut)
=============================================================================
