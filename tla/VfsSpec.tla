------------------------------ MODULE VfsSpec -------------------------------
(***************************************************************************)
(* What the file system promises the shell: a small writable map from      *)
(* paths to texts laid over the read-only initramfs.                       *)
(***************************************************************************)
EXTENDS VfsPaths, FiniteSets

VARIABLES
  overlay,   \* a function from the paths written to their texts
  reply      \* the answer of the last operation

vars == <<overlay, reply>>

Empty == [p \in {} |-> <<>>]

Init == overlay = Empty /\ reply = Answer("none", None)

Refuse(op, error) == reply' = Answer(op, error) /\ UNCHANGED overlay

Contents(p) ==
  IF p \in DOMAIN overlay THEN overlay[p]
  ELSE IF p \in DOMAIN Initramfs THEN Initramfs[p] ELSE None

Write(path, text) ==
  LET p == Normalized(path)
      fits == p \in DOMAIN overlay \/ Cardinality(DOMAIN overlay) < MAX_OVERLAY_FILES
  IN  \/ /\ WriteError(path, text) # "none"
         /\ Refuse("write", WriteError(path, text))
      \/ /\ WriteError(path, text) = "none" /\ fits
         /\ overlay' = [q \in DOMAIN overlay \cup {p} |-> IF q = p THEN text ELSE overlay[q]]
         /\ reply' = Answer("write", "Ok")
      \/ /\ WriteError(path, text) = "none" /\ ~ fits
         /\ Refuse("write", "NoSpace")

\* Removing a file that shadows an initramfs file uncovers the latter.
Remove(path) ==
  LET p == Normalized(path)
  IN  \/ /\ PathError(path) # "none"
         /\ Refuse("remove", PathError(path))
      \/ /\ PathError(path) = "none" /\ p \in DOMAIN overlay
         /\ overlay' = [q \in DOMAIN overlay \ {p} |-> overlay[q]]
         /\ reply' = Answer("remove", "Ok")
      \/ /\ PathError(path) = "none" /\ p \notin DOMAIN overlay
         /\ Refuse("remove", IF p \in DOMAIN Initramfs THEN "ReadOnly" ELSE "NotFound")

Read(path) ==
  /\ reply' = Answer("read", IF PathError(path) = "none" THEN Contents(Normalized(path)) ELSE None)
  /\ UNCHANGED overlay

Exists(path) ==
  /\ reply' = Answer("exists", PathError(path) = "none" /\ Contents(Normalized(path)) # None)
  /\ UNCHANGED overlay

\* Every visible path, once
List ==
  /\ reply' = Answer("list", [p \in DOMAIN overlay \cup DOMAIN Initramfs |-> 1])
  /\ UNCHANGED overlay

Next ==
  \/ \E path \in Paths : \/ \E text \in Texts : Write(path, text)
                         \/ Remove(path) \/ Read(path) \/ Exists(path)
  \/ List

Spec == Init /\ [][Next]_vars
=============================================================================
