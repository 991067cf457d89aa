------------------------------ MODULE VfsPaths ------------------------------
(***************************************************************************)
(* What a path and a text mean to kernel/src/fs/vfs.rs.  Strings are       *)
(* sequences of characters, one byte each.                                 *)
(***************************************************************************)
EXTENDS Integers, Sequences

CONSTANTS
  MAX_OVERLAY_FILES,  \* slots of the overlay
  MAX_PATH_LEN,       \* bytes of a normalized path
  MAX_CONTENT_LEN,    \* bytes of an overlay file
  Chars,              \* characters, "/" and " " among them
  Paths, Texts,       \* arguments the shell may pass
  Initramfs           \* the read-only files: a function from path to contents

Slash == "/"
Space == " "

ASSUME VfsAssumption ==
  /\ MAX_OVERLAY_FILES \in Nat /\ MAX_PATH_LEN \in Nat /\ MAX_CONTENT_LEN \in Nat
  /\ {Slash, Space} \subseteq Chars /\ "None" \notin Chars
  /\ Paths \subseteq Seq(Chars) /\ Texts \subseteq Seq(Chars)
  /\ Initramfs \in [DOMAIN Initramfs -> Seq(Chars)]

\* str::trim
Trim(s) ==
  LET solid == {k \in DOMAIN s : s[k] # Space}
      first == CHOOSE k \in solid : \A j \in solid : k <= j
      last  == CHOOSE k \in solid : \A j \in solid : j <= k
  IN  IF solid = {} THEN <<>> ELSE SubSeq(s, first, last)

\* normalize_path, when it succeeds
Normalized(path) ==
  LET trimmed == Trim(path)
  IN  IF trimmed[1] = Slash THEN trimmed ELSE <<Slash>> \o trimmed

\* The error of normalize_path, or "none"
PathError(path) ==
  IF Trim(path) = <<>> THEN "InvalidPath"
  ELSE IF Len(Normalized(path)) > MAX_PATH_LEN THEN "PathTooLong"
  ELSE "none"

\* Mutant: the length of the text is not checked
WriteError_AnyLength(path, text) == PathError(path)

\* The error of `write` before it looks at the overlay
WriteError(path, text) ==
  IF PathError(path) = "none" /\ Len(text) > MAX_CONTENT_LEN THEN "ContentTooLong"
  ELSE PathError(path)

\* What an operation answers; a read that finds nothing answers None, which
\* is no text: "None" is not a character.
Answer(op, result) == [op |-> op, result |-> result]
None == <<"None">>
=============================================================================
