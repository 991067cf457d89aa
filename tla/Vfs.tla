-------------------------------- MODULE Vfs ---------------------------------
(***************************************************************************)
(* kernel/src/fs/vfs.rs: the overlay as an array of slots with fixed path  *)
(* and contents buffers, of which a write replaces only a prefix and keeps *)
(* the length.  Every operation runs under WRITABLE_FILES from the key     *)
(* handler and is one step.  A read does not copy: leak_str hands out a    *)
(* reference into the slot, which `leaked` remembers.                      *)
(***************************************************************************)
EXTENDS VfsPaths, FiniteSets

VARIABLES
  slots,    \* WRITABLE_FILES
  reply,    \* the answer of the last operation
  leaked    \* the reference last returned by read_overlay, and the text it showed

vars == <<slots, reply, leaked>>

Slots == 1 .. MAX_OVERLAY_FILES
NUL   == "NUL"

EMPTY ==
  [used |-> FALSE, path_len |-> 0, contents_len |-> 0,
   path |-> [k \in 1 .. MAX_PATH_LEN |-> NUL], contents |-> [k \in 1 .. MAX_CONTENT_LEN |-> NUL]]

NoReference == [slot |-> 0, length |-> 0, text |-> <<>>]

Init ==
  /\ slots = [i \in Slots |-> EMPTY]
  /\ reply = Answer("none", None)
  /\ leaked = NoReference

-----------------------------------------------------------------------------
(* OverlayFile                                                             *)

Prefix(buffer, length) == [k \in 1 .. length |-> buffer[k]]

\* copy_from_slice into the front of a buffer
CopyInto(buffer, text) == [k \in DOMAIN buffer |-> IF k <= Len(text) THEN text[k] ELSE buffer[k]]

\* Mutant: an overwritten file never gets shorter
Written_Longest(slot, p, text) ==
  [used |-> TRUE, path_len |-> Len(p),
   contents_len |-> IF Len(text) > slot.contents_len THEN Len(text) ELSE slot.contents_len,
   path |-> CopyInto(slot.path, p), contents |-> CopyInto(slot.contents, text)]

Written(slot, p, text) ==
  [used |-> TRUE, path_len |-> Len(p), contents_len |-> Len(text),
   path |-> CopyInto(slot.path, p), contents |-> CopyInto(slot.contents, text)]

PathOf(slot) == Prefix(slot.path, slot.path_len)
TextOf(slot) == Prefix(slot.contents, slot.contents_len)

Matches(slot, p) == slot.used /\ slot.path_len = Len(p) /\ PathOf(slot) = p

\* iter().find(): i is the first slot for which found holds
IsFirst(i, found(_)) == found(i) /\ \A j \in Slots : found(j) => i <= j

-----------------------------------------------------------------------------
(* The operations                                                          *)

Respond(op, result) == reply' = Answer(op, result)

WriteRefused(path, text) ==
  /\ WriteError(path, text) # "none"
  /\ Respond("write", WriteError(path, text))
  /\ UNCHANGED <<slots, leaked>>

\* The slot `write` picks: the one that has the path, else the first unused.
Target(i, p) ==
  \/ IsFirst(i, LAMBDA j : Matches(slots[j], p))
  \/ /\ \A j \in Slots : ~ Matches(slots[j], p)
     /\ IsFirst(i, LAMBDA j : ~ slots[j].used)

WriteOk(path, text) ==
  /\ WriteError(path, text) = "none"
  /\ \E i \in Slots :
       /\ Target(i, Normalized(path))
       /\ slots' = [slots EXCEPT ![i] = Written(@, Normalized(path), text)]
  /\ Respond("write", "Ok")
  /\ UNCHANGED leaked

WriteNoSpace(path, text) ==
  /\ WriteError(path, text) = "none"
  /\ \A i \in Slots : slots[i].used /\ ~ Matches(slots[i], Normalized(path))
  /\ Respond("write", "NoSpace")
  /\ UNCHANGED <<slots, leaked>>

RemoveOk(path) ==
  /\ PathError(path) = "none"
  /\ \E i \in Slots :
       /\ IsFirst(i, LAMBDA j : Matches(slots[j], Normalized(path)))
       /\ slots' = [slots EXCEPT ![i] = EMPTY]
  /\ Respond("remove", "Ok")
  /\ UNCHANGED leaked

RemoveRefused(path) ==
  /\ \/ PathError(path) # "none" /\ Respond("remove", PathError(path))
     \/ /\ PathError(path) = "none"
        /\ \A i \in Slots : ~ Matches(slots[i], Normalized(path))
        /\ Respond("remove", IF Normalized(path) \in DOMAIN Initramfs THEN "ReadOnly" ELSE "NotFound")
  /\ UNCHANGED <<slots, leaked>>

\* read_overlay finds the file: the reference is into slot i.
ReadOverlay(path) ==
  /\ PathError(path) = "none"
  /\ \E i \in Slots :
       /\ IsFirst(i, LAMBDA j : Matches(slots[j], Normalized(path)))
       /\ Respond("read", TextOf(slots[i]))
       /\ leaked' = [slot |-> i, length |-> slots[i].contents_len, text |-> TextOf(slots[i])]
  /\ UNCHANGED slots

InOverlay(p) == \E i \in Slots : Matches(slots[i], p)

ReadInitramfs(path) ==
  /\ PathError(path) = "none" => ~ InOverlay(Normalized(path))
  /\ Respond("read", IF PathError(path) = "none" /\ Normalized(path) \in DOMAIN Initramfs
                     THEN Initramfs[Normalized(path)] ELSE None)
  /\ UNCHANGED <<slots, leaked>>

Exists(path) ==
  /\ Respond("exists", /\ PathError(path) = "none"
                       /\ InOverlay(Normalized(path)) \/ Normalized(path) \in DOMAIN Initramfs)
  /\ UNCHANGED <<slots, leaked>>

Used == {i \in Slots : slots[i].used}

\* for_each_entry: the calls of the visitor, by slot and by initramfs path
Visits ==
  {<<"overlay", i>> : i \in Used}
    \cup {<<"initramfs", p>> : p \in {q \in DOMAIN Initramfs : ~ InOverlay(q)}}

VisitedPath(visit) == IF visit[1] = "overlay" THEN PathOf(slots[visit[2]]) ELSE visit[2]

\* How often each path is visited
ForEachEntry ==
  /\ Respond("list", [p \in {VisitedPath(v) : v \in Visits} |-> Cardinality({v \in Visits : VisitedPath(v) = p})])
  /\ UNCHANGED <<slots, leaked>>

Next ==
  \/ \E path \in Paths :
       \/ \E text \in Texts :
            WriteRefused(path, text) \/ WriteOk(path, text) \/ WriteNoSpace(path, text)
       \/ RemoveOk(path) \/ RemoveRefused(path)
       \/ ReadOverlay(path) \/ ReadInitramfs(path) \/ Exists(path)
  \/ ForEachEntry

Spec == Init /\ [][Next]_vars

-----------------------------------------------------------------------------
(* Properties                                                              *)

(* Lengths never exceed the buffers they index, and unused slots are clean.*)
TypeOK ==
  /\ DOMAIN slots = Slots
  /\ \A i \in Slots :
       /\ slots[i].path_len \in 0 .. MAX_PATH_LEN
       /\ slots[i].contents_len \in 0 .. MAX_CONTENT_LEN
       /\ slots[i].path \in [1 .. MAX_PATH_LEN -> Chars \cup {NUL}]
       /\ slots[i].contents \in [1 .. MAX_CONTENT_LEN -> Chars \cup {NUL}]
       /\ ~ slots[i].used => slots[i] = EMPTY

\* The map that the slots stand for
Overlay ==
  [p \in {PathOf(slots[i]) : i \in Used} |-> TextOf(slots[CHOOSE i \in Slots : Matches(slots[i], p)])]

(* The slots implement a map from paths to texts over the initramfs: bytes *)
(* left behind a shorter text or path by an earlier write never show, no   *)
(* path is in two slots and `ls` prints no name twice, `rm` uncovers at    *)
(* most the initramfs file, and every operation answers as the abstract    *)
(* file system does.                                                       *)
Abstract == INSTANCE VfsSpec WITH overlay <- Overlay

(* Refinement of VfsSpec.                                                  *)
ImplementsVfsSpec == Abstract!Spec

(* "Overlay contents stay valid for the kernel lifetime once written": the *)
(* text behind a reference that `read` returned is the text it showed.     *)
LeakedTextStays ==
  leaked.slot # 0 => Prefix(slots[leaked.slot].contents, leaked.length) = leaked.text
=============================================================================
