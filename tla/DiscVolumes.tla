----------------------------- MODULE DiscVolumes -----------------------------
(***************************************************************************)
(* What the disc explorer promises (sf7fs/README.md, and the tool tip of its  *)
(* Save button): a volume is a set of named files.  Inserting adds one under   *)
(* a name that is not there, deleting removes one, and neither touches any     *)
(* other.  Nothing reaches a volume on the host before it is saved, and what   *)
(* is saved is what is opened later.  An operation that fails changes nothing, *)
(* except that a write that fails half way spoils the file written.           *)
(***************************************************************************)
EXTENDS Naturals

CONSTANTS
  Names,       \* names of files
  Contents,    \* what a file can hold
  Paths,       \* host files that may hold a volume
  Absent,      \* no file of this name
  Unreadable   \* the host file does not hold a volume

VARIABLES
  opened,   \* a volume is shown
  files,    \* what each name of the volume being edited holds
  volumes   \* what each host file holds

vars == <<opened, files, volumes>>

Init == opened = FALSE /\ files \in [Names -> {Absent}]

Open(p) ==
  /\ volumes[p] # Unreadable
  /\ opened' = TRUE /\ files' = volumes[p]
  /\ UNCHANGED volumes

FailToOpen == opened' = FALSE /\ UNCHANGED <<files, volumes>>

Insert(n, c) ==
  /\ opened /\ files[n] = Absent
  /\ files' = [files EXCEPT ![n] = c]
  /\ UNCHANGED <<opened, volumes>>

Delete(n) ==
  /\ opened /\ files[n] # Absent
  /\ files' = [files EXCEPT ![n] = Absent]
  /\ UNCHANGED <<opened, volumes>>

Save(p) ==
  /\ opened
  /\ volumes' = [volumes EXCEPT ![p] = files]
  /\ UNCHANGED <<opened, files>>

\* A failed write, or another kind of file written over the volume.
Spoil(p) ==
  /\ volumes' = [volumes EXCEPT ![p] = Unreadable]
  /\ UNCHANGED <<opened, files>>

Next ==
  \/ FailToOpen
  \/ \E p \in Paths : Open(p) \/ Save(p) \/ Spoil(p)
  \/ \E n \in Names : Delete(n) \/ \E c \in Contents : Insert(n, c)

Spec == Init /\ [][Next]_vars

=============================================================================
