------------------------------- MODULE SF7Disc -------------------------------
(***************************************************************************)
(* The Sega Disk BASIC file system (src/sf7fs) and the disc explorer of the   *)
(* desktop emulator, which edits a disc image with it: a directory, a table    *)
(* of clusters that links the clusters of a file, and the clusters.          *)
(*                                                                         *)
(* A name stands for everything that normalises to it, and Blank for a name   *)
(* made of spaces and a dot.  A host file that is imported is a sequence of   *)
(* sectors, the last one padded; sector 0 is all zeros.                       *)
(***************************************************************************)
EXTENDS Naturals, Sequences, FiniteSets
LOCAL INSTANCE SequencesExt   \* Last, ToSet
LOCAL INSTANCE FiniteSetsExt  \* Max, Min

CONSTANTS
  ClusterCount,   \* DISC_CLUSTERS_NUM
  Sectors,        \* DISC_CLUSTER_NUM_SECTORS
  Slots,          \* DIRECTORY_ENTRY_COUNT
  Names, Blank,   \* names of files
  HostFiles,      \* contents of the files that are imported
  Paths,          \* host files that may hold an image
  Images,         \* the images they hold at first
  NotAnImage      \* a host file of another size

Clusters == 0 .. ClusterCount - 1
FAT_FREE_CLUSTER == 255
FAT_RESERVED_CLUSTER == 254
FAT_LAST_CLUSTER_CODE == 192
Ends == {FAT_LAST_CLUSTER_CODE + k : k \in 1..Sectors}

ASSUME DiscAssumption ==
  /\ ClusterCount \in 1..160 /\ Sectors \in 1..4 /\ Slots \in Nat \ {0}
  /\ Blank \notin Names /\ HostFiles \subseteq Seq(Nat)

VARIABLES
  image,        \* SF7Image::image: directory, FAT and data
  dirty,        \* SF7Image::dirty
  loadedPath,   \* SF7Image::loadedPath
  loaded,       \* g_loaded
  path,         \* g_disc_path
  selected,     \* g_selected, from 1; 0: nothing
  host          \* the host's files

vars == <<image, dirty, loadedPath, loaded, path, selected, host>>

-----------------------------------------------------------------------------
(* Reading an image.                                                         *)

\* The members of a set of numbers, lowest first (the community modules sort by
\* choosing among all permutations, which is slow).
Ascending(S) ==
  [k \in 1..Cardinality(S) |->
     CHOOSE c \in S : Cardinality({d \in S : d < c}) = k - 1]

EmptyEntry == [name |-> Blank, first |-> 0]
Occupied(im) == {i \in 1..Slots : im.dir[i].name # Blank}

\* The entries the explorer lists.
Listing(im) == Ascending(Occupied(im))

\* findFile: the slots of that name; the first one is meant.
Found(im, n) == {i \in Occupied(im) : im.dir[i].name = n}

\* sf7GetClusterChainFromFAT: the clusters passed until an end marker, a free or
\* reserved cluster, a value that is no cluster, or a cluster passed before.
RECURSIVE Walk(_, _, _)
Walk(fat, c, passed) ==
  CASE c \notin Clusters \ ToSet(passed) -> passed
    [] OTHER -> Walk(fat, fat[c], Append(passed, c))
Chain(im, slot) == Walk(im.fat, im.dir[slot].first, << >>)

\* SUCCESS: the walk stopped at an end marker.
Sane(im, chain) == chain # << >> /\ im.fat[Last(chain)] \in Ends

\* exportFile: whole clusters, and of the last one the sectors its marker counts.
Export(im, chain) ==
  LET size == Sectors * (Len(chain) - 1) + im.fat[Last(chain)] - FAT_LAST_CLUSTER_CODE
  IN [k \in 1..size |-> im.data[chain[1 + ((k - 1) \div Sectors)]][1 + ((k - 1) % Sectors)]]

-----------------------------------------------------------------------------
(* Changing an image.                                                        *)

FreeClusters(im) == {c \in Clusters : im.fat[c] = FAT_FREE_CLUSTER}
Required(file) == Max({1, (Len(file) + Sectors - 1) \div Sectors})

\* sf7FindFreeClusters: the lowest ones, in order.
Allocated(im, file) == SubSeq(Ascending(FreeClusters(im)), 1, Required(file))

\* The i-th cluster's worth of a file, the rest of the cluster zeroed.
Part(file, i) ==
  [k \in 1..Sectors |->
     LET at == (i - 1) * Sectors + k IN IF at \in DOMAIN file THEN file[at] ELSE 0]

\* Mutants of SectorsInLast: counted from what remains after the copy, as the
\* code's own comment says it once was; and without the floor of one.
SectorsRemaining(file) == 1
SectorsInLast(file) == Max({1, Len(file) - (Required(file) - 1) * Sectors})

CanImport(im, n, file) ==
  /\ Found(im, n) = {} /\ Occupied(im) # 1..Slots
  /\ Cardinality(FreeClusters(im)) >= Required(file)

Imported(im, n, file) ==
  LET chain == Allocated(im, file)
      place(c) == CHOOSE i \in DOMAIN chain : chain[i] = c
      slot == Min((1..Slots) \ Occupied(im))
  IN [dir |-> [im.dir EXCEPT ![slot] = [name |-> n, first |-> chain[1]]],
      fat |-> [c \in Clusters |->
                 CASE c \notin ToSet(chain) -> im.fat[c]
                   [] c = Last(chain) -> FAT_LAST_CLUSTER_CODE + SectorsInLast(file)
                   [] OTHER -> chain[place(c) + 1]],
      data |-> [c \in Clusters |->
                  IF c \in ToSet(chain) THEN Part(file, place(c)) ELSE im.data[c]]]

\* Mutant of Released: the first cluster only.
ReleasedFirst(im, slot) == {im.dir[slot].first}
Released(im, slot) == ToSet(Chain(im, slot))

Deleted(im, slot) ==
  [im EXCEPT !.dir[slot] = EmptyEntry,
             !.fat = [c \in Clusters |->
                        IF c \in Released(im, slot) THEN FAT_FREE_CLUSTER ELSE @[c]]]

-----------------------------------------------------------------------------
(* The explorer.                                                             *)

Init ==
  /\ image = [dir |-> [i \in 1..Slots |-> EmptyEntry],
              fat |-> [c \in Clusters |-> FAT_RESERVED_CLUSTER],
              data |-> [c \in Clusters |-> [k \in 1..Sectors |-> 0]]]
  /\ dirty = FALSE /\ loaded = FALSE /\ selected = 0
  /\ path \in Paths /\ loadedPath = path
  /\ host \in [Paths -> Images]

\* An image that cannot be read, or is none, leaves the one before in memory, and
\* what was selected in it, but shows nothing.
OpenPath(p) ==
  /\ path' = p
  /\ \/ loaded' = FALSE /\ UNCHANGED <<image, dirty, loadedPath, selected>>
     \/ /\ host[p] # NotAnImage
        /\ image' = host[p] /\ dirty' = FALSE /\ loadedPath' = p
        /\ loaded' = TRUE /\ selected' = 0
  /\ UNCHANGED host

Open == OpenPath(path)

\* The drive's disc may come from any host file.
OpenMounted == \E p \in Paths : OpenPath(p)

\* Typing a path, or the Browse button, opens nothing.
EditPath(p) ==
  /\ path' = p
  /\ UNCHANGED <<image, dirty, loadedPath, loaded, selected, host>>

Select(i) ==
  /\ loaded /\ i \in DOMAIN Listing(image)
  /\ selected' = i
  /\ UNCHANGED <<image, dirty, loadedPath, loaded, path, host>>

\* The buttons act on the first file that has the name of the entry selected.
Target == Min(Found(image, image.dir[Listing(image)[selected]].name))
Chosen == loaded /\ selected \in DOMAIN Listing(image)

\* A write to the host that fails may have truncated the file already.
ExportTo(p) ==
  /\ Chosen /\ Sane(image, Chain(image, Target))
  /\ host' = [host EXCEPT ![p] = NotAnImage]
  /\ UNCHANGED <<image, dirty, loadedPath, loaded, path, selected>>

DeleteFile ==
  /\ Chosen
  /\ selected' = 0
  /\ IF Sane(image, Chain(image, Target))
       THEN image' = Deleted(image, Target) /\ dirty' = TRUE
       ELSE UNCHANGED <<image, dirty>>
  /\ UNCHANGED <<loadedPath, loaded, path, host>>

ImportFile(n, file) ==
  /\ loaded /\ CanImport(image, n, file)
  /\ image' = Imported(image, n, file) /\ dirty' = TRUE
  /\ UNCHANGED <<loadedPath, loaded, path, selected, host>>

Save ==
  /\ loaded /\ dirty
  /\ \/ /\ host' = [host EXCEPT ![path] = image]
        /\ dirty' = FALSE /\ loadedPath' = path
     \/ /\ host' = [host EXCEPT ![path] = NotAnImage]
        /\ UNCHANGED <<dirty, loadedPath>>
  /\ UNCHANGED <<image, loaded, path, selected>>

Next ==
  \/ Open \/ OpenMounted \/ DeleteFile \/ Save
  \/ \E p \in Paths : EditPath(p) \/ ExportTo(p)
  \/ \E i \in 1..Slots : Select(i)
  \/ \E n \in Names \cup {Blank}, file \in HostFiles : ImportFile(n, file)

Spec == Init /\ [][Next]_vars

-----------------------------------------------------------------------------

Image ==
  [dir : [1..Slots -> [name : Names \cup {Blank}, first : 0..255]],
   fat : [Clusters -> Clusters \cup Ends \cup {FAT_FREE_CLUSTER, FAT_RESERVED_CLUSTER}],
   data : [Clusters -> [1..Sectors -> Nat]]]

\* A volume on which files are apart: no two entries share a name or a cluster
\* that holds data, and none runs into free space.  Chains that loop or end in a
\* reserved cluster may be there, and clusters that belong to nothing.
Holding(im, slot) == {c \in ToSet(Chain(im, slot)) : im.fat[c] # FAT_RESERVED_CLUSTER}
Apart(im) ==
  /\ \A i \in Occupied(im) : Holding(im, i) \cap FreeClusters(im) = {}
  /\ \A i, j \in Occupied(im) : i # j =>
       im.dir[i].name # im.dir[j].name /\ Holding(im, i) \cap Holding(im, j) = {}

ASSUME ImageAssumption == \A im \in Images : im \in Image /\ Apart(im)

\* No space is lost: a cluster in use that belongs to no file stays the exception
\* it was on the disc that was opened.  Only a file imported under a blank name
\* adds to them: its entry counts as an empty one.
Lost(im) ==
  {c \in Clusters : im.fat[c] \notin {FAT_FREE_CLUSTER, FAT_RESERVED_CLUSTER}}
    \ UNION {Holding(im, i) : i \in Occupied(im)}
NothingLeaks ==
  [][ \/ Lost(image') \subseteq Lost(image)
      \/ \E p \in Paths : OpenPath(p)
      \/ \E file \in HostFiles : ImportFile(Blank, file) ]_vars

\* The explorer keeps the promise of DiscVolumes: whatever sequence of imports,
\* deletions, saves and reloads, fragmented as the disc may be, every file reads
\* back as it was imported, in whole sectors, and no operation touches another.
Absent == << >>
FileOf(im, n) ==
  IF Found(im, n) = {} THEN Absent
  ELSE LET chain == Chain(im, Min(Found(im, n)))
       IN IF Sane(im, chain) THEN Export(im, chain) ELSE Absent
FilesOf(im) == [n \in Names |-> FileOf(im, n)]
Padded(file) == IF file = << >> THEN <<0>> ELSE file

Volumes == INSTANCE DiscVolumes WITH
  Contents <- {Padded(file) : file \in HostFiles},
  Unreadable <- NotAnImage,
  opened <- loaded,
  files <- FilesOf(image),
  volumes <- [p \in Paths |-> IF host[p] = NotAnImage THEN NotAnImage ELSE FilesOf(host[p])]
FilesKept == Volumes!Spec

=============================================================================
