---------------------------- MODULE NEC765Proofs ----------------------------
(***************************************************************************)
(* Theorems about NEC765, for every geometry, every timing, every medium     *)
(* and every repertoire of the guest, and then about NEC765Driver, which      *)
(* gives the same controller a guest that keeps to the handshake.            *)
(***************************************************************************)
EXTENDS NEC765Driver, WellFoundedInduction, TLAPS

\* Every non-empty set of naturals has a least element.
LEMMA LeastNatural ==
  ASSUME NEW T \in SUBSET Nat, T # {}
  PROVE  \E x \in T : \A y \in T : x <= y
<1>1. PICK x \in T : \A y \in T : ~(<<y, x>> \in OpToRel(<, Nat))
  BY NatLessThanWellFounded, WFMin
<1>2. ASSUME NEW y \in T PROVE x <= y
  <2>1. <<y, x>> \in Nat \X Nat /\ <<y, x>>[1] = y /\ <<y, x>>[2] = x
    OBVIOUS
  <2>2. ~(y < x)
    BY <1>1, <2>1 DEF OpToRel
  <2> QED
    BY <2>2
<1> QED
  BY <1>2

-----------------------------------------------------------------------------
(* The medium under the head.                                                *)

LEMMA SectorsUnderType ==
  ASSUME NEW f \in Fdc, NEW dk \in Medium
  PROVE  SectorsUnder(f, dk) \in Track
<1>1. << >> \in Track
  BY DEF Track
<1> QED
  BY <1>1 DEF SectorsUnder, Medium, Fdc

LEMMA TrackSector ==
  ASSUME NEW s \in Track, NEW i \in DOMAIN s
  PROVE  s[i].R \in 0..LastTrack /\ s[i].bytes \in Nat
<1>1. s[i] \in Sector
  BY DEF Track
<1> QED
  BY <1>1 DEF Sector

\* The length of a sector that is there is that of one on the track: of the
\* sectors with the ID the command names there is a first.
LEMMA SectorLengthFound ==
  ASSUME NEW f \in Fdc, NEW dk \in Medium, HasSector(f, dk)
  PROVE  \E i \in DOMAIN SectorsUnder(f, dk) : SectorLength(f, dk) = SectorsUnder(f, dk)[i].bytes
<1> DEFINE s == SectorsUnder(f, dk)
           I == {i \in DOMAIN s : s[i].R = f.sectorNumber}
<1>1. DOMAIN s = 1..Len(s) /\ Len(s) \in Nat
  BY SectorsUnderType DEF Track
<1>2. I \in SUBSET Nat /\ I # {}
  BY <1>1 DEF HasSector
<1>3. PICK i \in I : \A j \in I : i <= j
  BY <1>2, LeastNatural
<1>4. ASSUME NEW j \in 1..(i - 1)
      PROVE  s[j].R # f.sectorNumber
  BY <1>1, <1>2, <1>3
<1>5. \E k \in DOMAIN s : s[k].R = f.sectorNumber /\ \A j \in 1..(k - 1) : s[j].R # f.sectorNumber
  BY <1>4
<1>6. QED
  BY <1>5 DEF SectorLength

LEMMA SectorLengthType ==
  ASSUME NEW f \in Fdc, NEW dk \in Medium
  PROVE  SectorLength(f, dk) \in Nat
<1>1. CASE HasSector(f, dk)
  BY <1>1, SectorLengthFound, SectorsUnderType, TrackSector
<1>2. CASE ~HasSector(f, dk)
  BY <1>2 DEF SectorLength
<1> QED
  BY <1>1, <1>2

LEMMA NominalSizeType ==
  ASSUME NEW f \in Fdc, NEW dk \in Medium
  PROVE  NominalSize(f, dk) \in Nat
<1>1. SectorsUnder(f, dk) # << >> => 1 \in DOMAIN SectorsUnder(f, dk)
  BY SectorsUnderType DEF Track
<1>2. SectorsUnder(f, dk) # << >> => SectorsUnder(f, dk)[1].bytes \in Nat
  BY <1>1, SectorsUnderType, TrackSector
<1> QED
  BY <1>2 DEF NominalSize, Medium

\* Entries without a negative length make a track.
LEMMA FormattedTrackType ==
  ASSUME NEW e \in Entries, ~\E i \in DOMAIN e : e[i].bytes < 0
  PROVE  e \in Track
<1>1. \A i \in 1..Len(e) : e[i] \in Sector
  <2>1. \A i \in 1..Len(e) : e[i] \in Entry /\ ~(e[i].bytes < 0)
    BY DEF Entries
  <2>2. ASSUME NEW x \in Entry, ~(x.bytes < 0)
        PROVE  x \in Sector
    BY <2>2 DEF Entry, Sector
  <2> QED
    BY <2>1, <2>2
<1> QED
  BY <1>1 DEF Entries, Track

LEMMA SetFormattedTrackType ==
  ASSUME NEW f \in Fdc, NEW dk \in Medium
  PROVE  SetFormattedTrack(f, dk) \in Medium
<1>1. << >> \in Track /\ f.formatEntries \in Entries
  BY DEF Track, Fdc
<1>2. ASSUME NEW t \in Track
      PROVE  /\ [dk EXCEPT !.track[f.currentTrack] = t] \in Medium
             /\ [dk EXCEPT !.track[f.currentTrack] = t, !.dirty = TRUE, !.present = TRUE] \in Medium
  BY DEF Medium
<1> QED
  BY <1>1, <1>2, FormattedTrackType DEF SetFormattedTrack

LEMMA NoMediumType == NoMedium \in Medium
BY DEF NoMedium, Medium, Track

-----------------------------------------------------------------------------
(* Every operator of the controller yields a controller.                     *)

LEMMA KeptType ==
  ASSUME NEW bits \in Nat
  PROVE  Kept(bits) \in Nat
<1>1. Rev \in Nat \ {0} /\ MaxTurns \in Nat
  BY GeometryAssumption
<1>2. bits % Rev \in Nat
  BY <1>1
<1>3. MaxTurns * Rev \in Nat
  BY <1>1
<1> QED
  BY <1>2, <1>3 DEF Kept

LEMMA ResetType ==
  ASSUME NEW f \in Fdc
  PROVE  Reset(f) \in Fdc
<1>1. Kept(f.totalBits) \in Nat
  BY KeptType DEF Fdc
<1>2. Recovery \in Nat /\ << >> \in Entries /\ 0 \in 0..LastTrack
  BY TimingAssumption, GeometryAssumption DEF Entries
<1> QED
  BY <1>1, <1>2 DEF Reset, Fdc, CommandNames

LEMMA PowerUpType ==
  ASSUME NEW t \in Nat \ {0}
  PROVE  PowerUp(t) \in Fdc
<1>1. Kept(0) \in Nat /\ StartTrack \in 0..LastTrack /\ 0 \in 0..LastTrack
  BY GeometryAssumption, KeptType
<1>2. Recovery \in Nat /\ << >> \in Entries
  BY TimingAssumption DEF Entries
<1> QED
  BY <1>1, <1>2 DEF PowerUp, Reset, Fdc, CommandNames

LEMMA RotateType ==
  ASSUME NEW f \in Fdc, NEW n \in Nat, NEW rotating \in BOOLEAN
  PROVE  Rotate(f, n, rotating) \in Fdc
<1>1. f.totalBits + n \in Nat /\ f.sinceTransfer + n \in Nat /\ Recovery \in Nat
  BY TimingAssumption DEF Fdc
<1> QED
  BY <1>1 DEF Rotate, Fdc

LEMMA SettleType ==
  ASSUME NEW f \in Fdc
  PROVE  Settle(f) \in Fdc
<1>1. Kept(f.totalBits) \in Nat
  BY KeptType DEF Fdc
<1> QED
  BY <1>1 DEF Settle, Fdc

LEMMA EndSeekType ==
  ASSUME NEW f \in Fdc
  PROVE  EndSeek(f) \in Fdc
<1>1. f.status0 \cup {"SE"} \in SUBSET {"IC0", "SE"}
  BY DEF Fdc
<1>2. f.mainStatus \ {"CB"} \in SUBSET {"RQM", "DIO", "CB"}
  BY DEF Fdc
<1> QED
  BY <1>1, <1>2 DEF EndSeek, Fdc

\* A step count short of the distance keeps the head between where it was and
\* where it is going.
LEMMA HeadAfterBetween ==
  ASSUME NEW f \in Fdc, NEW k \in Nat, k < SeekDistance(f) \/ k = 0
  PROVE  /\ HeadAfter(f, k) \in 0..LastTrack
         /\ f.currentTrack < f.destinationTrack =>
              f.currentTrack <= HeadAfter(f, k) /\ HeadAfter(f, k) < f.destinationTrack
         /\ f.destinationTrack < f.currentTrack =>
              f.destinationTrack < HeadAfter(f, k) /\ HeadAfter(f, k) <= f.currentTrack
<1>1. f.currentTrack \in 0..LastTrack /\ f.destinationTrack \in 0..LastTrack
  BY DEF Fdc
<1>2. LastTrack \in Nat
  BY GeometryAssumption
<1> QED
  BY <1>1, <1>2 DEF HeadAfter, SeekDistance

LEMMA MoveToTrackTickType ==
  ASSUME NEW f \in Fdc, NEW n \in Nat
  PROVE  MoveToTrackTick(f, n) \in Fdc
<1> DEFINE clocks == f.stepClocks + n
           steps  == clocks \div f.stepTime
           needed == IF SeekDistance(f) = 0 THEN 1 ELSE SeekDistance(f)
<1>1. clocks \in Nat /\ f.stepTime \in Nat \ {0}
  BY DEF Fdc
<1>2. steps \in Nat /\ clocks % f.stepTime \in Nat
  BY <1>1
<1>3. f.currentTrack \in Nat /\ f.destinationTrack \in Nat
  BY GeometryAssumption DEF Fdc
<1>4. SeekDistance(f) \in Nat /\ needed \in Nat
  BY <1>3 DEF SeekDistance
<1>5. CASE steps >= needed
  <2>1. needed * f.stepTime <= clocks
    <3>1. steps * f.stepTime <= clocks
      BY <1>1, Z3
    <3> QED
      BY <3>1, <1>1, <1>2, <1>4, <1>5, Z3
  <2>2. clocks - needed * f.stepTime \in Nat
    BY <2>1, <1>1, <1>4
  <2>3. [f EXCEPT !.currentTrack = f.destinationTrack,
                  !.stepClocks = clocks - needed * f.stepTime] \in Fdc
    BY <2>2 DEF Fdc
  <2> QED
    BY <1>5, <2>3, EndSeekType DEF MoveToTrackTick
<1>6. CASE ~(steps >= needed)
  <2>1. steps < SeekDistance(f) \/ steps = 0
    BY <1>2, <1>4, <1>6
  <2>2. HeadAfter(f, steps) \in 0..LastTrack
    BY <1>2, <2>1, HeadAfterBetween
  <2>3. [f EXCEPT !.currentTrack = HeadAfter(f, steps), !.stepClocks = clocks % f.stepTime] \in Fdc
    BY <1>2, <2>2 DEF Fdc
  <2> QED
    BY <1>6, <2>3 DEF MoveToTrackTick
<1> QED
  BY <1>5, <1>6

LEMMA EnterResultType ==
  ASSUME NEW f \in Fdc
  PROVE  EnterResult(f) \in Fdc
<1>1. f.mainStatus \cup {"DIO"} \in SUBSET {"RQM", "DIO", "CB"}
  BY DEF Fdc
<1> QED
  BY <1>1 DEF EnterResult, Fdc

LEMMA SectorFindTickType ==
  ASSUME NEW f \in Fdc, NEW dk \in Medium
  PROVE  SectorFindTick(f, dk) \in Fdc
<1> DEFINE s    == SectorsUnder(f, dk)
           done == EnterResult([f EXCEPT !.pendingFind = FALSE, !.findCompleteBit = 0,
                                         !.findSectorIdx = 0])
<1>1. done \in Fdc
  <2>1. [f EXCEPT !.pendingFind = FALSE, !.findCompleteBit = 0, !.findSectorIdx = 0] \in Fdc
    BY DEF Fdc
  <2> QED
    BY <2>1, EnterResultType
<1> HIDE DEF done
<1>2. [done EXCEPT !.status0 = @ \cup {"IC0"}, !.status1 = @ \cup {"MA"}] \in Fdc
  <2>1. done.status0 \cup {"IC0"} \in SUBSET {"IC0", "SE"} /\ done.status1 \cup {"MA"} \in SUBSET {"MA"}
    BY <1>1 DEF Fdc
  <2> QED
    BY <1>1, <2>1 DEF Fdc
<1>3. [done EXCEPT !.sectorNumber = IF f.findSectorIdx \in DOMAIN s
                                      THEN s[f.findSectorIdx].R ELSE 0] \in Fdc
  <2>1. (IF f.findSectorIdx \in DOMAIN s THEN s[f.findSectorIdx].R ELSE 0) \in 0..LastTrack
    BY SectorsUnderType, TrackSector, GeometryAssumption
  <2> QED
    BY <1>1, <2>1 DEF Fdc
<1> QED
  BY <1>2, <1>3 DEF SectorFindTick, done

LEMMA FormatTickType ==
  ASSUME NEW f \in Fdc
  PROVE  FormatTick(f) \in Fdc
<1>1. << >> \in Entries
  BY DEF Entries
<1>2. [f EXCEPT !.pendingFormat = FALSE, !.formatCompleteBit = 0, !.formatEntries = << >>] \in Fdc
  BY <1>1 DEF Fdc
<1> QED
  BY <1>2, EnterResultType DEF FormatTick

LEMMA TickType ==
  ASSUME NEW f \in Fdc, NEW dk \in Medium, NEW n \in Nat, NEW rotating \in BOOLEAN
  PROVE  /\ BeforeFormatTick(f, dk, n, rotating) \in Fdc
         /\ Tick(f, dk, n, rotating) \in Fdc
         /\ MediumAfterTick(f, dk, n, rotating) \in Medium
<1>1. BeforeFormatTick(f, dk, n, rotating) \in Fdc
  BY RotateType, MoveToTrackTickType, SectorFindTickType DEF BeforeFormatTick
<1>2. Tick(f, dk, n, rotating) \in Fdc
  BY <1>1, FormatTickType, SettleType DEF Tick
<1>3. MediumAfterTick(f, dk, n, rotating) \in Medium
  BY <1>1, SetFormattedTrackType DEF MediumAfterTick
<1> QED
  BY <1>1, <1>2, <1>3

LEMMA SetupMoveToTrackType ==
  ASSUME NEW f \in Fdc, NEW target \in 0..LastTrack
  PROVE  SetupMoveToTrack(f, target) \in Fdc
BY DEF SetupMoveToTrack, Fdc

LEMMA ForwardDistanceType ==
  ASSUME NEW pos \in Nat, NEW i \in Nat
  PROVE  ForwardDistance(pos, i) \in Nat /\ ForwardDistance(pos, i) < Rev
<1>1. Rev \div MaxSectors \in Nat
  BY GeometryAssumption
<1>2. (i - 1) * (Rev \div MaxSectors) \in Int
  BY <1>1
<1>3. IdamBit(i) \in Nat
  BY <1>2, GeometryAssumption DEF IdamBit
<1> QED
  BY <1>3, GeometryAssumption DEF ForwardDistance

\* A track with sectors has a first ID mark in the order of rotation, so the
\* choice nec765FindSector makes is always one of its sectors.
LEMMA NextSectorType ==
  ASSUME NEW s \in Track, s # << >>, NEW pos \in Nat
  PROVE  NextSector(s, pos) \in DOMAIN s
<1> DEFINE D == {ForwardDistance(pos, i) : i \in DOMAIN s}
<1>1. DOMAIN s \in SUBSET Nat /\ 1 \in DOMAIN s
  BY DEF Track
<1>2. D \in SUBSET Nat /\ D # {}
  <2>1. \A i \in DOMAIN s : ForwardDistance(pos, i) \in Nat
    BY <1>1, ForwardDistanceType
  <2> QED
    BY <1>1, <2>1
<1>3. PICK d \in D : \A e \in D : d <= e
  BY <1>2, LeastNatural
<1> DEFINE I == {i \in DOMAIN s : ForwardDistance(pos, i) = d}
<1>4. I \in SUBSET Nat /\ I # {}
  BY <1>1, <1>3
<1>5. PICK i \in I : \A j \in I : i <= j
  BY <1>4, LeastNatural
<1>6. ASSUME NEW j \in DOMAIN s
      PROVE  \/ ForwardDistance(pos, i) < ForwardDistance(pos, j)
             \/ ForwardDistance(pos, i) = ForwardDistance(pos, j) /\ i <= j
  <2>1. ForwardDistance(pos, i) = d /\ d \in Nat /\ ForwardDistance(pos, j) \in Nat
    BY <1>1, <1>2, ForwardDistanceType
  <2>2. d <= ForwardDistance(pos, j)
    BY <1>3
  <2> QED
    BY <1>5, <2>1, <2>2
<1>7. i \in DOMAIN s
  OBVIOUS
<1> QED
  BY <1>6, <1>7 DEF NextSector

LEMMA FindSectorType ==
  ASSUME NEW f \in Fdc, NEW dk \in Medium
  PROVE  FindSector(f, dk) \in Fdc
<1> DEFINE s    == SectorsUnder(f, dk)
           now  == Kept(f.totalBits)
           pos  == now % Rev
           next == NextSector(s, pos)
           wait == IF s = << >> THEN 2 * Rev ELSE ForwardDistance(pos, next) + IdamToDam
<1>1. now \in Nat /\ pos \in Nat
  <2>1. now \in Nat
    BY KeptType DEF Fdc
  <2> HIDE DEF now
  <2> QED
    BY <2>1, GeometryAssumption
<1>2. s \in Track
  BY SectorsUnderType
<1>3. s # << >> => next \in Nat
  BY <1>1, <1>2, NextSectorType DEF Track
<1>4. wait \in Nat
  <2>1. s # << >> => ForwardDistance(pos, next) \in Nat
    BY <1>1, <1>3, ForwardDistanceType
  <2> QED
    BY <2>1, GeometryAssumption
<1>5. now + wait \in Nat /\ (IF s = << >> THEN 0 ELSE next) \in Nat
  BY <1>1, <1>3, <1>4
<1> QED
  BY <1>1, <1>5 DEF FindSector, Fdc

LEMMA ReadSectorType ==
  ASSUME NEW f \in Fdc, NEW dk \in Medium
  PROVE  ReadSector(f, dk) \in Fdc
<1>1. /\ f.mainStatus \cup {"DIO"} \in SUBSET {"RQM", "DIO", "CB"}
      /\ f.status0 \cup {"IC0"} \in SUBSET {"IC0", "SE"}
      /\ f.status1 \cup {"MA"} \in SUBSET {"MA"}
  BY DEF Fdc
<1>2. SectorLength(f, dk) \in Int
  BY SectorLengthType
<1> DEFINE g == [f EXCEPT !.mainStatus = @ \cup {"DIO"}, !.phase = "DATATRANSFER",
                          !.phaseStep = 0, !.interrupt = TRUE, !.sectorOffset = 0]
<1>3. g \in Fdc /\ g.status0 = f.status0 /\ g.status1 = f.status1
  BY <1>1 DEF Fdc
<1> HIDE DEF g
<1>4. [g EXCEPT !.sectorSize = SectorLength(f, dk)] \in Fdc
  BY <1>2, <1>3 DEF Fdc
<1>5. [g EXCEPT !.sectorSize = 0, !.status0 = @ \cup {"IC0"}, !.status1 = @ \cup {"MA"}] \in Fdc
  <2>1. PICK a \in SUBSET {"IC0", "SE"}, b \in SUBSET {"MA"} :
          a = g.status0 \cup {"IC0"} /\ b = g.status1 \cup {"MA"}
    BY <1>1, <1>3
  <2>2. ASSUME NEW h \in Fdc
        PROVE  [h EXCEPT !.status0 = a, !.status1 = b] \in Fdc
    BY DEF Fdc
  <2>3. [g EXCEPT !.sectorSize = 0] \in Fdc
    BY <1>3 DEF Fdc
  <2>4. [g EXCEPT !.sectorSize = 0, !.status0 = @ \cup {"IC0"}, !.status1 = @ \cup {"MA"}]
          = [[g EXCEPT !.sectorSize = 0] EXCEPT !.status0 = a, !.status1 = b]
    BY <1>3, <2>1 DEF Fdc
  <2> QED
    BY <2>2, <2>3, <2>4
<1> QED
  BY <1>4, <1>5 DEF ReadSector, g

LEMMA IdlePhaseWriteType ==
  ASSUME NEW f \in Fdc, NEW c \in CommandNames
  PROVE  IdlePhaseWrite(f, c) \in Fdc
<1> DEFINE g == [f EXCEPT !.command = c, !.phase = "COMMAND", !.phaseStep = 1,
                          !.mainStatus = @ \cup {"CB"}]
<1>1. g \in Fdc
  <2>1. f.mainStatus \cup {"CB"} \in SUBSET {"RQM", "DIO", "CB"}
    BY DEF Fdc
  <2> QED
    BY <2>1 DEF Fdc
<1> HIDE DEF g
<1>2. /\ g.mainStatus \ {"CB"} \in SUBSET {"RQM", "DIO", "CB"}
      /\ g.status0 \ {"IC0"} \in SUBSET {"IC0", "SE"}
      /\ g.status0 \ {"SE"} \in SUBSET {"IC0", "SE"}
  BY <1>1 DEF Fdc
<1>3. [g EXCEPT !.status0 = @ \ {"IC0"}] \in Fdc /\ [g EXCEPT !.status0 = @ \ {"SE"}] \in Fdc
  BY <1>1, <1>2 DEF Fdc
<1>4. /\ [g EXCEPT !.mainStatus = @ \ {"CB"}, !.phase = "IDLE"] \in Fdc
      /\ [g EXCEPT !.mainStatus = @ \ {"CB"}, !.phase = "IDLE", !.interrupt = TRUE] \in Fdc
  BY <1>1, <1>2 DEF Fdc
<1> QED
  BY <1>1, <1>3, <1>4, EnterResultType DEF IdlePhaseWrite, g

LEMMA CommandPhaseWriteType ==
  ASSUME NEW f \in Fdc, NEW dk \in Medium, NEW v \in Bytes
  PROVE  CommandPhaseWrite(f, dk, v) \in Fdc
<1> DEFINE g         == [f EXCEPT !.phaseStep = @ + 1]
           addressed == [g EXCEPT !.drive = v % 4, !.status0 = @ \ {"IC0"}]
           sized     == [addressed EXCEPT !.sectorSize = NominalSize(addressed, dk)]
           idle      == [g EXCEPT !.phase = "IDLE", !.phaseStep = 0]
           transfer  == [g EXCEPT !.mainStatus = @ \ {"DIO"}, !.phase = "DATATRANSFER",
                                  !.phaseStep = 0, !.interrupt = TRUE]
<1>1. v \in 0..LastTrack /\ v % 4 \in 0..3 /\ SizeOf[v] \in Int /\ << >> \in Entries
  BY ByteAssumption, GeometryAssumption DEF Entries
<1>2. g \in Fdc
  <2>1. f.phaseStep + 1 \in Nat
    BY DEF Fdc
  <2> QED
    BY <2>1 DEF Fdc
<1> HIDE DEF g
<1>3. /\ g.status0 \ {"IC0"} \in SUBSET {"IC0", "SE"}
      /\ g.mainStatus \ {"DIO"} \in SUBSET {"RQM", "DIO", "CB"}
      /\ g.mainStatus \ {"CB"} \in SUBSET {"RQM", "DIO", "CB"}
  BY <1>2 DEF Fdc
<1>4. addressed \in Fdc
  BY <1>1, <1>2, <1>3 DEF Fdc
<1>5. sized \in Fdc
  <2>1. NominalSize(addressed, dk) \in Int
    BY <1>4, NominalSizeType
  <2> HIDE DEF addressed
  <2> QED
    BY <1>4, <2>1 DEF Fdc
<1>6. idle \in Fdc /\ transfer \in Fdc
  BY <1>2, <1>3 DEF Fdc
<1>7. [g EXCEPT !.sectorNumber = v] \in Fdc
  BY <1>1, <1>2 DEF Fdc
<1>8. [g EXCEPT !.sectorSize = SizeOf[v], !.sectorOffset = 0] \in Fdc
  BY <1>1, <1>2 DEF Fdc
<1>9. [g EXCEPT !.sectorsPerCylinder = v, !.sectorNumber = v] \in Fdc
  BY <1>1, <1>2 DEF Fdc
<1>10. [transfer EXCEPT !.sectorOffset = 0, !.formatEntries = << >>] \in Fdc
  <2> HIDE DEF transfer
  <2> QED
    BY <1>1, <1>6 DEF Fdc
<1>11. /\ [idle EXCEPT !.drive = v % 4, !.status0 = @ \ {"IC0"}] \in Fdc
       /\ [idle EXCEPT !.drive = v % 4] \in Fdc
  <2> HIDE DEF idle
  <2>1. idle.status0 \ {"IC0"} \in SUBSET {"IC0", "SE"}
    BY <1>6 DEF Fdc
  <2> QED
    BY <1>1, <1>6, <2>1 DEF Fdc
<1>12. [g EXCEPT !.stepTime = StepTimeOf[v]] \in Fdc
  <2>1. StepTimeOf[v] \in Nat \ {0}
    BY TimingAssumption
  <2> QED
    BY <1>2, <2>1 DEF Fdc
<1>13. [g EXCEPT !.mainStatus = @ \ {"CB"}, !.phase = "IDLE", !.interrupt = TRUE] \in Fdc
  BY <1>2, <1>3 DEF Fdc
<1>14. /\ SetupMoveToTrack(idle, v) \in Fdc
       /\ SetupMoveToTrack([idle EXCEPT !.drive = v % 4, !.status0 = @ \ {"IC0"}], v) \in Fdc
       /\ FindSector([idle EXCEPT !.drive = v % 4], dk) \in Fdc
       /\ ReadSector(g, dk) \in Fdc
       /\ EnterResult(addressed) \in Fdc
  BY <1>1, <1>2, <1>4, <1>6, <1>11, SetupMoveToTrackType, FindSectorType, ReadSectorType,
     EnterResultType
<1> HIDE DEF addressed, sized, idle, transfer
<1> QED
  BY <1>2, <1>4, <1>5, <1>6, <1>7, <1>8, <1>9, <1>10, <1>12, <1>13, <1>14
     DEF CommandPhaseWrite, g, addressed, sized, idle, transfer

LEMMA WriteDataByteType ==
  ASSUME NEW f \in Fdc, NEW dk \in Medium
  PROVE  WriteDataByte(f, dk) \in Fdc
<1> DEFINE g == [f EXCEPT !.sectorOffset = @ + 1]
<1>1. g \in Fdc
  <2>1. f.sectorOffset + 1 \in Nat
    BY DEF Fdc
  <2> QED
    BY <2>1 DEF Fdc
<1> HIDE DEF g
<1>2. [g EXCEPT !.phase = "RESULT", !.phaseStep = 0, !.mainStatus = @ \cup {"DIO"},
               !.status0 = IF ReadOnly(dk, f.drive) THEN @ \cup {"IC0"} ELSE @] \in Fdc
  <2>1. /\ g.mainStatus \cup {"DIO"} \in SUBSET {"RQM", "DIO", "CB"}
        /\ g.status0 \cup {"IC0"} \in SUBSET {"IC0", "SE"}
    BY <1>1 DEF Fdc
  <2> QED
    BY <1>1, <2>1 DEF Fdc
<1> QED
  BY <1>1, <1>2 DEF WriteDataByte, g

LEMMA FormatByteType ==
  ASSUME NEW f \in Fdc, NEW v \in Bytes
  PROVE  FormatByte(f, v) \in Fdc
<1> DEFINE step  == f.phaseStep % 4
           count == IF f.sectorsPerCylinder = 0 THEN (f.phaseStep + 1) % 4 ELSE f.phaseStep + 1
           g == CASE step = 0 -> [f EXCEPT !.currentTrack = v]
                  [] step = 2 -> [f EXCEPT !.sectorNumber = v]
                  [] step = 3 /\ Len(f.formatEntries) < MaxSectors ->
                       [f EXCEPT !.formatEntries = Append(@, [R |-> f.sectorNumber, bytes |-> SizeOf[v]])]
                  [] OTHER -> f
<1>1. v \in 0..LastTrack
  BY ByteAssumption
<1>2. count \in Nat
  BY DEF Fdc
<1>3. g \in Fdc
  <2>1. Append(f.formatEntries, [R |-> f.sectorNumber, bytes |-> SizeOf[v]]) \in Entries
    <3>1. [R |-> f.sectorNumber, bytes |-> SizeOf[v]] \in Entry
      BY ByteAssumption DEF Fdc, Entry
    <3>2. f.formatEntries \in Entries
      BY DEF Fdc
    <3> QED
      BY <3>1, <3>2 DEF Entries
  <2>2. [f EXCEPT !.currentTrack = v] \in Fdc /\ [f EXCEPT !.sectorNumber = v] \in Fdc
    BY <1>1 DEF Fdc
  <2>3. [f EXCEPT !.formatEntries = Append(@, [R |-> f.sectorNumber, bytes |-> SizeOf[v]])] \in Fdc
    BY <2>1 DEF Fdc
  <2> QED
    BY <2>2, <2>3
<1> HIDE DEF g, count
<1>4. [g EXCEPT !.phaseStep = count] \in Fdc
  BY <1>2, <1>3 DEF Fdc
<1>5. [g EXCEPT !.phaseStep = count, !.phase = "IDLE", !.mainStatus = @ \ {"DIO"},
                !.pendingFormat = TRUE, !.formatCompleteBit = f.totalBits + Rev] \in Fdc
  <2>1. g.mainStatus \ {"DIO"} \in SUBSET {"RQM", "DIO", "CB"} /\ f.totalBits + Rev \in Nat
    BY <1>3, GeometryAssumption DEF Fdc
  <2> QED
    BY <1>2, <1>3, <2>1 DEF Fdc
<1> QED
  BY <1>4, <1>5 DEF FormatByte, g, count

LEMMA TransferredType ==
  ASSUME NEW f \in Fdc
  PROVE  Transferred(f) \in Fdc
<1>1. f.mainStatus \ {"RQM"} \in SUBSET {"RQM", "DIO", "CB"}
  BY DEF Fdc
<1> QED
  BY <1>1 DEF Transferred, Fdc

LEMMA WriteType ==
  ASSUME NEW f \in Fdc, NEW dk \in Medium, NEW v,
         IF f.phase = "IDLE" THEN v \in Commands ELSE v \in Bytes
  PROVE  Write(f, dk, v) \in Fdc /\ MediumAfterWrite(f, dk, v) \in Medium
<1>1. f.phase = "IDLE" => IdlePhaseWrite(f, v) \in Fdc
  BY IdlePhaseWriteType, CommandAssumption
<1>2. f.phase = "COMMAND" => CommandPhaseWrite(f, dk, v) \in Fdc
  BY CommandPhaseWriteType
<1>3. f.phase = "DATATRANSFER" => Transferred(ExecutionPhaseWrite(f, dk, v)) \in Fdc
  BY WriteDataByteType, FormatByteType, TransferredType DEF ExecutionPhaseWrite
<1>4. Write(f, dk, v) \in Fdc
  BY <1>1, <1>2, <1>3 DEF Write
<1>5. [dk EXCEPT !.dirty = TRUE] \in Medium
  BY DEF Medium
<1>6. MediumAfterWrite(f, dk, v) \in Medium
  BY <1>5 DEF MediumAfterWrite
<1> QED
  BY <1>4, <1>6

LEMMA ExecutionPhaseReadType ==
  ASSUME NEW f \in Fdc
  PROVE  ExecutionPhaseRead(f) \in Fdc
<1>1. f.sectorOffset + 1 \in Nat
  BY DEF Fdc
<1>2. [f EXCEPT !.sectorOffset = @ + 1] \in Fdc
  BY <1>1 DEF Fdc
<1>3. [f EXCEPT !.sectorOffset = @ + 1, !.phase = "RESULT", !.phaseStep = 0,
                !.interrupt = TRUE] \in Fdc
  BY <1>1 DEF Fdc
<1> QED
  BY <1>2, <1>3 DEF ExecutionPhaseRead

LEMMA ResultsPhaseReadType ==
  ASSUME NEW f \in Fdc
  PROVE  ResultsPhaseRead(f) \in Fdc
<1>1. f.phaseStep + 1 \in Nat /\ f.mainStatus \ {"CB", "DIO"} \in SUBSET {"RQM", "DIO", "CB"}
  BY DEF Fdc
<1>2. [f EXCEPT !.phaseStep = @ + 1] \in Fdc
  BY <1>1 DEF Fdc
<1>3. [[f EXCEPT !.phaseStep = @ + 1] EXCEPT !.phase = "IDLE", !.mainStatus = @ \ {"CB", "DIO"}] \in Fdc
  BY <1>1 DEF Fdc
<1> QED
  BY <1>2, <1>3 DEF ResultsPhaseRead

LEMMA ReadType ==
  ASSUME NEW f \in Fdc
  PROVE  Read(f) \in Fdc
<1>1. [f EXCEPT !.interrupt = FALSE] \in Fdc
  BY DEF Fdc
<1> QED
  BY <1>1, ExecutionPhaseReadType, ResultsPhaseReadType, TransferredType DEF Read

LEMMA ReadStatusType ==
  ASSUME NEW f \in Fdc
  PROVE  ReadStatus(f) \in Fdc
<1>1. f.mainStatus \cup {"RQM"} \in SUBSET {"RQM", "DIO", "CB"}
  BY DEF Fdc
<1> QED
  BY <1>1 DEF ReadStatus, Fdc

LEMMA TerminalCountType ==
  ASSUME NEW f \in Fdc
  PROVE  TerminalCount(f) \in Fdc
<1>1. (f.mainStatus \cup {"RQM"}) \ {"CB"} \in SUBSET {"RQM", "DIO", "CB"}
  BY DEF Fdc
<1> QED
  BY <1>1 DEF TerminalCount, Fdc

LEMMA ControlEdgesType ==
  ASSUME NEW f \in Fdc, NEW tc \in BOOLEAN, NEW reset \in BOOLEAN
  PROVE  ControlEdges(f, tc, reset) \in Fdc
BY TerminalCountType, ResetType DEF ControlEdges

LEMMA MachineResetType ==
  ASSUME NEW f \in Fdc
  PROVE  [f EXCEPT !.totalBits = 0] \in Fdc /\ Reset([f EXCEPT !.totalBits = 0]) \in Fdc
<1>1. [f EXCEPT !.totalBits = 0] \in Fdc
  BY DEF Fdc
<1> QED
  BY <1>1, ResetType

LEMMA DiskChangedType ==
  ASSUME NEW f \in Fdc
  PROVE  DiskChanged(f) \in Fdc
<1>1. InsertTrack \in 0..LastTrack /\ 0 \in 0..LastTrack
  BY GeometryAssumption
<1> QED
  BY <1>1 DEF DiskChanged, Fdc

-----------------------------------------------------------------------------
(* Type correctness.                                                         *)

LEMMA InitTypeOK == Init => TypeOK
<1> SUFFICES ASSUME Init PROVE TypeOK
  OBVIOUS
<1>1. PICK v \in Bytes : fdc = PowerUp(StepTimeOf[v])
  BY DEF Init
<1>2. StepTimeOf[v] \in Nat \ {0}
  BY TimingAssumption
<1> QED
  BY <1>1, <1>2, PowerUpType, NoMediumType DEF Init, TypeOK

LEMMA NextTypeOK == TypeOK /\ [Next]_vars => TypeOK'
<1> SUFFICES ASSUME TypeOK, [Next]_vars PROVE TypeOK'
  OBVIOUS
<1> USE DEF TypeOK
<1>1. ASSUME NEW v \in Input, GuestWrite(v) PROVE TypeOK'
  BY <1>1, WriteType DEF GuestWrite, Input
<1>2. CASE GuestRead
  BY <1>2, ReadType DEF GuestRead
<1>3. CASE GuestReadStatus
  BY <1>3, ReadStatusType DEF GuestReadStatus
<1>4. ASSUME NEW on \in BOOLEAN, NEW tc \in BOOLEAN, NEW reset \in BOOLEAN,
             GuestControl(on, tc, reset)
      PROVE  TypeOK'
  BY <1>4, ControlEdgesType DEF GuestControl
<1>5. CASE MachineReset
  BY <1>5, MachineResetType DEF MachineReset
<1>7. ASSUME NEW m \in Media, InsertMedium(m) PROVE TypeOK'
  BY <1>7, DiskChangedType, MediaAssumption DEF InsertMedium
<1>8. CASE EjectMedium
  <2>1. [NoMedium EXCEPT !.readOnly = disk.readOnly] \in Medium
    BY NoMediumType DEF Medium
  <2> QED
    BY <1>8, <2>1 DEF EjectMedium
<1>9. ASSUME NEW b \in Protection, SetWriteProtect(b) PROVE TypeOK'
  <2>1. [disk EXCEPT !.readOnly = b] \in Medium
    BY MediaAssumption DEF Medium
  <2> QED
    BY <1>9, <2>1 DEF SetWriteProtect
<1>10. ASSUME NEW n \in Blocks, Clock(n) PROVE TypeOK'
  BY <1>10, TickType, TimingAssumption DEF Clock, Rotating, Present, Medium
<1>11. CASE UNCHANGED vars
  BY <1>11 DEF vars
<1> QED
  BY <1>1, <1>2, <1>3, <1>4, <1>5, <1>7, <1>8, <1>9, <1>10, <1>11 DEF Next

\* The controller and the medium keep their types, whatever the guest and the
\* user do.
THEOREM TypeCorrect == Spec => []TypeOK
BY InitTypeOK, NextTypeOK, PTL DEF Spec

-----------------------------------------------------------------------------
(* The protocol invariants.  BusyHasCause and FormatOwnsController are        *)
(* inductive once the types are known; that a transfer ends at its length     *)
(* needs to know that a WRITE_DATA past its size byte starts its sector from  *)
(* the beginning.  A length that is not positive ends no transfer, but then   *)
(* no byte moves.                                                            *)

Consistent(f) ==
  /\ f.phase = "IDLE" /\ "CB" \in f.mainStatus =>
       f.phase2 = "SEEKING" \/ f.pendingFind \/ f.pendingFormat
  /\ f.pendingFormat => f.command = "FORMAT" /\ f.formatEntries # << >>
  /\ f.phase = "DATATRANSFER" => f.sectorOffset = 0 \/ f.sectorOffset < f.sectorSize
  /\ f.phase = "COMMAND" /\ f.command = "WRITE_DATA" /\ f.phaseStep > 5 => f.sectorOffset = 0

LEMMA PowerUpConsistent ==
  ASSUME NEW t \in Nat \ {0}
  PROVE  Consistent(PowerUp(t))
BY DEF Consistent, PowerUp, Reset

LEMMA ResetConsistent ==
  ASSUME NEW f \in Fdc
  PROVE  Consistent(Reset(f))
BY DEF Consistent, Reset

LEMMA EnterResultConsistent ==
  ASSUME NEW f \in Fdc, f.pendingFormat => f.command = "FORMAT" /\ f.formatEntries # << >>
  PROVE  Consistent(EnterResult(f))
BY DEF Consistent, EnterResult, Fdc

LEMMA MoveToTrackTickConsistent ==
  ASSUME NEW f \in Fdc, Consistent(f), NEW n \in Nat
  PROVE  Consistent(MoveToTrackTick(f, n))
BY DEF Consistent, MoveToTrackTick, EndSeek, Fdc

LEMMA SectorFindTickConsistent ==
  ASSUME NEW f \in Fdc, Consistent(f), NEW dk \in Medium
  PROVE  Consistent(SectorFindTick(f, dk))
BY DEF Consistent, SectorFindTick, EnterResult, Fdc

LEMMA FormatTickConsistent ==
  ASSUME NEW f \in Fdc, Consistent(f)
  PROVE  Consistent(FormatTick(f))
BY DEF Consistent, FormatTick, EnterResult, Fdc

LEMMA TickConsistent ==
  ASSUME NEW f \in Fdc, Consistent(f), NEW dk \in Medium, NEW n \in Nat,
         NEW rotating \in BOOLEAN
  PROVE  Consistent(Tick(f, dk, n, rotating))
<1> DEFINE r == Rotate(f, n, rotating)
           m == MoveToTrackTick(r, n)
           s == SectorFindTick(m, dk)
           t == FormatTick(s)
<1>1. r \in Fdc /\ m \in Fdc /\ s \in Fdc /\ t \in Fdc
  BY RotateType, MoveToTrackTickType, SectorFindTickType, FormatTickType
<1>2. Consistent(r)
  BY DEF Consistent, Rotate, Fdc
<1> HIDE DEF r, m, s, t
<1>3. Consistent(m)
  BY <1>1, <1>2, MoveToTrackTickConsistent DEF m
<1>4. Consistent(s)
  BY <1>1, <1>3, SectorFindTickConsistent DEF s
<1>5. Consistent(t)
  BY <1>1, <1>4, FormatTickConsistent DEF t
<1>6. Consistent(Settle(t))
  BY <1>1, <1>5 DEF Consistent, Settle, Fdc
<1> QED
  BY <1>6 DEF Tick, BeforeFormatTick, t, s, m, r

LEMMA IdlePhaseWriteConsistent ==
  ASSUME NEW f \in Fdc, Consistent(f), ~f.pendingFormat, NEW c \in CommandNames
  PROVE  Consistent(IdlePhaseWrite(f, c))
BY DEF Consistent, IdlePhaseWrite, EnterResult, Fdc, CommandNames

LEMMA CommandPhaseWriteConsistent ==
  ASSUME NEW f \in Fdc, Consistent(f), f.phase = "COMMAND", ~f.pendingFormat,
         NEW dk \in Medium, NEW v \in Bytes
  PROVE  Consistent(CommandPhaseWrite(f, dk, v))
<1>1. CASE f.command = "READ_DATA"
  BY <1>1 DEF Consistent, CommandPhaseWrite, ReadSector, Fdc
<1>2. CASE f.command = "WRITE_DATA"
  <2>1. CASE f.phaseStep = 8
    <3>1. CommandPhaseWrite(f, dk, v) =
            [[f EXCEPT !.phaseStep = @ + 1] EXCEPT !.mainStatus = @ \ {"DIO"},
               !.phase = "DATATRANSFER", !.phaseStep = 0, !.interrupt = TRUE]
      BY <1>2, <2>1 DEF CommandPhaseWrite
    <3>2. f.sectorOffset = 0
      BY <1>2, <2>1 DEF Consistent, Fdc
    <3> QED
      BY <1>2, <3>1, <3>2 DEF Consistent, Fdc
  <2>2. CASE f.phaseStep = 5
    <3>1. CommandPhaseWrite(f, dk, v) =
            [f EXCEPT !.phaseStep = @ + 1, !.sectorSize = SizeOf[v], !.sectorOffset = 0]
      BY <1>2, <2>2 DEF CommandPhaseWrite, Fdc
    <3> QED
      BY <1>2, <2>2, <3>1 DEF Consistent, Fdc
  <2>3. CASE f.phaseStep \in {1, 4}
    <3> DEFINE h == CommandPhaseWrite(f, dk, v)
    <3>1. /\ h.phase = f.phase /\ h.command = f.command /\ h.phaseStep = f.phaseStep + 1
          /\ h.pendingFormat = f.pendingFormat
      BY <1>2, <2>3 DEF CommandPhaseWrite, Fdc
    <3> QED
      BY <1>2, <2>3, <3>1 DEF Consistent
  <2>4. CASE f.phaseStep \notin {1, 4, 5, 8}
    <3>1. CommandPhaseWrite(f, dk, v) = [f EXCEPT !.phaseStep = @ + 1]
      BY <1>2, <2>4 DEF CommandPhaseWrite
    <3>2. f.phaseStep + 1 > 5 => f.phaseStep > 5
      BY <2>4 DEF Fdc
    <3> QED
      BY <1>2, <3>1, <3>2 DEF Consistent, Fdc
  <2> QED
    BY <2>1, <2>2, <2>3, <2>4
<1>3. CASE f.command = "FORMAT"
  BY <1>3 DEF Consistent, CommandPhaseWrite, Fdc
<1>4. CASE f.command \in {"SEEK", "RECALIBRATE"}
  <2>1. CASE f.command = "SEEK"
    BY <1>4, <2>1 DEF Consistent, CommandPhaseWrite, SetupMoveToTrack, Fdc
  <2>2. CASE f.command = "RECALIBRATE"
    BY <1>4, <2>2 DEF Consistent, CommandPhaseWrite, SetupMoveToTrack, Fdc
  <2> QED
    BY <1>4, <2>1, <2>2
<1>5. CASE f.command = "READ_ID"
  BY <1>5 DEF Consistent, CommandPhaseWrite, FindSector, Fdc
<1>6. CASE f.command \in {"SPECIFY", "SENSE_DEVICE"}
  <2>1. CASE f.command = "SPECIFY"
    BY <1>6, <2>1 DEF Consistent, CommandPhaseWrite, Fdc
  <2>2. CASE f.command = "SENSE_DEVICE"
    BY <1>6, <2>2 DEF Consistent, CommandPhaseWrite, EnterResult, Fdc
  <2> QED
    BY <1>6, <2>1, <2>2
<1>7. CASE f.command \in {"SENSE_INT", "UNKNOWN"}
  BY <1>7 DEF Consistent, CommandPhaseWrite, Fdc
<1> QED
  BY <1>1, <1>2, <1>3, <1>4, <1>5, <1>6, <1>7 DEF Fdc, CommandNames

LEMMA WriteDataByteConsistent ==
  ASSUME NEW f \in Fdc, Consistent(f), f.phase = "DATATRANSFER", ~f.pendingFormat,
         NEW dk \in Medium
  PROVE  Consistent(WriteDataByte(f, dk)) /\ ~WriteDataByte(f, dk).pendingFormat
BY DEF Consistent, WriteDataByte, Fdc

LEMMA AppendNotEmpty ==
  ASSUME NEW S, NEW s \in Seq(S), NEW x \in S
  PROVE  Append(s, x) # << >>
<1>1. Len(Append(s, x)) = Len(s) + 1
  OBVIOUS
<1>2. Len(s) + 1 # 0
  OBVIOUS
<1> QED
  BY <1>1, <1>2

\* The format revolution starts after a whole number of four-byte entries, of
\* which the first was recorded since there is room for at least one.
LEMMA FormatByteConsistent ==
  ASSUME NEW f \in Fdc, Consistent(f), f.phase = "DATATRANSFER", f.command = "FORMAT",
         ~f.pendingFormat, NEW v \in Bytes
  PROVE  Consistent(FormatByte(f, v))
<1> DEFINE step  == f.phaseStep % 4
           count == IF f.sectorsPerCylinder = 0 THEN (f.phaseStep + 1) % 4 ELSE f.phaseStep + 1
           last  == f.sectorsPerCylinder # 0 /\ count = 4 * f.sectorsPerCylinder
           g == CASE step = 0 -> [f EXCEPT !.currentTrack = v]
                  [] step = 2 -> [f EXCEPT !.sectorNumber = v]
                  [] step = 3 /\ Len(f.formatEntries) < MaxSectors ->
                       [f EXCEPT !.formatEntries = Append(@, [R |-> f.sectorNumber, bytes |-> SizeOf[v]])]
                  [] OTHER -> f
<1>1. f.sectorsPerCylinder \in Nat /\ f.phaseStep \in Nat /\ f.formatEntries \in Entries
  BY GeometryAssumption DEF Fdc
<1>2. /\ DOMAIN g = DOMAIN f
      /\ g.phase = f.phase /\ g.command = "FORMAT" /\ ~g.pendingFormat
      /\ g.sectorOffset = f.sectorOffset /\ g.sectorSize = f.sectorSize
  BY DEF Fdc
<1>3. last => g.formatEntries # << >>
  <2> SUFFICES ASSUME last PROVE g.formatEntries # << >>
    OBVIOUS
  <2>1. step = 3
    BY <1>1
  <2>2. CASE Len(f.formatEntries) < MaxSectors
    <3>1. PICK e : e = [R |-> f.sectorNumber, bytes |-> SizeOf[v]]
      OBVIOUS
    <3>2. g.formatEntries = Append(f.formatEntries, e)
      BY <2>1, <2>2, <3>1 DEF Fdc
    <3>3. Append(f.formatEntries, e) # << >>
      <4>1. e \in Entry
        BY <3>1, ByteAssumption DEF Fdc, Entry
      <4> QED
        BY <1>1, <4>1, AppendNotEmpty DEF Entries
    <3> QED
      BY <3>2, <3>3
  <2>3. CASE ~(Len(f.formatEntries) < MaxSectors)
    <3>1. g.formatEntries = f.formatEntries
      BY <2>1, <2>3
    <3>2. f.formatEntries # << >>
      BY <1>1, <2>3, GeometryAssumption DEF Entries
    <3> QED
      BY <3>1, <3>2
  <2> QED
    BY <2>2, <2>3
<1> HIDE DEF g, count
<1>4. CASE last
  BY <1>2, <1>3, <1>4 DEF Consistent, FormatByte, g, count, Fdc
<1>5. CASE ~last
  BY <1>2, <1>5 DEF Consistent, FormatByte, g, count, Fdc
<1> QED
  BY <1>4, <1>5

LEMMA TransferredConsistent ==
  ASSUME NEW f \in Fdc, Consistent(f)
  PROVE  Consistent(Transferred(f))
BY DEF Consistent, Transferred, Fdc

LEMMA WriteConsistent ==
  ASSUME NEW f \in Fdc, Consistent(f), NEW dk \in Medium, NEW v,
         IF f.phase = "IDLE" THEN v \in Commands ELSE v \in Bytes
  PROVE  Consistent(Write(f, dk, v))
<1>1. f.phase = "IDLE" /\ ~f.pendingFormat => Consistent(IdlePhaseWrite(f, v))
  BY IdlePhaseWriteConsistent, CommandAssumption
<1>2. f.phase = "COMMAND" /\ ~f.pendingFormat => Consistent(CommandPhaseWrite(f, dk, v))
  BY CommandPhaseWriteConsistent
<1>3. ASSUME f.phase = "DATATRANSFER", ~f.pendingFormat
      PROVE  Consistent(Transferred(ExecutionPhaseWrite(f, dk, v)))
  <2>1. ExecutionPhaseWrite(f, dk, v) \in Fdc
    BY <1>3, WriteDataByteType, FormatByteType DEF ExecutionPhaseWrite
  <2>2. Consistent(ExecutionPhaseWrite(f, dk, v))
    BY <1>3, WriteDataByteConsistent, FormatByteConsistent DEF ExecutionPhaseWrite
  <2> QED
    BY <2>1, <2>2, TransferredConsistent
<1> QED
  BY <1>1, <1>2, <1>3 DEF Write

LEMMA ReadConsistent ==
  ASSUME NEW f \in Fdc, Consistent(f)
  PROVE  Consistent(Read(f))
<1> DEFINE g == [f EXCEPT !.interrupt = FALSE]
<1>1. g \in Fdc /\ Consistent(g) /\ g.phase = f.phase
  BY DEF Consistent, Fdc
<1> HIDE DEF g
<1>2. CASE f.phase = "DATATRANSFER"
  <2>1. ExecutionPhaseRead(g) \in Fdc
    BY <1>1, ExecutionPhaseReadType
  <2>2. Consistent(ExecutionPhaseRead(g))
    <3> DEFINE more == [g EXCEPT !.sectorOffset = @ + 1]
               end  == [more EXCEPT !.phase = "RESULT", !.phaseStep = 0, !.interrupt = TRUE]
    <3>1. g.sectorOffset + 1 < g.sectorSize => Consistent(more)
      BY <1>1, <1>2 DEF Consistent, Fdc
    <3>2. Consistent(end)
      BY <1>1, <1>2 DEF Consistent, Fdc
    <3>3. g.sectorOffset < g.sectorSize /\ g.sectorOffset + 1 # g.sectorSize =>
            g.sectorOffset + 1 < g.sectorSize
      BY <1>1 DEF Fdc
    <3>4. g.sectorOffset \in Nat /\ g.sectorSize \in Int
      BY <1>1 DEF Fdc
    <3> HIDE DEF more
    <3> QED
      BY <1>1, <3>1, <3>2, <3>3, <3>4 DEF ExecutionPhaseRead, more
  <2> QED
    BY <1>2, <2>1, <2>2, TransferredConsistent DEF Read, g
<1>3. CASE f.phase = "RESULT"
  BY <1>1, <1>3 DEF Consistent, Read, ResultsPhaseRead, Fdc, g
<1>4. CASE f.phase \notin {"DATATRANSFER", "RESULT"}
  BY <1>1, <1>4 DEF Read, g
<1> QED
  BY <1>2, <1>3, <1>4

LEMMA OtherInputsConsistent ==
  ASSUME NEW f \in Fdc, Consistent(f)
  PROVE  Consistent(ReadStatus(f)) /\ Consistent(TerminalCount(f)) /\ Consistent(DiskChanged(f))
BY DEF Consistent, ReadStatus, TerminalCount, DiskChanged, Fdc

LEMMA ControlEdgesConsistent ==
  ASSUME NEW f \in Fdc, Consistent(f), NEW tc \in BOOLEAN, NEW reset \in BOOLEAN
  PROVE  Consistent(ControlEdges(f, tc, reset))
BY TerminalCountType, OtherInputsConsistent, ResetConsistent DEF ControlEdges

\* The inductive invariant.
ProtocolInv == TypeOK /\ Consistent(fdc)

LEMMA InitProtocolInv == Init => ProtocolInv
<1> SUFFICES ASSUME Init PROVE ProtocolInv
  OBVIOUS
<1>1. PICK v \in Bytes : fdc = PowerUp(StepTimeOf[v])
  BY DEF Init
<1>2. StepTimeOf[v] \in Nat \ {0}
  BY TimingAssumption
<1> QED
  BY <1>1, <1>2, PowerUpConsistent, InitTypeOK DEF ProtocolInv

LEMMA NextProtocolInv == ProtocolInv /\ [Next]_vars => ProtocolInv'
<1> SUFFICES ASSUME ProtocolInv, [Next]_vars PROVE Consistent(fdc)'
  BY NextTypeOK DEF ProtocolInv
<1>0. fdc \in Fdc /\ disk \in Medium /\ Consistent(fdc)
  BY DEF ProtocolInv, TypeOK
<1>1. ASSUME NEW v \in Input, GuestWrite(v) PROVE Consistent(fdc')
  BY <1>0, <1>1, WriteConsistent DEF GuestWrite, Input
<1>2. CASE GuestRead
  BY <1>0, <1>2, ReadConsistent DEF GuestRead
<1>3. CASE GuestReadStatus
  BY <1>0, <1>3, OtherInputsConsistent DEF GuestReadStatus
<1>4. ASSUME NEW on \in BOOLEAN, NEW tc \in BOOLEAN, NEW reset \in BOOLEAN,
             GuestControl(on, tc, reset)
      PROVE  Consistent(fdc')
  BY <1>0, <1>4, ControlEdgesConsistent DEF GuestControl
<1>8. CASE MachineReset
  BY <1>0, <1>8, MachineResetType, ResetConsistent DEF MachineReset
<1>5. ASSUME NEW m \in Media, InsertMedium(m) PROVE Consistent(fdc')
  BY <1>0, <1>5, OtherInputsConsistent DEF InsertMedium
<1>6. ASSUME NEW n \in Blocks, Clock(n) PROVE Consistent(fdc')
  BY <1>0, <1>6, TickConsistent, TimingAssumption
     DEF Clock, Rotating, Present, Medium, ProtocolInv, TypeOK
<1>7. CASE EjectMedium \/ (\E b \in Protection : SetWriteProtect(b)) \/ UNCHANGED vars
  BY <1>0, <1>7 DEF EjectMedium, SetWriteProtect, vars
<1> QED
  BY <1>1, <1>2, <1>3, <1>4, <1>5, <1>6, <1>7, <1>8 DEF Next

THEOREM ProtocolInvariance == Spec => []ProtocolInv
BY InitProtocolInv, NextProtocolInv, PTL DEF Spec

\* An idle controller that shows busy always has work under way that ends it.
THEOREM BusyIsCaused == Spec => []BusyHasCause
<1>1. ProtocolInv => BusyHasCause
  BY DEF ProtocolInv, Consistent, BusyHasCause
<1> QED
  BY <1>1, ProtocolInvariance, PTL

\* No command slips into a format revolution, and it always has entries to
\* commit.
THEOREM FormatIsExclusive == Spec => []FormatOwnsController
<1>1. ProtocolInv => FormatOwnsController
  BY DEF ProtocolInv, Consistent, FormatOwnsController
<1> QED
  BY <1>1, ProtocolInvariance, PTL

-----------------------------------------------------------------------------
(* The sector buffer.  If no length the guest or a medium names is longer     *)
(* than the buffer, then no length on the medium, in the entries FORMAT has   *)
(* collected or in the transfer under way ever is.                            *)

Short(s) == \A i \in DOMAIN s : s[i].bytes <= BufferBytes
ShortMedium(dk) == dk.nominal <= BufferBytes /\ \A t \in 0..LastTrack : Short(dk.track[t])
ShortFdc(f) == f.sectorSize <= BufferBytes /\ Short(f.formatEntries)

LEMMA EmptyIsShort == Short(<< >>) /\ 0 <= BufferBytes
BY GeometryAssumption DEF Short

LEMMA SectorsUnderShort ==
  ASSUME NEW f \in Fdc, NEW dk \in Medium, ShortMedium(dk)
  PROVE  Short(SectorsUnder(f, dk))
<1>1. f.currentTrack \in 0..LastTrack
  BY DEF Fdc
<1> QED
  BY <1>1, EmptyIsShort DEF SectorsUnder, ShortMedium

LEMMA LengthsShort ==
  ASSUME NEW f \in Fdc, NEW dk \in Medium, ShortMedium(dk)
  PROVE  SectorLength(f, dk) <= BufferBytes /\ NominalSize(f, dk) <= BufferBytes
<1> DEFINE s == SectorsUnder(f, dk)
<1>1. s \in Track /\ Short(s)
  BY SectorsUnderType, SectorsUnderShort
<1>2. SectorLength(f, dk) <= BufferBytes
  <2>1. CASE HasSector(f, dk)
    BY <1>1, <2>1, SectorLengthFound DEF Short
  <2>2. CASE ~HasSector(f, dk)
    BY <2>2, EmptyIsShort DEF SectorLength
  <2> QED
    BY <2>1, <2>2
<1>3. NominalSize(f, dk) <= BufferBytes
  <2>1. s # << >> => 1 \in DOMAIN s
    BY <1>1 DEF Track
  <2> HIDE DEF s
  <2>2. s # << >> => s[1].bytes <= BufferBytes
    BY <1>1, <2>1 DEF Short
  <2> QED
    BY <2>2, EmptyIsShort DEF NominalSize, ShortMedium, s
<1> QED
  BY <1>2, <1>3

LEMMA SetFormattedTrackShort ==
  ASSUME NEW f \in Fdc, ShortFdc(f), NEW dk \in Medium, ShortMedium(dk)
  PROVE  ShortMedium(SetFormattedTrack(f, dk))
<1>1. ASSUME NEW s, Short(s)
      PROVE  /\ ShortMedium([dk EXCEPT !.track[f.currentTrack] = s])
             /\ ShortMedium([dk EXCEPT !.track[f.currentTrack] = s, !.dirty = TRUE,
                                       !.present = TRUE])
  BY <1>1 DEF ShortMedium, Medium
<1> QED
  BY <1>1, EmptyIsShort DEF SetFormattedTrack, ShortFdc

LEMMA ResetShort ==
  ASSUME NEW f \in Fdc
  PROVE  ShortFdc(Reset(f))
BY EmptyIsShort DEF ShortFdc, Reset

\* A step that leaves the length and the entries alone, or drops the entries.
LEMMA KeepsShort ==
  ASSUME NEW f, ShortFdc(f), NEW g, g.sectorSize = f.sectorSize,
         g.formatEntries = f.formatEntries \/ g.formatEntries = << >>
  PROVE  ShortFdc(g)
BY EmptyIsShort DEF ShortFdc

LEMMA TickShort ==
  ASSUME NEW f \in Fdc, ShortFdc(f), NEW dk \in Medium, ShortMedium(dk), NEW n \in Nat,
         NEW rotating \in BOOLEAN
  PROVE  /\ ShortFdc(Tick(f, dk, n, rotating))
         /\ ShortMedium(MediumAfterTick(f, dk, n, rotating))
<1> DEFINE r == Rotate(f, n, rotating)
           m == MoveToTrackTick(r, n)
           b == SectorFindTick(m, dk)
           t == FormatTick(b)
<1>1. r \in Fdc /\ m \in Fdc /\ b \in Fdc /\ t \in Fdc
  BY RotateType, MoveToTrackTickType, SectorFindTickType, FormatTickType
<1>2. ShortFdc(r)
  <2>1. r.sectorSize = f.sectorSize /\ r.formatEntries = f.formatEntries
    BY DEF Rotate, Fdc
  <2> QED
    BY <2>1, KeepsShort
<1> HIDE DEF r
<1>3. ShortFdc(m)
  <2>1. m.sectorSize = r.sectorSize /\ m.formatEntries = r.formatEntries
    <3>1. \A x, y : LET g == [r EXCEPT !.currentTrack = x, !.stepClocks = y]
                    IN /\ g.sectorSize = r.sectorSize /\ g.formatEntries = r.formatEntries
                       /\ EndSeek(g).sectorSize = r.sectorSize
                       /\ EndSeek(g).formatEntries = r.formatEntries
      BY <1>1 DEF EndSeek, Fdc
    <3> QED
      BY <3>1, Zenon DEF MoveToTrackTick
  <2> QED
    BY <1>2, <2>1, KeepsShort
<1> HIDE DEF m
<1>4. ShortFdc(b)
  <2>1. b.sectorSize = m.sectorSize /\ b.formatEntries = m.formatEntries
    <3> DEFINE done == EnterResult([m EXCEPT !.pendingFind = FALSE, !.findCompleteBit = 0,
                                             !.findSectorIdx = 0])
    <3>1. /\ DOMAIN done = DOMAIN m
          /\ done.sectorSize = m.sectorSize /\ done.formatEntries = m.formatEntries
      BY <1>1 DEF EnterResult, Fdc
    <3> HIDE DEF done
    <3>2. \A x, y : [done EXCEPT !.status0 = x, !.status1 = y].sectorSize = m.sectorSize
                  /\ [done EXCEPT !.status0 = x, !.status1 = y].formatEntries = m.formatEntries
      BY <1>1, <3>1 DEF Fdc
    <3>3. \A x : [done EXCEPT !.sectorNumber = x].sectorSize = m.sectorSize
               /\ [done EXCEPT !.sectorNumber = x].formatEntries = m.formatEntries
      BY <1>1, <3>1 DEF Fdc
    <3> QED
      BY <3>2, <3>3 DEF SectorFindTick, done
  <2> QED
    BY <1>3, <2>1, KeepsShort
<1> HIDE DEF b
<1>5. ShortFdc(t)
  <2>1. t.sectorSize = b.sectorSize /\ (t.formatEntries = b.formatEntries \/ t.formatEntries = << >>)
    BY <1>1 DEF FormatTick, EnterResult, Fdc
  <2> QED
    BY <1>4, <2>1, KeepsShort
<1> HIDE DEF t
<1>6. ShortFdc(Settle(t))
  <2>1. Settle(t).sectorSize = t.sectorSize /\ Settle(t).formatEntries = t.formatEntries
    BY <1>1 DEF Settle, Fdc
  <2> QED
    BY <1>5, <2>1, KeepsShort
<1>7. Tick(f, dk, n, rotating) = Settle(t)
  BY DEF Tick, BeforeFormatTick, t, b, m, r
<1>8. BeforeFormatTick(f, dk, n, rotating) = b
  BY DEF BeforeFormatTick, b, m, r
<1>9. ShortMedium(MediumAfterTick(f, dk, n, rotating))
  BY <1>1, <1>4, <1>8, SetFormattedTrackShort DEF MediumAfterTick
<1> QED
  BY <1>6, <1>7, <1>9

LEMMA IdlePhaseWriteShort ==
  ASSUME NEW f \in Fdc, ShortFdc(f), NEW c \in CommandNames
  PROVE  ShortFdc(IdlePhaseWrite(f, c))
<1> DEFINE g == IdlePhaseWrite(f, c)
<1>1. g.sectorSize = f.sectorSize /\ g.formatEntries = f.formatEntries
  BY DEF IdlePhaseWrite, EnterResult, Fdc, CommandNames
<1> HIDE DEF g
<1>2. ShortFdc(g)
  BY <1>1, KeepsShort
<1> QED
  BY <1>2 DEF g

LEMMA CommandPhaseWriteShort ==
  ASSUME LengthsFit, NEW f \in Fdc, ShortFdc(f), NEW dk \in Medium, ShortMedium(dk),
         NEW v \in Bytes
  PROVE  ShortFdc(CommandPhaseWrite(f, dk, v))
<1> DEFINE g         == [f EXCEPT !.phaseStep = @ + 1]
           addressed == [g EXCEPT !.drive = v % 4, !.status0 = @ \ {"IC0"}]
           h         == CommandPhaseWrite(f, dk, v)
<1>1. g \in Fdc /\ g.sectorSize = f.sectorSize /\ g.formatEntries = f.formatEntries
  BY DEF Fdc
<1>2. v % 4 \in 0..3
  BY ByteAssumption, GeometryAssumption
<1>3. /\ addressed \in Fdc
      /\ addressed.sectorSize = f.sectorSize /\ addressed.formatEntries = f.formatEntries
  <2> HIDE DEF g
  <2>1. g.status0 \ {"IC0"} \in SUBSET {"IC0", "SE"}
    BY <1>1 DEF Fdc
  <2>2. addressed \in Fdc
    BY <1>1, <1>2, <2>1 DEF Fdc
  <2> QED
    BY <1>1, <2>2 DEF Fdc
<1>4. CASE f.command \in {"READ_DATA", "WRITE_DATA", "FORMAT"} /\ f.phaseStep = 1
  <2>1. h = [addressed EXCEPT !.sectorSize = NominalSize(addressed, dk)]
    BY <1>4 DEF CommandPhaseWrite
  <2>2. h.sectorSize = NominalSize(addressed, dk) /\ h.formatEntries = f.formatEntries
    BY <1>3, <2>1 DEF Fdc
  <2> QED
    BY <1>3, <2>2, LengthsShort DEF ShortFdc
<1>5. CASE f.command = "WRITE_DATA" /\ f.phaseStep = 5
  <2>1. h = [f EXCEPT !.phaseStep = @ + 1, !.sectorSize = SizeOf[v], !.sectorOffset = 0]
    BY <1>5 DEF CommandPhaseWrite, Fdc
  <2>2. h.sectorSize = SizeOf[v] /\ h.formatEntries = f.formatEntries
    BY <2>1 DEF Fdc
  <2> QED
    BY <2>2 DEF ShortFdc, LengthsFit
<1>6. CASE f.command = "READ_DATA" /\ f.phaseStep = 8
  <2>1. h = ReadSector(g, dk)
    BY <1>6 DEF CommandPhaseWrite
  <2>2. /\ h.sectorSize = SectorLength(g, dk) \/ h.sectorSize = 0
        /\ h.formatEntries = f.formatEntries
    <3> HIDE DEF h, g
    <3> QED
      BY <1>1, <2>1 DEF ReadSector, Fdc
  <2> QED
    BY <1>1, <2>2, LengthsShort, EmptyIsShort DEF ShortFdc
<1>7. CASE ~(f.command \in {"READ_DATA", "WRITE_DATA", "FORMAT"} /\ f.phaseStep = 1)
           /\ ~(f.command = "WRITE_DATA" /\ f.phaseStep = 5)
           /\ ~(f.command = "READ_DATA" /\ f.phaseStep = 8)
  <2>1. /\ h.sectorSize = f.sectorSize
        /\ h.formatEntries = f.formatEntries \/ h.formatEntries = << >>
    <3>1. CASE f.command \in {"READ_DATA", "WRITE_DATA"}
      BY <1>7, <3>1 DEF CommandPhaseWrite, Fdc
    <3>2. CASE f.command = "FORMAT"
      BY <1>7, <3>2 DEF CommandPhaseWrite, Fdc
    <3>3. CASE f.command \in {"SEEK", "RECALIBRATE"}
      BY <3>3 DEF CommandPhaseWrite, SetupMoveToTrack, Fdc
    <3>4. CASE f.command = "READ_ID"
      BY <3>4 DEF CommandPhaseWrite, FindSector, Fdc
    <3>5. CASE f.command \in {"SPECIFY", "SENSE_DEVICE"}
      BY <3>5 DEF CommandPhaseWrite, EnterResult, Fdc
    <3>6. CASE f.command \in {"SENSE_INT", "UNKNOWN"}
      BY <3>6 DEF CommandPhaseWrite, Fdc
    <3> QED
      BY <3>1, <3>2, <3>3, <3>4, <3>5, <3>6 DEF Fdc, CommandNames
  <2> HIDE DEF h
  <2>2. ShortFdc(h)
    BY <2>1, KeepsShort
  <2> QED
    BY <2>2 DEF h
<1> QED
  BY <1>4, <1>5, <1>6, <1>7

LEMMA AppendShort ==
  ASSUME NEW s \in Entries, Short(s), NEW e \in Entry,
         e.bytes <= BufferBytes
  PROVE  Short(Append(s, e))
<1>1. \A i \in DOMAIN Append(s, e) : Append(s, e)[i] = IF i \in DOMAIN s THEN s[i] ELSE e
  BY DEF Entries
<1> QED
  BY <1>1 DEF Short

LEMMA ExecutionPhaseWriteShort ==
  ASSUME LengthsFit, NEW f \in Fdc, ShortFdc(f), NEW dk \in Medium, NEW v \in Bytes
  PROVE  ShortFdc(ExecutionPhaseWrite(f, dk, v))
<1>1. ShortFdc(WriteDataByte(f, dk))
  <2> DEFINE g == WriteDataByte(f, dk)
  <2>1. g.sectorSize = f.sectorSize /\ g.formatEntries = f.formatEntries
    BY DEF WriteDataByte, Fdc
  <2> HIDE DEF g
  <2>2. ShortFdc(g)
    BY <2>1, KeepsShort
  <2> QED
    BY <2>2 DEF g
<1>2. ShortFdc(FormatByte(f, v))
  <2> DEFINE g == FormatByte(f, v)
             e == [R |-> f.sectorNumber, bytes |-> SizeOf[v]]
  <2>1. /\ g.sectorSize = f.sectorSize
        /\ g.formatEntries = f.formatEntries \/ g.formatEntries = Append(f.formatEntries, e)
    BY DEF FormatByte, Fdc
  <2>2. Short(Append(f.formatEntries, e))
    <3>1. f.formatEntries \in Entries /\ e \in Entry
      BY ByteAssumption DEF Fdc, Entry
    <3>2. e.bytes <= BufferBytes /\ Short(f.formatEntries)
      BY DEF LengthsFit, ShortFdc
    <3> HIDE DEF e
    <3> QED
      BY <3>1, <3>2, AppendShort
  <2> HIDE DEF g, e
  <2>3. ShortFdc(g)
    BY <2>1, <2>2 DEF ShortFdc
  <2> QED
    BY <2>3 DEF g
<1> QED
  BY <1>1, <1>2 DEF ExecutionPhaseWrite

LEMMA WriteShort ==
  ASSUME LengthsFit, NEW f \in Fdc, ShortFdc(f), NEW dk \in Medium, ShortMedium(dk), NEW v,
         IF f.phase = "IDLE" THEN v \in Commands ELSE v \in Bytes
  PROVE  ShortFdc(Write(f, dk, v)) /\ ShortMedium(MediumAfterWrite(f, dk, v))
<1>1. f.phase = "IDLE" => ShortFdc(IdlePhaseWrite(f, v))
  BY IdlePhaseWriteShort, CommandAssumption
<1>2. f.phase = "COMMAND" => ShortFdc(CommandPhaseWrite(f, dk, v))
  BY CommandPhaseWriteShort
<1>3. f.phase = "DATATRANSFER" => ShortFdc(Transferred(ExecutionPhaseWrite(f, dk, v)))
  <2> SUFFICES ASSUME f.phase = "DATATRANSFER"
               PROVE  ShortFdc(Transferred(ExecutionPhaseWrite(f, dk, v)))
    OBVIOUS
  <2> DEFINE g == ExecutionPhaseWrite(f, dk, v)
  <2>1. g \in Fdc
    BY WriteDataByteType, FormatByteType DEF ExecutionPhaseWrite
  <2>2. ShortFdc(g)
    BY ExecutionPhaseWriteShort
  <2> HIDE DEF g
  <2>3. /\ Transferred(g).sectorSize = g.sectorSize
        /\ Transferred(g).formatEntries = g.formatEntries
    BY <2>1 DEF Transferred, Fdc
  <2>4. ShortFdc(Transferred(g))
    BY <2>2, <2>3, KeepsShort
  <2> QED
    BY <2>4 DEF g
<1>4. ShortMedium([dk EXCEPT !.dirty = TRUE])
  BY DEF ShortMedium, Medium
<1> QED
  BY <1>1, <1>2, <1>3, <1>4 DEF Write, MediumAfterWrite

LEMMA OtherInputsShort ==
  ASSUME NEW f \in Fdc, ShortFdc(f)
  PROVE  /\ ShortFdc(Read(f)) /\ ShortFdc(ReadStatus(f)) /\ ShortFdc(DiskChanged(f))
         /\ \A tc, reset \in BOOLEAN : ShortFdc(ControlEdges(f, tc, reset))
<1>1. ShortFdc(Read(f))
  <2>1. Read(f).sectorSize = f.sectorSize /\ Read(f).formatEntries = f.formatEntries
    BY DEF Read, Transferred, ExecutionPhaseRead, ResultsPhaseRead, Fdc
  <2> QED
    BY <2>1, KeepsShort
<1>2. ShortFdc(ReadStatus(f))
  BY DEF ReadStatus, ShortFdc, Fdc
<1>3. ShortFdc(DiskChanged(f))
  BY DEF DiskChanged, ShortFdc, Fdc
<1>4. ShortFdc(TerminalCount(f))
  BY DEF TerminalCount, ShortFdc, Fdc
<1> QED
  BY <1>1, <1>2, <1>3, <1>4, TerminalCountType, ResetShort DEF ControlEdges

\* With short lengths every access of the next data byte falls in the buffer.
LEMMA ShortStaysInBuffer ==
  ASSUME NEW f \in Fdc, Consistent(f), ShortFdc(f), NEW dk \in Medium, ShortMedium(dk)
  PROVE  InBuffer(f, dk)
<1>1. SectorLength(f, dk) <= BufferBytes
  BY LengthsShort
<1>2. f.phase = "DATATRANSFER" => f.sectorOffset < BufferBytes
  <2>1. f.sectorOffset \in Nat /\ f.sectorSize \in Int /\ BufferBytes \in Nat \ {0}
    BY GeometryAssumption DEF Fdc
  <2> QED
    BY <2>1 DEF Consistent, ShortFdc
<1> QED
  BY <1>1, <1>2 DEF InBuffer, ShortFdc

BufferInv == ProtocolInv /\ (LengthsFit => ShortFdc(fdc) /\ ShortMedium(disk))

LEMMA InitBufferInv == Init => BufferInv
<1> SUFFICES ASSUME Init PROVE ShortFdc(fdc) /\ ShortMedium(disk)
  BY InitProtocolInv DEF BufferInv
<1>1. PICK v \in Bytes : fdc = PowerUp(StepTimeOf[v])
  BY DEF Init
<1>2. ShortFdc(fdc)
  BY <1>1, EmptyIsShort DEF PowerUp, Reset, ShortFdc
<1>3. ShortMedium(disk)
  BY EmptyIsShort DEF Init, NoMedium, ShortMedium
<1> QED
  BY <1>2, <1>3

LEMMA NextBufferInv == BufferInv /\ [Next]_vars => BufferInv'
<1> SUFFICES ASSUME ProtocolInv, LengthsFit, ShortFdc(fdc), ShortMedium(disk), [Next]_vars
             PROVE  ShortFdc(fdc') /\ ShortMedium(disk')
  BY NextProtocolInv DEF BufferInv, LengthsFit, ShortFdc, ShortMedium
<1>0. fdc \in Fdc /\ disk \in Medium /\ motor \in BOOLEAN
  BY DEF ProtocolInv, TypeOK
<1>1. ASSUME NEW v \in Input, GuestWrite(v) PROVE ShortFdc(fdc') /\ ShortMedium(disk')
  BY <1>0, <1>1, WriteShort DEF GuestWrite, Input
<1>2. CASE GuestRead \/ GuestReadStatus
  BY <1>0, <1>2, OtherInputsShort DEF GuestRead, GuestReadStatus
<1>3. ASSUME NEW on \in BOOLEAN, NEW tc \in BOOLEAN, NEW reset \in BOOLEAN,
             GuestControl(on, tc, reset)
      PROVE  ShortFdc(fdc') /\ ShortMedium(disk')
  BY <1>0, <1>3, OtherInputsShort DEF GuestControl
<1>4. CASE MachineReset
  BY <1>0, <1>4, MachineResetType, ResetShort DEF MachineReset
<1>5. ASSUME NEW m \in Media, InsertMedium(m) PROVE ShortFdc(fdc') /\ ShortMedium(disk')
  <2>1. ShortMedium(m)
    BY DEF LengthsFit, ShortMedium, Short
  <2> QED
    BY <1>0, <1>5, <2>1, OtherInputsShort DEF InsertMedium
<1>6. CASE EjectMedium
  <2>1. ShortMedium(NoMedium)
    BY EmptyIsShort DEF NoMedium, ShortMedium
  <2>2. ShortMedium([NoMedium EXCEPT !.readOnly = disk.readOnly])
    BY <2>1, NoMediumType DEF ShortMedium, Medium
  <2> QED
    BY <1>6, <2>2 DEF EjectMedium
<1>7. ASSUME NEW b \in Protection, SetWriteProtect(b) PROVE ShortFdc(fdc') /\ ShortMedium(disk')
  BY <1>0, <1>7 DEF SetWriteProtect, ShortMedium, Medium
<1>8. ASSUME NEW n \in Blocks, Clock(n) PROVE ShortFdc(fdc') /\ ShortMedium(disk')
  <2>1. n \in Nat /\ Rotating \in BOOLEAN
    BY <1>0, TimingAssumption DEF Rotating, Present, Medium
  <2> QED
    BY <1>0, <1>8, <2>1, TickShort DEF Clock
<1>9. CASE UNCHANGED vars
  BY <1>9 DEF vars
<1> QED
  BY <1>1, <1>2, <1>3, <1>4, <1>5, <1>6, <1>7, <1>8, <1>9 DEF Next

\* If neither the guest nor a medium names a length above the buffer's, no byte
\* crosses its end: not where a sector is loaded, nor in a transfer, nor where the
\* sector is committed with the medium's length after a transfer of the guest's.
THEOREM TransfersFit == Spec => []StaysInBuffer
<1>1. BufferInv => StaysInBuffer
  BY ShortStaysInBuffer DEF BufferInv, ProtocolInv, TypeOK, StaysInBuffer
<1> QED
  BY <1>1, InitBufferInv, NextBufferInv, PTL DEF Spec

-----------------------------------------------------------------------------
(* The head.                                                                 *)

\* A tick moves the head only towards the destination of a seek.
LEMMA TickMovesTowardsDestination ==
  ASSUME NEW f \in Fdc, NEW dk \in Medium, NEW n \in Nat, NEW rotating \in BOOLEAN,
         Tick(f, dk, n, rotating).currentTrack # f.currentTrack
  PROVE  /\ f.phase2 = "SEEKING"
         /\ SeekDistance([f EXCEPT !.currentTrack = Tick(f, dk, n, rotating).currentTrack])
              < SeekDistance(f)
<1> DEFINE r == Rotate(f, n, rotating)
           m == MoveToTrackTick(r, n)
           s == SectorFindTick(m, dk)
           t == FormatTick(s)
<1>1. r \in Fdc /\ m \in Fdc /\ s \in Fdc /\ t \in Fdc
  BY RotateType, MoveToTrackTickType, SectorFindTickType, FormatTickType
<1>2. /\ r.currentTrack = f.currentTrack /\ r.destinationTrack = f.destinationTrack
      /\ r.phase2 = f.phase2
  BY DEF Rotate, Fdc
<1> HIDE DEF r, m, s, t
<1>3. s.currentTrack = m.currentTrack
  BY <1>1 DEF s, SectorFindTick, EnterResult, Fdc
<1>4. t.currentTrack = s.currentTrack
  BY <1>1 DEF t, FormatTick, EnterResult, Fdc
<1>5. Settle(t).currentTrack = t.currentTrack
  BY <1>1 DEF Settle, Fdc
<1>6. Tick(f, dk, n, rotating).currentTrack = m.currentTrack
  BY <1>3, <1>4, <1>5 DEF Tick, BeforeFormatTick, t, s, m, r
<1>7. m.currentTrack # r.currentTrack
  BY <1>2, <1>6
<1>8. r.phase2 = "SEEKING"
  BY <1>7 DEF m, MoveToTrackTick
<1> DEFINE clocks == r.stepClocks + n
           steps  == clocks \div r.stepTime
           needed == IF SeekDistance(r) = 0 THEN 1 ELSE SeekDistance(r)
<1>9. r.currentTrack \in 0..LastTrack /\ r.destinationTrack \in 0..LastTrack /\ LastTrack \in Nat
  BY <1>1, GeometryAssumption DEF Fdc
<1>10. clocks \in Nat /\ steps \in Nat
  <2>1. clocks \in Nat /\ r.stepTime \in Nat \ {0}
    BY <1>1 DEF Fdc
  <2> QED
    BY <2>1
<1>11. /\ m.currentTrack \in 0..LastTrack
       /\ r.currentTrack < r.destinationTrack =>
            r.currentTrack < m.currentTrack /\ m.currentTrack <= r.destinationTrack
       /\ r.destinationTrack < r.currentTrack =>
            r.destinationTrack <= m.currentTrack /\ m.currentTrack < r.currentTrack
       /\ r.destinationTrack # r.currentTrack
  <2>1. CASE steps >= needed
    <3>1. m.currentTrack = r.destinationTrack
      BY <1>1, <1>8, <2>1 DEF m, MoveToTrackTick, EndSeek, Fdc
    <3> QED
      BY <1>7, <1>9, <3>1
  <2>2. CASE ~(steps >= needed)
    <3>1. m.currentTrack = HeadAfter(r, steps)
      BY <1>1, <1>8, <2>2 DEF m, MoveToTrackTick, Fdc
    <3>2. SeekDistance(r) \in Nat
      BY <1>9 DEF SeekDistance
    <3>3. steps < SeekDistance(r) \/ steps = 0
      BY <1>10, <2>2, <3>2
    <3>4. SeekDistance(r) # 0
      BY <1>7, <1>9, <1>10, <3>1, <3>2, <3>3 DEF HeadAfter
    <3> QED
      BY <1>1, <1>7, <1>9, <1>10, <3>1, <3>3, <3>4, HeadAfterBetween DEF SeekDistance
  <2> QED
    BY <2>1, <2>2
<1>12. SeekDistance([f EXCEPT !.currentTrack = m.currentTrack]) < SeekDistance(f)
  BY <1>2, <1>9, <1>11 DEF SeekDistance, Fdc
<1> QED
  BY <1>2, <1>6, <1>8, <1>12

\* A write moves the head only at the C byte of a FORMAT.
LEMMA WriteMovesOnlyToFormat ==
  ASSUME NEW f \in Fdc, NEW dk \in Medium, NEW v,
         Write(f, dk, v).currentTrack # f.currentTrack
  PROVE  f.phase = "DATATRANSFER" /\ f.command = "FORMAT"
<1>1. IdlePhaseWrite(f, v).currentTrack = f.currentTrack
  BY DEF IdlePhaseWrite, EnterResult, Fdc
<1>2. CommandPhaseWrite(f, dk, v).currentTrack = f.currentTrack
  BY DEF CommandPhaseWrite, SetupMoveToTrack, FindSector, ReadSector, EnterResult, Fdc
<1>3. f.command # "FORMAT" =>
        Transferred(ExecutionPhaseWrite(f, dk, v)).currentTrack = f.currentTrack
  BY DEF ExecutionPhaseWrite, WriteDataByte, Transferred, Fdc
<1> QED
  BY <1>1, <1>2, <1>3 DEF Write

LEMMA HeadStep ==
  ASSUME TypeOK, Next, fdc'.currentTrack # fdc.currentTrack
  PROVE  \/ /\ fdc.phase2 = "SEEKING"
            /\ SeekDistance([fdc EXCEPT !.currentTrack = fdc'.currentTrack]) < SeekDistance(fdc)
         \/ fdc.phase = "DATATRANSFER" /\ fdc.command = "FORMAT"
         \/ fdc'.currentTrack = InsertTrack /\ fdc'.destinationTrack = 0 /\ disk' \in Media
<1>0. fdc \in Fdc /\ disk \in Medium /\ motor \in BOOLEAN
  BY DEF TypeOK
<1>1. ASSUME NEW v \in Input, GuestWrite(v) PROVE fdc.phase = "DATATRANSFER" /\ fdc.command = "FORMAT"
  BY <1>0, <1>1, WriteMovesOnlyToFormat DEF GuestWrite
<1>2. ~GuestRead
  <2>1. Read(fdc).currentTrack = fdc.currentTrack
    BY <1>0 DEF Read, ExecutionPhaseRead, ResultsPhaseRead, Transferred, Fdc
  <2> QED
    BY <2>1 DEF GuestRead
<1>3. ~(GuestReadStatus \/ MachineReset \/ \E on, tc, reset \in BOOLEAN : GuestControl(on, tc, reset))
  <2>1. /\ ReadStatus(fdc).currentTrack = fdc.currentTrack
        /\ Reset([fdc EXCEPT !.totalBits = 0]).currentTrack = fdc.currentTrack
    BY <1>0 DEF ReadStatus, Reset, Fdc
  <2>2. \A tc, reset \in BOOLEAN : ControlEdges(fdc, tc, reset).currentTrack = fdc.currentTrack
    BY <1>0 DEF ControlEdges, TerminalCount, Reset, Fdc
  <2> QED
    BY <2>1, <2>2 DEF GuestReadStatus, MachineReset, GuestControl
<1>4. ASSUME NEW m \in Media, InsertMedium(m)
      PROVE  fdc'.currentTrack = InsertTrack /\ fdc'.destinationTrack = 0 /\ disk' \in Media
  BY <1>0, <1>4 DEF InsertMedium, DiskChanged, Fdc
<1>5. ~(EjectMedium \/ \E b \in Protection : SetWriteProtect(b))
  BY DEF EjectMedium, SetWriteProtect
<1>6. ASSUME NEW n \in Blocks, Clock(n)
      PROVE  /\ fdc.phase2 = "SEEKING"
             /\ SeekDistance([fdc EXCEPT !.currentTrack = fdc'.currentTrack]) < SeekDistance(fdc)
  <2>1. Rotating \in BOOLEAN
    BY <1>0 DEF Rotating, Present, Medium
  <2> QED
    BY <1>0, <1>6, <2>1, TickMovesTowardsDestination, TimingAssumption DEF Clock
<1> QED
  BY <1>1, <1>2, <1>3, <1>4, <1>5, <1>6 DEF Next

\* Only a seek, FORMAT and a media change move the head, and a seek moves it
\* towards its destination.
THEOREM HeadMovesOnlyBySeeking == Spec => HeadNeverTeleports
<1>1. TypeOK /\ [Next]_vars =>
        [ fdc'.currentTrack # fdc.currentTrack =>
            \/ /\ fdc.phase2 = "SEEKING"
               /\ SeekDistance([fdc EXCEPT !.currentTrack = fdc'.currentTrack]) < SeekDistance(fdc)
            \/ fdc.phase = "DATATRANSFER" /\ fdc.command = "FORMAT"
            \/ fdc'.currentTrack = InsertTrack /\ fdc'.destinationTrack = 0 /\ disk' \in Media ]_vars
  BY HeadStep
<1> QED
  BY <1>1, TypeCorrect, PTL DEF Spec, HeadNeverTeleports

-----------------------------------------------------------------------------
(* Write protection, for a guest that does not format.                       *)

NeverFormats == fdc.command # "FORMAT" /\ ~fdc.pendingFormat

LEMMA NeverFormatsPreserved ==
  ASSUME "FORMAT" \notin Commands, TypeOK, NeverFormats, [Next]_vars
  PROVE  NeverFormats'
<1>0. fdc \in Fdc /\ fdc.command # "FORMAT" /\ ~fdc.pendingFormat
  BY DEF TypeOK, NeverFormats
<1>1. ASSUME NEW v \in Input, GuestWrite(v) PROVE NeverFormats'
  <2>1. CASE fdc.phase = "IDLE"
    <3>1. v # "FORMAT"
      BY <1>1, <2>1 DEF Input
    <3>2. fdc' = IdlePhaseWrite(fdc, v)
      BY <1>0, <1>1, <2>1 DEF GuestWrite, Write
    <3> QED
      BY <1>0, <3>1, <3>2 DEF IdlePhaseWrite, EnterResult, NeverFormats, Fdc
  <2>2. CASE fdc.phase = "COMMAND"
    <3>1. fdc' = CommandPhaseWrite(fdc, disk, v)
      BY <1>0, <1>1, <2>2 DEF GuestWrite, Write
    <3> QED
      BY <1>0, <3>1 DEF CommandPhaseWrite, SetupMoveToTrack, FindSector, ReadSector, EnterResult,
                        NeverFormats, Fdc
  <2>3. CASE fdc.phase = "DATATRANSFER"
    <3>1. fdc' = Transferred(ExecutionPhaseWrite(fdc, disk, v))
      BY <1>0, <1>1, <2>3 DEF GuestWrite, Write
    <3> QED
      BY <1>0, <3>1 DEF ExecutionPhaseWrite, WriteDataByte, Transferred, NeverFormats, Fdc
  <2>4. CASE fdc.phase = "RESULT"
    BY <1>0, <1>1, <2>4 DEF GuestWrite, Write, NeverFormats
  <2> QED
    BY <1>0, <2>1, <2>2, <2>3, <2>4 DEF Fdc
<1>2. CASE GuestRead
  BY <1>0, <1>2 DEF GuestRead, Read, ExecutionPhaseRead, ResultsPhaseRead, Transferred,
                    NeverFormats, Fdc
<1>3. CASE GuestReadStatus
  <2>1. /\ ReadStatus(fdc).command = fdc.command
        /\ ReadStatus(fdc).pendingFormat = fdc.pendingFormat
    BY <1>0 DEF ReadStatus, Fdc
  <2> QED
    BY <1>0, <1>3, <2>1 DEF GuestReadStatus, NeverFormats
<1>4. ASSUME NEW on \in BOOLEAN, NEW tc \in BOOLEAN, NEW reset \in BOOLEAN,
             GuestControl(on, tc, reset)
      PROVE  NeverFormats'
  <2>1. /\ TerminalCount(fdc).command = fdc.command
        /\ TerminalCount(fdc).pendingFormat = fdc.pendingFormat
    BY <1>0 DEF TerminalCount, Fdc
  <2>2. \A f : Reset(f).command = "UNKNOWN" /\ Reset(f).pendingFormat = FALSE
    BY DEF Reset
  <2> QED
    BY <1>0, <1>4, <2>1, <2>2 DEF GuestControl, ControlEdges, NeverFormats
<1>8. CASE MachineReset
  BY <1>8 DEF MachineReset, Reset, NeverFormats
<1>5. ASSUME NEW m \in Media, InsertMedium(m) PROVE NeverFormats'
  BY <1>0, <1>5 DEF InsertMedium, DiskChanged, NeverFormats, Fdc
<1>6. ASSUME NEW n \in Blocks, Clock(n) PROVE NeverFormats'
  <2> DEFINE r == Rotate(fdc, n, Rotating)
             m == MoveToTrackTick(r, n)
             s == SectorFindTick(m, disk)
             t == FormatTick(s)
  <2>1. disk \in Medium /\ Rotating \in BOOLEAN /\ n \in Nat
    BY TimingAssumption DEF TypeOK, Rotating, Present, Medium
  <2>2. r \in Fdc /\ m \in Fdc /\ s \in Fdc /\ t \in Fdc
    BY <1>0, <2>1, RotateType, MoveToTrackTickType, SectorFindTickType, FormatTickType
  <2>3. r.command = fdc.command /\ r.pendingFormat = fdc.pendingFormat
    BY <1>0 DEF Rotate, Fdc
  <2> HIDE DEF r, m, s, t
  <2>4. m.command = r.command /\ m.pendingFormat = r.pendingFormat
    BY <2>2 DEF m, MoveToTrackTick, EndSeek, Fdc
  <2>5. s.command = m.command /\ s.pendingFormat = m.pendingFormat
    <3>1. s.command = m.command
      BY <2>2 DEF s, SectorFindTick, EnterResult, Fdc
    <3>2. s.pendingFormat = m.pendingFormat
      BY <2>2 DEF s, SectorFindTick, EnterResult, Fdc
    <3> QED
      BY <3>1, <3>2
  <2>6. t = s
    BY <1>0, <2>3, <2>4, <2>5 DEF t, FormatTick, FormatDue
  <2>7. Settle(t).command = t.command /\ Settle(t).pendingFormat = t.pendingFormat
    BY <2>2 DEF Settle, Fdc
  <2>8. fdc' = Settle(t)
    BY <1>6 DEF Clock, Tick, BeforeFormatTick, t, s, m, r
  <2> QED
    BY <1>0, <2>3, <2>4, <2>5, <2>6, <2>7, <2>8 DEF NeverFormats
<1>7. CASE EjectMedium \/ (\E b \in Protection : SetWriteProtect(b)) \/ UNCHANGED vars
  BY <1>0, <1>7 DEF EjectMedium, SetWriteProtect, vars, NeverFormats
<1> QED
  BY <1>1, <1>2, <1>3, <1>4, <1>5, <1>6, <1>7, <1>8 DEF Next

LEMMA ProtectedStaysClean ==
  ASSUME TypeOK, NeverFormats, [Next]_vars, disk.present, disk.readOnly, ~disk.dirty
  PROVE  ~disk'.dirty
<1>0. fdc \in Fdc /\ disk \in Medium /\ fdc.command # "FORMAT" /\ ~fdc.pendingFormat
  BY DEF TypeOK, NeverFormats
<1>1. ASSUME NEW v \in Input, GuestWrite(v) PROVE ~disk'.dirty
  <2>1. ~Writable(fdc, disk)
    BY DEF Writable
  <2>2. MediumAfterWrite(fdc, disk, v) = disk
    BY <1>0, <2>1 DEF MediumAfterWrite
  <2> QED
    BY <1>1, <2>2 DEF GuestWrite
<1>2. ASSUME NEW m \in Media, InsertMedium(m) PROVE ~disk'.dirty
  BY <1>2, MediaAssumption DEF InsertMedium
<1>3. CASE EjectMedium
  BY <1>3 DEF EjectMedium, NoMedium
<1>4. ASSUME NEW b \in Protection, SetWriteProtect(b) PROVE ~disk'.dirty
  BY <1>0, <1>4 DEF SetWriteProtect, Medium
<1>5. ASSUME NEW n \in Blocks, Clock(n) PROVE ~disk'.dirty
  <2> DEFINE r == Rotate(fdc, n, Rotating)
             m == MoveToTrackTick(r, n)
             s == SectorFindTick(m, disk)
  <2>1. Rotating \in BOOLEAN /\ n \in Nat
    BY TimingAssumption DEF TypeOK, Rotating, Present, Medium
  <2>2. r \in Fdc /\ m \in Fdc
    BY <1>0, <2>1, RotateType, MoveToTrackTickType
  <2>3. r.pendingFormat = fdc.pendingFormat
    BY <1>0 DEF Rotate, Fdc
  <2> HIDE DEF r, m, s
  <2>4. m.pendingFormat = r.pendingFormat
    BY <2>2 DEF m, MoveToTrackTick, EndSeek, Fdc
  <2>5. s.pendingFormat = m.pendingFormat
    BY <2>2 DEF s, SectorFindTick, EnterResult, Fdc
  <2>6. ~FormatDue(s)
    BY <1>0, <2>3, <2>4, <2>5 DEF FormatDue
  <2>7. MediumAfterTick(fdc, disk, n, Rotating) = disk
    BY <2>6 DEF MediumAfterTick, BeforeFormatTick, s, m, r
  <2> QED
    BY <1>5, <2>7 DEF Clock
<1>6. CASE \/ GuestRead \/ GuestReadStatus \/ MachineReset \/ UNCHANGED vars
           \/ \E on, tc, reset \in BOOLEAN : GuestControl(on, tc, reset)
  BY <1>6 DEF GuestRead, GuestReadStatus, GuestControl, MachineReset, vars
<1> QED
  BY <1>1, <1>2, <1>3, <1>4, <1>5, <1>6 DEF Next

\* As long as the guest never issues FORMAT, a write-protected medium is never
\* written (with FORMAT it is: see the observations in the README).
THEOREM ProtectionHoldsWithoutFormat ==
  ASSUME "FORMAT" \notin Commands
  PROVE  Spec => WriteProtectHonoured
<1>1. Init => NeverFormats
  BY DEF Init, PowerUp, Reset, NeverFormats
<1>2. TypeOK /\ NeverFormats /\ [Next]_vars => NeverFormats'
  BY NeverFormatsPreserved
<1>3. TypeOK /\ NeverFormats /\ [Next]_vars =>
        [disk.present /\ disk.readOnly /\ ~disk.dirty => ~disk'.dirty]_vars
  BY ProtectedStaysClean
<1> QED
  BY <1>1, <1>2, <1>3, TypeCorrect, PTL DEF Spec, WriteProtectHonoured

-----------------------------------------------------------------------------
(* A guest that keeps to the handshake.  The invariant ties the bits of the  *)
(* status register to the phase: it is what lets the handshake exclude the   *)
(* bytes that would overtake a seek, a search or a format revolution.        *)

\* Work in the background belongs to one command and keeps the chip busy.
Exclusive(f) ==
  /\ f.phase2 = "SEEKING" =>
       "CB" \in f.mainStatus /\ f.phase = "IDLE" /\ f.command \in {"SEEK", "RECALIBRATE"}
  /\ f.pendingFind => "CB" \in f.mainStatus /\ f.phase = "IDLE" /\ f.command = "READ_ID"
  /\ f.pendingFormat => "CB" \in f.mainStatus /\ f.phase = "IDLE" /\ f.command = "FORMAT"

\* What the status register says of the phase.
Shown(f) ==
  /\ f.phase \in {"IDLE", "COMMAND"} => "DIO" \notin f.mainStatus
  /\ f.phase \in {"COMMAND", "DATATRANSFER"} => "CB" \in f.mainStatus
  /\ f.phase = "DATATRANSFER" =>
       /\ f.command \in {"READ_DATA", "WRITE_DATA", "FORMAT"}
       /\ "DIO" \in f.mainStatus <=> f.command = "READ_DATA"
  /\ f.phase = "RESULT" => "DIO" \in f.mainStatus /\ f.phaseStep < ResultLength(f.command)

Orderly(f) == Exclusive(f) /\ Shown(f)

\* A search holds a sector of the track it is on, and so does its result.
Located(f, dk) ==
  /\ f.pendingFind => f.findSectorIdx = 0 \/ f.findSectorIdx \in DOMAIN SectorsUnder(f, dk)
  /\ f.phase = "RESULT" /\ f.command = "READ_ID" /\ "MA" \notin f.status1 => HasSector(f, dk)

\* Where neither a search nor its result is, Located says nothing.
LEMMA Elsewhere ==
  ASSUME NEW f, NEW dk, ~f.pendingFind, f.phase # "RESULT" \/ f.command # "READ_ID"
  PROVE  Located(f, dk)
BY DEF Located

-----------------------------------------------------------------------------
(* Bytes from the guest.                                                     *)

\* A command given to a chip that shows idle.
LEMMA StartOrderly ==
  ASSUME NEW f \in Fdc, Orderly(f), f.phase = "IDLE", "CB" \notin f.mainStatus,
         NEW dk, NEW c \in CommandNames
  PROVE  Orderly(IdlePhaseWrite(f, c)) /\ Located(IdlePhaseWrite(f, c), dk)
<1> DEFINE h == IdlePhaseWrite(f, c)
<1>1. /\ f.phase2 # "SEEKING" /\ ~f.pendingFind /\ ~f.pendingFormat /\ "DIO" \notin f.mainStatus
  BY DEF Orderly, Exclusive, Shown
<1>2. h.phase2 = f.phase2 /\ h.pendingFind = f.pendingFind /\ h.pendingFormat = f.pendingFormat
      /\ h.command = c
  BY DEF IdlePhaseWrite, EnterResult, Fdc, CommandNames
<1>3. \/ h.phase = "COMMAND" /\ "CB" \in h.mainStatus /\ "DIO" \notin h.mainStatus
      \/ h.phase = "IDLE" /\ "DIO" \notin h.mainStatus
      \/ c = "SENSE_INT" /\ h.phase = "RESULT" /\ h.phaseStep = 0 /\ "DIO" \in h.mainStatus
  BY <1>1 DEF IdlePhaseWrite, EnterResult, Fdc, CommandNames
<1> HIDE DEF h
<1>4. Orderly(h)
  BY <1>1, <1>2, <1>3 DEF Orderly, Exclusive, Shown, ResultLength
<1>5. Located(h, dk)
  BY <1>1, <1>2, <1>3, Elsewhere
<1> QED
  BY <1>4, <1>5 DEF h

\* The search that READ_ID starts.
LEMMA FindSectorOrderly ==
  ASSUME NEW f \in Fdc, NEW dk \in Medium, f.phase = "IDLE", f.command = "READ_ID",
         "CB" \in f.mainStatus, "DIO" \notin f.mainStatus,
         f.phase2 # "SEEKING", ~f.pendingFormat
  PROVE  Orderly(FindSector(f, dk)) /\ Located(FindSector(f, dk), dk)
<1> DEFINE s   == SectorsUnder(f, dk)
           now == Kept(f.totalBits)
           pos == now % Rev
<1>1. pos \in Nat
  <2>1. now \in Nat
    BY KeptType DEF Fdc
  <2> HIDE DEF now
  <2> QED
    BY <2>1, GeometryAssumption
<1>2. s # << >> => NextSector(s, pos) \in DOMAIN s
  BY <1>1, SectorsUnderType, NextSectorType
<1>3. PICK w, i : /\ i = IF s = << >> THEN 0 ELSE NextSector(s, pos)
                  /\ w = now + (IF s = << >> THEN 2 * Rev
                                ELSE ForwardDistance(pos, NextSector(s, pos)) + IdamToDam)
  OBVIOUS
<1>4. PICK p : p = now
  OBVIOUS
<1>5. FindSector(f, dk) = [f EXCEPT !.pendingFind = TRUE, !.totalBits = p,
                                    !.findCompleteBit = w, !.findSectorIdx = i]
  BY <1>3, <1>4 DEF FindSector
<1> DEFINE h == [f EXCEPT !.pendingFind = TRUE, !.totalBits = p,
                          !.findCompleteBit = w, !.findSectorIdx = i]
<1>6. Orderly(h)
  BY DEF Orderly, Exclusive, Shown, Fdc
<1>7. h.phase = "IDLE" /\ h.findSectorIdx = i /\ SectorsUnder(h, dk) = s
  BY DEF SectorsUnder, Fdc
<1> HIDE DEF h, s
<1>8. Located(h, dk)
  BY <1>2, <1>3, <1>7 DEF Located
<1> QED
  BY <1>5, <1>6, <1>8 DEF h

\* A parameter byte of a command.
LEMMA ParameterOrderly ==
  ASSUME NEW f \in Fdc, Orderly(f), f.phase = "COMMAND", NEW dk \in Medium, NEW v \in Bytes
  PROVE  Orderly(CommandPhaseWrite(f, dk, v)) /\ Located(CommandPhaseWrite(f, dk, v), dk)
<1> DEFINE h == CommandPhaseWrite(f, dk, v)
<1>1. /\ f.phase2 # "SEEKING" /\ ~f.pendingFind /\ ~f.pendingFormat
      /\ "DIO" \notin f.mainStatus /\ "CB" \in f.mainStatus
  BY DEF Orderly, Exclusive, Shown
<1>2. CASE f.command = "READ_ID" /\ f.phaseStep = 1
  <2> DEFINE sought == [[f EXCEPT !.phaseStep = @ + 1] EXCEPT !.phase = "IDLE", !.phaseStep = 0,
                                                             !.drive = v % 4]
  <2>1. v % 4 \in 0..3
    BY ByteAssumption, GeometryAssumption
  <2>2. sought \in Fdc
    BY <2>1 DEF Fdc
  <2>3. /\ sought.phase = "IDLE" /\ sought.command = "READ_ID"
        /\ sought.mainStatus = f.mainStatus /\ sought.phase2 = f.phase2
        /\ sought.pendingFormat = f.pendingFormat
    BY <1>2 DEF Fdc
  <2>4. h = FindSector(sought, dk)
    BY <1>2 DEF CommandPhaseWrite
  <2> HIDE DEF h, sought
  <2> QED
    BY <1>1, <2>2, <2>3, <2>4, FindSectorOrderly DEF h
<1>3. CASE f.command \in {"SEEK", "RECALIBRATE"}
  <2>1. /\ h.command = f.command /\ h.mainStatus = f.mainStatus /\ ~h.pendingFind
        /\ ~h.pendingFormat
    BY <1>1, <1>3 DEF CommandPhaseWrite, SetupMoveToTrack, Fdc
  <2>2. \/ h.phase = "COMMAND" /\ h.phase2 = f.phase2
        \/ h.phase = "IDLE"
    <3>1. CASE f.command = "SEEK"
      BY <3>1 DEF CommandPhaseWrite, SetupMoveToTrack, Fdc
    <3>2. CASE f.command = "RECALIBRATE"
      BY <3>2 DEF CommandPhaseWrite, SetupMoveToTrack, Fdc
    <3> QED
      BY <1>3, <3>1, <3>2
  <2> HIDE DEF h
  <2>3. Orderly(h) /\ Located(h, dk)
    BY <1>1, <1>3, <2>1, <2>2 DEF Orderly, Exclusive, Shown, Located
  <2> QED
    BY <2>3 DEF h
<1>4. CASE f.command \notin {"SEEK", "RECALIBRATE"} /\ ~(f.command = "READ_ID" /\ f.phaseStep = 1)
  <2>1. /\ h.command = f.command /\ h.phase2 = f.phase2
        /\ h.pendingFind = f.pendingFind /\ h.pendingFormat = f.pendingFormat
    BY <1>4 DEF CommandPhaseWrite, ReadSector, EnterResult, Fdc
  <2>2. \/ h.phase = "COMMAND" /\ h.mainStatus = f.mainStatus
        \/ /\ h.phase = "DATATRANSFER" /\ h.command = "READ_DATA"
           /\ "CB" \in h.mainStatus /\ "DIO" \in h.mainStatus
        \/ /\ h.phase = "DATATRANSFER" /\ h.command \in {"WRITE_DATA", "FORMAT"}
           /\ "CB" \in h.mainStatus /\ "DIO" \notin h.mainStatus
        \/ h.phase = "IDLE" /\ "DIO" \notin h.mainStatus
        \/ /\ h.phase = "RESULT" /\ h.command = "SENSE_DEVICE" /\ h.phaseStep = 0
           /\ "DIO" \in h.mainStatus
    <3>1. CASE f.command = "READ_DATA"
      BY <1>1, <3>1 DEF CommandPhaseWrite, ReadSector, Fdc
    <3>2. CASE f.command = "WRITE_DATA"
      BY <1>1, <3>2 DEF CommandPhaseWrite, Fdc
    <3>3. CASE f.command = "FORMAT"
      BY <1>1, <3>3 DEF CommandPhaseWrite, Fdc
    <3>4. CASE f.command = "SPECIFY"
      BY <1>1, <3>4 DEF CommandPhaseWrite, Fdc
    <3>5. CASE f.command = "SENSE_DEVICE"
      BY <1>1, <3>5 DEF CommandPhaseWrite, EnterResult, Fdc
    <3>6. CASE f.command \in {"READ_ID", "SENSE_INT", "UNKNOWN"}
      BY <1>1, <1>4, <3>6 DEF CommandPhaseWrite, Fdc
    <3> QED
      BY <1>4, <3>1, <3>2, <3>3, <3>4, <3>5, <3>6 DEF Fdc, CommandNames
  <2> HIDE DEF h
  <2>3. Orderly(h)
    BY <1>1, <2>1, <2>2 DEF Orderly, Exclusive, Shown, ResultLength
  <2>4. Located(h, dk)
    BY <1>1, <2>1, <2>2, Elsewhere
  <2> QED
    BY <2>3, <2>4 DEF h
<1> QED
  BY <1>2, <1>3, <1>4

\* A data byte of WRITE_DATA or FORMAT.
LEMMA DataByteOrderly ==
  ASSUME NEW f \in Fdc, Orderly(f), f.phase = "DATATRANSFER", "DIO" \notin f.mainStatus,
         NEW dk \in Medium, NEW dkAfter, NEW v \in Bytes
  PROVE  LET h == Transferred(ExecutionPhaseWrite(f, dk, v)) IN Orderly(h) /\ Located(h, dkAfter)
<1>1. /\ f.phase2 # "SEEKING" /\ ~f.pendingFind /\ ~f.pendingFormat /\ "CB" \in f.mainStatus
      /\ f.command \in {"WRITE_DATA", "FORMAT"}
  BY DEF Orderly, Exclusive, Shown
<1>2. PICK g : g = ExecutionPhaseWrite(f, dk, v)
  OBVIOUS
<1>3. g \in Fdc
  BY <1>2, WriteDataByteType, FormatByteType DEF ExecutionPhaseWrite
<1>4. /\ g.command = f.command /\ g.phase2 = f.phase2 /\ g.pendingFind = f.pendingFind
      /\ "CB" \in g.mainStatus
      /\ \/ /\ g.phase = "DATATRANSFER" /\ "DIO" \notin g.mainStatus /\ ~g.pendingFormat
         \/ /\ g.phase = "RESULT" /\ g.phaseStep = 0 /\ "DIO" \in g.mainStatus
            /\ ~g.pendingFormat
         \/ g.command = "FORMAT" /\ g.phase = "IDLE" /\ "DIO" \notin g.mainStatus
  <2>1. CASE f.command = "WRITE_DATA"
    BY <1>1, <1>2, <2>1 DEF ExecutionPhaseWrite, WriteDataByte, Fdc
  <2>2. CASE f.command = "FORMAT"
    BY <1>1, <1>2, <2>2 DEF ExecutionPhaseWrite, FormatByte, Fdc
  <2> QED
    BY <1>1, <2>1, <2>2
<1> DEFINE h == Transferred(g)
<1>5. /\ h.command = g.command /\ h.phase2 = g.phase2 /\ h.phase = g.phase
      /\ h.phaseStep = g.phaseStep /\ h.pendingFind = g.pendingFind
      /\ h.pendingFormat = g.pendingFormat /\ h.mainStatus = g.mainStatus \ {"RQM"}
  BY <1>3 DEF Transferred, Fdc
<1> HIDE DEF h
<1>6. Orderly(h)
  BY <1>1, <1>4, <1>5 DEF Orderly, Exclusive, Shown, ResultLength
<1>7. Located(h, dkAfter)
  BY <1>1, <1>4, <1>5, Elsewhere
<1> QED
  BY <1>2, <1>6, <1>7 DEF h

-----------------------------------------------------------------------------
(* Bytes to the guest, and terminal count.                                   *)

LEMMA FetchOrderly ==
  ASSUME NEW f \in Fdc, Orderly(f), "DIO" \in f.mainStatus, NEW dk \in Medium, Located(f, dk)
  PROVE  Orderly(Read(f)) /\ Located(Read(f), dk)
<1> DEFINE g == [f EXCEPT !.interrupt = FALSE]
<1>1. /\ f.phase2 # "SEEKING" /\ ~f.pendingFind /\ ~f.pendingFormat
      /\ f.phase \in {"DATATRANSFER", "RESULT"}
  BY DEF Orderly, Exclusive, Shown, Fdc
<1>2. g \in Fdc /\ \A field \in DOMAIN f \ {"interrupt"} : g[field] = f[field]
  BY DEF Fdc
<1>3. CASE f.phase = "DATATRANSFER"
  <2>1. "CB" \in f.mainStatus /\ f.command = "READ_DATA"
    BY <1>3 DEF Orderly, Shown
  <2>2. PICK e \in Fdc : e = ExecutionPhaseRead(g)
    BY <1>2, ExecutionPhaseReadType
  <2>3. /\ e.mainStatus = f.mainStatus /\ e.command = f.command /\ e.phase2 = f.phase2
        /\ e.pendingFind = f.pendingFind /\ e.pendingFormat = f.pendingFormat
        /\ e.phase = "DATATRANSFER" \/ (e.phase = "RESULT" /\ e.phaseStep = 0)
    BY <1>3, <2>2 DEF ExecutionPhaseRead, Fdc
  <2>4. PICK h : h = Transferred(e)
    OBVIOUS
  <2>5. /\ h.command = e.command /\ h.phase2 = e.phase2 /\ h.phase = e.phase
        /\ h.phaseStep = e.phaseStep /\ h.pendingFind = e.pendingFind
        /\ h.pendingFormat = e.pendingFormat /\ h.mainStatus = e.mainStatus \ {"RQM"}
    BY <2>4 DEF Transferred, Fdc
  <2>6. Orderly(h) /\ Located(h, dk)
    BY <1>1, <2>1, <2>3, <2>5 DEF Orderly, Exclusive, Shown, Located, ResultLength
  <2> QED
    BY <1>3, <2>2, <2>4, <2>6 DEF Read
<1>4. CASE f.phase = "RESULT"
  <2>1. f.phaseStep < ResultLength(f.command)
    BY <1>4 DEF Orderly, Shown
  <2>2. PICK length \in Nat : length = ResultLength(f.command)
    BY DEF ResultLength
  <2>3. PICK h : h = ResultsPhaseRead(g)
    OBVIOUS
  <2>4. /\ h.command = f.command /\ h.phase2 = f.phase2 /\ h.pendingFind = f.pendingFind
        /\ h.pendingFormat = f.pendingFormat /\ h.status1 = f.status1
        /\ h.sectorNumber = f.sectorNumber /\ h.drive = f.drive /\ h.currentTrack = f.currentTrack
        /\ \/ h.phase = "IDLE" /\ "DIO" \notin h.mainStatus
           \/ h.phase = "RESULT" /\ h.mainStatus = f.mainStatus /\ h.phaseStep < length
    <3>1. g.command = f.command /\ g.phaseStep = f.phaseStep /\ f.phaseStep \in Nat
      BY DEF Fdc
    <3>2. \/ h = [[g EXCEPT !.phaseStep = @ + 1] EXCEPT !.phase = "IDLE",
                                                      !.mainStatus = @ \ {"CB", "DIO"}]
          \/ h = [g EXCEPT !.phaseStep = @ + 1] /\ f.phaseStep + 1 < length
      <4>1. [g EXCEPT !.phaseStep = @ + 1].phaseStep = f.phaseStep + 1
        BY <3>1 DEF Fdc
      <4>2. ~(f.phaseStep >= length)
        BY <2>1, <2>2, <3>1
      <4>3. f.phaseStep + 1 # length => f.phaseStep + 1 < length
        BY <3>1, <4>2
      <4> HIDE DEF g
      <4> QED
        BY <2>2, <2>3, <3>1, <4>1, <4>2, <4>3 DEF ResultsPhaseRead
    <3>3. CASE h = [[g EXCEPT !.phaseStep = @ + 1] EXCEPT !.phase = "IDLE",
                                                        !.mainStatus = @ \ {"CB", "DIO"}]
      BY <3>3 DEF Fdc
    <3>4. CASE h = [g EXCEPT !.phaseStep = @ + 1] /\ f.phaseStep + 1 < length
      BY <1>4, <3>4 DEF Fdc
    <3> QED
      BY <3>2, <3>3, <3>4
  <2>5. Orderly(h)
    BY <1>1, <1>4, <2>2, <2>4 DEF Orderly, Exclusive, Shown
  <2>6. Located(h, dk)
    <3>1. HasSector(h, dk) <=> HasSector(f, dk)
      BY <2>4 DEF HasSector, SectorsUnder
    <3> QED
      BY <1>1, <1>4, <2>4, <3>1 DEF Located
  <2> QED
    BY <1>4, <2>3, <2>5, <2>6 DEF Read
<1> QED
  BY <1>1, <1>3, <1>4

LEMMA PollOrderly ==
  ASSUME NEW f \in Fdc, Orderly(f), NEW dk, Located(f, dk)
  PROVE  Orderly(ReadStatus(f)) /\ Located(ReadStatus(f), dk)
BY DEF ReadStatus, Orderly, Exclusive, Shown, Located, HasSector, SectorsUnder, Fdc

LEMMA EndReadOrderly ==
  ASSUME NEW f \in Fdc, Orderly(f), f.phase = "DATATRANSFER", f.command = "READ_DATA", NEW dk
  PROVE  LET h == ControlEdges(f, TRUE, FALSE) IN Orderly(h) /\ Located(h, dk)
BY DEF ControlEdges, TerminalCount, Orderly, Exclusive, Shown, Located, ResultLength, Fdc

\* A disc put in while the chip shows idle.
LEMMA ChangeOrderly ==
  ASSUME NEW f \in Fdc, Orderly(f), "DIO" \notin f.mainStatus, "CB" \notin f.mainStatus, NEW dk
  PROVE  Orderly(DiskChanged(f)) /\ Located(DiskChanged(f), dk)
BY DEF DiskChanged, Orderly, Exclusive, Shown, Located, Fdc

-----------------------------------------------------------------------------
(* Time.                                                                     *)

LEMMA SeekTickOrderly ==
  ASSUME NEW f \in Fdc, Orderly(f), NEW dk, Located(f, dk), NEW n \in Nat
  PROVE  Orderly(MoveToTrackTick(f, n)) /\ Located(MoveToTrackTick(f, n), dk)
<1>1. CASE f.phase2 # "SEEKING"
  BY <1>1 DEF MoveToTrackTick
<1>2. CASE f.phase2 = "SEEKING"
  <2>1. /\ f.phase = "IDLE" /\ f.command \in {"SEEK", "RECALIBRATE"} /\ ~f.pendingFind
        /\ ~f.pendingFormat /\ "DIO" \notin f.mainStatus /\ "CB" \in f.mainStatus
    BY <1>2 DEF Orderly, Exclusive, Shown
  <2>2. PICK h : h = MoveToTrackTick(f, n)
    OBVIOUS
  <2>3. /\ h.phase = f.phase /\ h.command = f.command /\ h.pendingFind = f.pendingFind
        /\ h.pendingFormat = f.pendingFormat
        /\ \/ h.phase2 = "SEEKING" /\ h.mainStatus = f.mainStatus
           \/ h.phase2 = "IDLE" /\ h.mainStatus = f.mainStatus \ {"CB"}
    BY <1>2, <2>2 DEF MoveToTrackTick, EndSeek, Fdc
  <2>4. Orderly(h) /\ Located(h, dk)
    BY <2>1, <2>3 DEF Orderly, Exclusive, Shown, Located
  <2> QED
    BY <2>2, <2>4
<1> QED
  BY <1>1, <1>2

\* A search that ends with no missing address mark has met a sector of the track.
LEMMA SearchTickOrderly ==
  ASSUME NEW f \in Fdc, Orderly(f), NEW dk \in Medium, Located(f, dk)
  PROVE  Orderly(SectorFindTick(f, dk)) /\ Located(SectorFindTick(f, dk), dk)
<1>1. CASE ~FindDue(f)
  BY <1>1 DEF SectorFindTick
<1>2. CASE FindDue(f)
  <2> DEFINE s    == SectorsUnder(f, dk)
             done == EnterResult([f EXCEPT !.pendingFind = FALSE, !.findCompleteBit = 0,
                                           !.findSectorIdx = 0])
             h    == SectorFindTick(f, dk)
  <2>1. /\ f.pendingFind /\ "CB" \in f.mainStatus /\ f.phase = "IDLE" /\ f.command = "READ_ID"
        /\ ~f.pendingFormat /\ f.phase2 # "SEEKING"
    BY <1>2 DEF FindDue, Orderly, Exclusive
  <2>2. PICK d \in Fdc : d = done
    <3>1. [f EXCEPT !.pendingFind = FALSE, !.findCompleteBit = 0, !.findSectorIdx = 0] \in Fdc
      BY DEF Fdc
    <3> QED
      BY <3>1, EnterResultType
  <2>3. /\ d.phase = "RESULT" /\ d.phaseStep = 0 /\ "DIO" \in d.mainStatus /\ ~d.pendingFind
        /\ d.command = f.command /\ d.pendingFormat = f.pendingFormat /\ d.phase2 = f.phase2
        /\ d.drive = f.drive /\ d.currentTrack = f.currentTrack
    BY <2>2 DEF EnterResult, Fdc
  <2> HIDE DEF done
  <2>4. \/ h = [d EXCEPT !.status0 = @ \cup {"IC0"}, !.status1 = @ \cup {"MA"}]
        \/ /\ f.findSectorIdx \in DOMAIN s
           /\ h = [d EXCEPT !.sectorNumber = s[f.findSectorIdx].R]
    <3>1. CASE f.findSectorIdx = 0 \/ s = << >>
      BY <1>2, <2>2, <3>1 DEF SectorFindTick, done
    <3>2. CASE ~(f.findSectorIdx = 0 \/ s = << >>)
      <4>1. f.findSectorIdx \in DOMAIN s
        BY <2>1, <3>2 DEF Located
      <4>2. PICK x : x = IF f.findSectorIdx \in DOMAIN s THEN s[f.findSectorIdx].R ELSE 0
        OBVIOUS
      <4>3. h = [d EXCEPT !.sectorNumber = x]
        BY <1>2, <2>2, <3>2, <4>2 DEF SectorFindTick, done
      <4> QED
        BY <4>1, <4>2, <4>3
    <3> QED
      BY <3>1, <3>2
  <2> HIDE DEF h, s
  <2>5. /\ h.phase = d.phase /\ h.phaseStep = d.phaseStep /\ h.mainStatus = d.mainStatus
        /\ h.pendingFind = d.pendingFind /\ h.command = d.command
        /\ h.pendingFormat = d.pendingFormat /\ h.phase2 = d.phase2
        /\ h.drive = d.drive /\ h.currentTrack = d.currentTrack
    <3>1. PICK a, b, c : \/ h = [d EXCEPT !.status0 = a, !.status1 = b]
                         \/ h = [d EXCEPT !.sectorNumber = c]
      BY <2>4
    <3>2. CASE h = [d EXCEPT !.status0 = a, !.status1 = b]
      BY <3>2 DEF Fdc
    <3>3. CASE h = [d EXCEPT !.sectorNumber = c]
      BY <3>3 DEF Fdc
    <3> QED
      BY <3>1, <3>2, <3>3
  <2>6. Orderly(h)
    BY <2>1, <2>3, <2>5 DEF Orderly, Exclusive, Shown, ResultLength
  <2>7. "MA" \notin h.status1 => HasSector(h, dk)
    <3>1. CASE h = [d EXCEPT !.status0 = @ \cup {"IC0"}, !.status1 = @ \cup {"MA"}]
      BY <3>1 DEF Fdc
    <3>2. CASE /\ f.findSectorIdx \in DOMAIN s
               /\ h = [d EXCEPT !.sectorNumber = s[f.findSectorIdx].R]
      <4>1. h.sectorNumber = s[f.findSectorIdx].R
        BY <3>2 DEF Fdc
      <4>2. SectorsUnder(h, dk) = s
        BY <2>3, <2>5 DEF s, SectorsUnder
      <4> QED
        BY <3>2, <4>1, <4>2 DEF HasSector
    <3> QED
      BY <2>4, <3>1, <3>2
  <2>8. Located(h, dk)
    BY <2>3, <2>5, <2>7 DEF Located
  <2> QED
    BY <2>6, <2>8 DEF h
<1> QED
  BY <1>1, <1>2

\* The end of a format revolution rewrites the track, but no search is on it.
LEMMA FormatTickOrderly ==
  ASSUME NEW f \in Fdc, Orderly(f), NEW dk, Located(f, dk), NEW dkAfter,
         FormatDue(f) \/ dkAfter = dk
  PROVE  Orderly(FormatTick(f)) /\ Located(FormatTick(f), dkAfter)
<1>1. CASE ~FormatDue(f)
  BY <1>1 DEF FormatTick
<1>2. CASE FormatDue(f)
  <2>1. /\ f.pendingFormat /\ "CB" \in f.mainStatus /\ f.phase = "IDLE" /\ f.command = "FORMAT"
        /\ ~f.pendingFind /\ f.phase2 # "SEEKING"
    BY <1>2 DEF FormatDue, Orderly, Exclusive
  <2>2. PICK h : h = FormatTick(f)
    OBVIOUS
  <2>3. /\ h.phase = "RESULT" /\ h.phaseStep = 0 /\ "DIO" \in h.mainStatus
        /\ h.command = f.command /\ h.pendingFind = f.pendingFind /\ ~h.pendingFormat
        /\ h.phase2 = f.phase2
    BY <1>2, <2>2 DEF FormatTick, EnterResult, Fdc
  <2>4. Orderly(h) /\ Located(h, dkAfter)
    BY <2>1, <2>3 DEF Orderly, Exclusive, Shown, Located, ResultLength
  <2> QED
    BY <2>2, <2>4
<1> QED
  BY <1>1, <1>2

LEMMA TickOrderly ==
  ASSUME NEW f \in Fdc, Orderly(f), NEW dk \in Medium, Located(f, dk), NEW n \in Nat,
         NEW rotating \in BOOLEAN
  PROVE  /\ Orderly(Tick(f, dk, n, rotating))
         /\ Located(Tick(f, dk, n, rotating), MediumAfterTick(f, dk, n, rotating))
<1>1. PICK r \in Fdc : r = Rotate(f, n, rotating)
  BY RotateType
<1>2. PICK m \in Fdc : m = MoveToTrackTick(r, n)
  BY MoveToTrackTickType
<1>3. PICK s \in Fdc : s = SectorFindTick(m, dk)
  BY SectorFindTickType
<1>4. PICK t \in Fdc : t = FormatTick(s)
  BY FormatTickType
<1>5. PICK dkAfter : dkAfter = MediumAfterTick(f, dk, n, rotating)
  OBVIOUS
<1>6. Orderly(r) /\ Located(r, dk)
  <2>1. /\ r.phase = f.phase /\ r.phase2 = f.phase2 /\ r.command = f.command
        /\ r.phaseStep = f.phaseStep /\ r.mainStatus = f.mainStatus /\ r.status1 = f.status1
        /\ r.pendingFind = f.pendingFind /\ r.pendingFormat = f.pendingFormat
        /\ r.findSectorIdx = f.findSectorIdx /\ r.sectorNumber = f.sectorNumber
        /\ r.drive = f.drive /\ r.currentTrack = f.currentTrack
    BY <1>1 DEF Rotate, Fdc
  <2> QED
    BY <2>1 DEF Orderly, Exclusive, Shown, Located, HasSector, SectorsUnder
<1>7. Orderly(m) /\ Located(m, dk)
  BY <1>2, <1>6, SeekTickOrderly
<1>8. Orderly(s) /\ Located(s, dk)
  BY <1>3, <1>7, SearchTickOrderly
<1>9. FormatDue(s) \/ dkAfter = dk
  BY <1>1, <1>2, <1>3, <1>5 DEF MediumAfterTick, BeforeFormatTick
<1>10. Orderly(t) /\ Located(t, dkAfter)
  BY <1>4, <1>8, <1>9, FormatTickOrderly
<1>11. Orderly(Settle(t)) /\ Located(Settle(t), dkAfter)
  BY <1>10 DEF Settle, Orderly, Exclusive, Shown, Located, HasSector, SectorsUnder, Fdc
<1> QED
  BY <1>1, <1>2, <1>3, <1>4, <1>5, <1>11 DEF Tick, BeforeFormatTick

-----------------------------------------------------------------------------
(* The inductive invariant.                                                  *)

DriverInv == TypeOK /\ Orderly(fdc) /\ Located(fdc, disk)

LEMMA DriverInvInit == DriverInit => DriverInv
<1> SUFFICES ASSUME DriverInit PROVE DriverInv
  OBVIOUS
<1>1. PICK v \in Bytes : fdc = PowerUp(StepTimeOf[v])
  BY DEF DriverInit
<1>2. fdc \in Fdc
  BY <1>1, PowerUpType, TimingAssumption
<1>3. TypeOK
  BY <1>2, MediaAssumption DEF DriverInit, TypeOK
<1>4. Orderly(fdc) /\ Located(fdc, disk)
  BY <1>1 DEF PowerUp, Reset, Orderly, Exclusive, Shown, Located
<1> QED
  BY <1>3, <1>4 DEF DriverInv

\* Idle as the status register shows it is idle.
LEMMA IdleShown ==
  ASSUME NEW f \in Fdc, Orderly(f), "DIO" \notin f.mainStatus, "CB" \notin f.mainStatus
  PROVE  f.phase = "IDLE" /\ ~f.pendingFormat
BY DEF Orderly, Exclusive, Shown, Fdc

LEMMA DriverInvNext == DriverInv /\ [DriverNext]_vars => DriverInv'
<1> SUFFICES ASSUME DriverInv, [DriverNext]_vars PROVE DriverInv'
  OBVIOUS
<1>1. /\ TypeOK /\ fdc \in Fdc /\ disk \in Medium /\ motor \in BOOLEAN
      /\ Orderly(fdc) /\ Located(fdc, disk)
  BY DEF DriverInv, TypeOK
<1>2. ASSUME NEW c \in Commands, Rqm, ~Dio, ~Busy, GuestWrite(c) PROVE DriverInv'
  <2>1. fdc.phase = "IDLE" /\ ~fdc.pendingFormat
    BY <1>1, <1>2, IdleShown DEF Dio, Busy
  <2>2. TypeOK'
    BY <1>1, <1>2, <2>1, NextTypeOK DEF Next, Input
  <2>3. fdc' = IdlePhaseWrite(fdc, c)
    BY <1>2, <2>1 DEF GuestWrite, Write
  <2>4. Orderly(fdc') /\ Located(fdc', disk')
    BY <1>1, <1>2, <2>1, <2>3, StartOrderly, CommandAssumption DEF Busy
  <2> QED
    BY <2>2, <2>4 DEF DriverInv
<1>3. ASSUME NEW v \in Bytes, ~Dio, fdc.phase \in {"COMMAND", "DATATRANSFER"}, GuestWrite(v)
      PROVE  DriverInv'
  <2>1. TypeOK'
    BY <1>1, <1>3, NextTypeOK DEF Next, Input
  <2>2. ~fdc.pendingFormat
    BY <1>1, <1>3 DEF Orderly, Exclusive
  <2>3. CASE fdc.phase = "COMMAND"
    <3>1. fdc' = CommandPhaseWrite(fdc, disk, v) /\ disk' = disk
      BY <1>3, <2>2, <2>3 DEF GuestWrite, Write, MediumAfterWrite
    <3> QED
      BY <1>1, <2>1, <2>3, <3>1, ParameterOrderly DEF DriverInv
  <2>4. CASE fdc.phase = "DATATRANSFER"
    <3>1. fdc' = Transferred(ExecutionPhaseWrite(fdc, disk, v))
      BY <1>3, <2>2, <2>4 DEF GuestWrite, Write
    <3>2. Orderly(fdc') /\ Located(fdc', disk')
      BY <1>1, <1>3, <2>4, <3>1, DataByteOrderly DEF Dio
    <3> QED
      BY <2>1, <3>2 DEF DriverInv
  <2> QED
    BY <1>3, <2>3, <2>4
<1>4. CASE FetchByte
  <2>1. TypeOK'
    BY <1>1, <1>4, NextTypeOK DEF Next, FetchByte
  <2>2. fdc' = Read(fdc) /\ disk' = disk
    BY <1>4 DEF FetchByte, GuestRead
  <2> QED
    BY <1>1, <1>4, <2>1, <2>2, FetchOrderly DEF FetchByte, Dio, DriverInv
<1>5. CASE PollStatus
  <2>1. TypeOK'
    BY <1>1, <1>5, NextTypeOK DEF Next, PollStatus
  <2>2. fdc' = ReadStatus(fdc) /\ disk' = disk
    BY <1>5 DEF PollStatus, GuestReadStatus
  <2> QED
    BY <1>1, <2>1, <2>2, PollOrderly DEF DriverInv
<1>6. CASE EndRead
  <2>1. TypeOK'
    BY <1>1, <1>6, NextTypeOK DEF Next, EndRead
  <2>2. fdc' = ControlEdges(fdc, TRUE, FALSE) /\ disk' = disk
    BY <1>6 DEF EndRead, GuestControl
  <2> QED
    BY <1>1, <1>6, <2>1, <2>2, EndReadOrderly DEF EndRead, DriverInv
<1>7. ASSUME NEW m \in Media, ~Dio, ~Busy, InsertMedium(m) PROVE DriverInv'
  <2>1. TypeOK'
    BY <1>1, <1>7, NextTypeOK DEF Next
  <2>2. fdc' = DiskChanged(fdc)
    BY <1>7 DEF InsertMedium
  <2> QED
    BY <1>1, <1>7, <2>1, <2>2, ChangeOrderly DEF Dio, Busy, DriverInv
<1>8. ASSUME NEW n \in Blocks, Clock(n) PROVE DriverInv'
  <2>1. TypeOK'
    BY <1>1, <1>8, NextTypeOK DEF Next
  <2>2. n \in Nat
    BY TimingAssumption
  <2>3. PICK rotating \in BOOLEAN : rotating = Rotating
    BY <1>1 DEF Rotating, Present, Medium
  <2>4. Orderly(fdc') /\ Located(fdc', disk')
    BY <1>1, <1>8, <2>2, <2>3, TickOrderly DEF Clock
  <2> QED
    BY <2>1, <2>4 DEF DriverInv
<1>9. CASE UNCHANGED vars
  BY <1>1, <1>9 DEF vars, DriverInv, TypeOK
<1> QED
  BY <1>2, <1>3, <1>4, <1>5, <1>6, <1>7, <1>8, <1>9
     DEF DriverNext, StartCommand, SendByte, ChangeDisc, TimePasses

LEMMA DriverInvHolds == DriverSpec => []DriverInv
BY DriverInvInit, DriverInvNext, PTL DEF DriverSpec

-----------------------------------------------------------------------------
(* The theorems.                                                             *)

\* A guest that believes the status register is never deceived: shown idle, the
\* chip is idle, and asked to fetch, there is a byte (NEC765.cpp, nec765ReadStatus).
THEOREM StatusIsTruthful == DriverSpec => []MsrTruthful
<1>1. DriverInv => MsrTruthful
  BY IdleShown DEF DriverInv, TypeOK, Orderly, Shown, MsrTruthful, Rqm, Dio, Busy, Fdc
<1> QED
  BY <1>1, DriverInvHolds, PTL

\* At most one of seek, search and format revolution is under way, it belongs to
\* the command last given, and the chip shows busy (nec765Tick).
THEOREM BackgroundIsExclusive == DriverSpec => []BackgroundExclusive
<1>1. DriverInv => BackgroundExclusive
  BY DEF DriverInv, Orderly, Exclusive, BackgroundExclusive, Busy
<1> QED
  BY <1>1, DriverInvHolds, PTL

\* READ_ID reports an ID of the track under the head, although it remembers only
\* an index while it waits (nec765FindSector, nec765SectorFindTick).
THEOREM FoundIdsAreOnTrack == DriverSpec => []FoundIdIsOnTrack
<1>1. DriverInv => FoundIdIsOnTrack
  BY DEF DriverInv, Located, FoundIdIsOnTrack
<1> QED
  BY <1>1, DriverInvHolds, PTL

=============================================================================
