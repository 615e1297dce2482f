--------------------------- MODULE DeviceConfProofs ---------------------------
(***************************************************************************)
(* What the parser of device files makes of them, for every table, set of  *)
(* fields and values and any number of files; and what becomes of the      *)
(* address of the broker.                                                  *)
(***************************************************************************)
EXTENDS ConfigFiles, SequenceTheorems, TLAPS

\* The states in which nothing of an earlier file can reach the configuration.
Clean == oversized \/ tidy

\* The parser is in the section the file is in, once that has one.
InSection ==
    /\ reading /\ sec # NoSection => endDeviceReadState = sec
    /\ reading /\ sec = NoSection => named = {}
    /\ oversized /\ (~reading \/ sec = NoSection) => endDeviceReadState = NoSection

\* The buffer holds what the file gives the unit it is at, and that unit is
\* selected until its Scale has come.
AtUnit ==
    reading /\ item \in Units =>
        /\ item \in named
        /\ DataTempUnit = given[item]
        /\ pDataTempUnit = IF given[item]["Scale"] = Zero THEN item ELSE NoUnit

\* A unit that has ended is not selected.
EndedClosed ==
    /\ ended \subseteq named /\ pDataTempUnit \notin ended
    /\ \A u \in ended : endDeviceConf[u] = given[u] /\ given[u]["Scale"] # Zero

\* Only a unit of this file can be selected, and what it does not name is zero.
Selected ==
    /\ \A u \in Units \ named : given[u] = ZeroGroup
    /\ Clean => /\ pDataTempUnit \in {NoUnit, Wild} \cup named
                /\ ~reading => pDataTempUnit \in {NoUnit, Wild}
                /\ \A u \in Units \ named : endDeviceConf[u] = ZeroGroup

\* A wild pointer comes from an earlier message and goes with the first unit.
WildCause ==
    /\ reading => files > 0
    /\ pDataTempUnit = Wild => /\ oversized /\ files > 0
                               /\ reading => files > 1 /\ named = {}
    /\ CrashCause

Inv == TypeOK /\ InSection /\ AtUnit /\ EndedClosed /\ Selected /\ WildCause

LEMMA Sentinels ==
    /\ NoItem \notin Units /\ Foreign \notin Units
    /\ NoUnit \notin Units /\ Wild \notin Units
    /\ NoUnit # Wild /\ NoItem # Foreign
    /\ ZeroGroup \in Group
    /\ \A n : <<NoSection, n>> \notin Units
<1>1. \A n : <<NoSection, n>> \notin Units
  BY FileAssumption DEF Units
<1>2. NoUnit # Wild /\ NoItem # Foreign
  <2>1. "NULL" # "wild" /\ "no item" # "foreign item"
    OBVIOUS
  <2> QED
    BY <2>1 DEF NoItem, Foreign, NoUnit, Wild
<1>3. ZeroGroup \in Group
  BY DEF ZeroGroup, Group
<1> QED
  BY <1>1, <1>2, <1>3 DEF NoItem, Foreign, NoUnit, Wild

LEMMA InitInv == Init => Inv
<1> SUFFICES ASSUME Init PROVE Inv
  OBVIOUS
<1> USE DEF Init, FileInit
<1>1. TypeOK
  <2>1. given \in [Units -> Group] /\ endDeviceConf \in [Units -> Group]
    BY Sentinels
  <2>2. files \in 0..MaxFiles
    BY FileAssumption
  <2> QED
    BY <2>1, <2>2, Sentinels DEF TypeOK
<1>2. InSection /\ EndedClosed
  BY DEF InSection, EndedClosed
<1>3. AtUnit
  BY DEF AtUnit
<1>4. Selected
  BY DEF Selected
<1>5. WildCause
  BY Sentinels DEF WildCause, CrashCause
<1> QED
  BY <1>1, <1>2, <1>3, <1>4, <1>5 DEF Inv

LEMMA TypeNext == TypeOK /\ [Next]_vars => TypeOK'
<1> SUFFICES ASSUME TypeOK, [Next]_vars PROVE TypeOK'
  OBVIOUS
<1> USE DEF TypeOK
<1>1. CASE Open
  <2>1. given' \in [Units -> Group] /\ endDeviceConf' \in [Units -> Group]
    BY <1>1, Sentinels DEF Open, BeginFile
  <2> QED
    BY <1>1, <2>1, FileAssumption DEF Open, BeginFile
<1>2. CASE End
  <2>1. /\ endDeviceReadState' \in Sections \cup {NoSection}
        /\ pDataTempUnit' \in Units \cup {NoUnit, Wild}
        /\ DataTempUnit' \in Group
    BY <1>2 DEF End, CopyConf
  <2> QED
    BY <1>2, <2>1 DEF End, EndFile
<1>3. CASE Absent
  <2>1. /\ endDeviceReadState' \in Sections \cup {NoSection}
        /\ pDataTempUnit' \in Units \cup {NoUnit, Wild}
        /\ DataTempUnit' \in Group
    BY <1>3 DEF Absent, CopyConf
  <2> QED
    BY <1>3, <2>1, FileAssumption DEF Absent, AbsentFile
<1>4. ASSUME NEW s \in Sections, OnSection(s) PROVE TypeOK'
  BY <1>4 DEF OnSection, SectionKey
<1>5. ASSUME NEW n \in Names, OnItem(n) PROVE TypeOK'
  <2>1. item' \in Units \cup {NoItem, Foreign} /\ named' \subseteq Units
    BY <1>5 DEF OnItem, ItemKey
  <2>2. pDataTempUnit' \in Units \cup {NoUnit, Wild} /\ DataTempUnit' \in Group
    BY <1>5, Sentinels DEF OnItem
  <2> QED
    BY <1>5, <2>1, <2>2 DEF OnItem, ItemKey
<1>6. ASSUME NEW f \in Fields, NEW v \in Vals, OnField(f, v) PROVE TypeOK'
  <2>1. given' \in [Units -> Group]
    <3>1. CASE item \in Units /\ given' = [given EXCEPT ![item][f] = v]
      <4>1. [given[item] EXCEPT ![f] = v] \in Group
        BY <3>1 DEF Group
      <4> QED
        BY <3>1, <4>1
    <3> QED
      BY <1>6, <3>1 DEF OnField, Field
  <2>2. DataTempUnit' \in Group
    BY <1>6 DEF OnField, Group
  <2>3. /\ endDeviceConf' \in [Units -> Group]
        /\ pDataTempUnit' \in Units \cup {NoUnit, Wild}
        /\ alive' \in BOOLEAN
    BY <1>6, <2>2 DEF OnField, Store
  <2>4. ended' \subseteq Units
    BY <1>6 DEF OnField, Field
  <2> QED
    BY <1>6, <2>1, <2>2, <2>3, <2>4 DEF OnField, Field
<1>7. CASE UNCHANGED vars
  BY <1>7 DEF vars, fileVars, parserVars
<1> QED
  BY <1>1, <1>2, <1>3, <1>4, <1>5, <1>6, <1>7 DEF Next

LEMMA InSectionNext == Inv /\ [Next]_vars => InSection'
<1> SUFFICES ASSUME Inv, [Next]_vars PROVE InSection'
  OBVIOUS
<1> USE DEF Inv, InSection
<1>1. CASE Open
  BY <1>1 DEF Open, BeginFile
<1>2. CASE End
  BY <1>2 DEF End, EndFile, CopyConf
<1>3. CASE Absent
  BY <1>3 DEF Absent, AbsentFile, CopyConf
<1>4. ASSUME NEW s \in Sections, OnSection(s) PROVE InSection'
  BY <1>4, FileAssumption DEF OnSection, SectionKey
<1>5. ASSUME NEW n \in Names, OnItem(n) PROVE InSection'
  BY <1>5, Sentinels DEF OnItem, ItemKey
<1>6. ASSUME NEW f \in Fields, NEW v \in Vals, OnField(f, v) PROVE InSection'
  BY <1>6 DEF OnField, Field
<1>7. CASE UNCHANGED vars
  BY <1>7 DEF vars, fileVars, parserVars
<1> QED
  BY <1>1, <1>2, <1>3, <1>4, <1>5, <1>6, <1>7 DEF Next

LEMMA AtUnitNext == Inv /\ [Next]_vars => AtUnit'
<1> SUFFICES ASSUME Inv, [Next]_vars, reading', item' \in Units
             PROVE  /\ item' \in named'
                    /\ DataTempUnit' = given'[item']
                    /\ pDataTempUnit' = IF given'[item']["Scale"] = Zero
                                        THEN item' ELSE NoUnit
  BY DEF AtUnit
<1> USE DEF Inv, AtUnit
<1>1. CASE Open
  BY <1>1, Sentinels DEF Open, BeginFile
<1>2. CASE End
  BY <1>2 DEF End, EndFile
<1>3. CASE Absent
  BY <1>3 DEF Absent, AbsentFile
<1>4. ASSUME NEW s \in Sections, OnSection(s) PROVE FALSE
  BY <1>4, Sentinels DEF OnSection, SectionKey
<1>5. ASSUME NEW n \in Names, OnItem(n)
      PROVE  /\ item' \in named'
             /\ DataTempUnit' = given'[item']
             /\ pDataTempUnit' = IF given'[item']["Scale"] = Zero
                                 THEN item' ELSE NoUnit
  <2>1. item' = <<sec, n>> /\ item' \in named' /\ item' \notin named
    BY <1>5, Sentinels DEF OnItem, ItemKey
  <2>2. sec # NoSection
    BY <2>1, Sentinels
  <2>3. Looked(n) = item'
    BY <1>5, <2>1, <2>2 DEF OnItem, ItemKey, InSection, Looked
  <2>4. given' = given /\ given[item'] = ZeroGroup
    BY <1>5, <2>1 DEF OnItem, ItemKey, Selected
  <2>5. given[item']["Scale"] = Zero
    BY <2>4, FileAssumption DEF ZeroGroup
  <2> QED
    BY <1>5, <2>1, <2>3, <2>4, <2>5 DEF OnItem
<1>6. ASSUME NEW f \in Fields, NEW v \in Vals, OnField(f, v)
      PROVE  /\ item' \in named'
             /\ DataTempUnit' = given'[item']
             /\ pDataTempUnit' = IF given'[item']["Scale"] = Zero
                                 THEN item' ELSE NoUnit
  <2>1. reading /\ item' = item /\ named' = named /\ item \in Units
    BY <1>6 DEF OnField, Field
  <2>2. given[item][f] = Zero /\ given' = [given EXCEPT ![item][f] = v]
    BY <1>6, <2>1, Sentinels DEF OnField, Field
  <2>3. given'[item] = [given[item] EXCEPT ![f] = v]
    BY <2>1, <2>2 DEF TypeOK
  <2>4. DataTempUnit' = given'[item]
    BY <1>6, <2>1, <2>3 DEF OnField
  <2>5. given[item] \in Group /\ v # Zero
    BY <2>1, FileAssumption DEF TypeOK
  <2>6. CASE f = "Scale"
    <3>1. pDataTempUnit = item /\ given'[item]["Scale"] # Zero
      BY <2>1, <2>2, <2>3, <2>5, <2>6 DEF Group
    <3> QED
      BY <1>6, <2>1, <2>4, <2>6, <3>1, Sentinels DEF OnField, Store
  <2>7. CASE f # "Scale"
    <3>1. given'[item]["Scale"] = given[item]["Scale"]
      BY <2>3, <2>5, <2>7, FileAssumption DEF Group
    <3> QED
      BY <1>6, <2>1, <2>4, <2>7, <3>1 DEF OnField
  <2> QED
    BY <2>6, <2>7
<1>7. CASE UNCHANGED vars
  BY <1>7 DEF vars, fileVars, parserVars
<1> QED
  BY <1>1, <1>2, <1>3, <1>4, <1>5, <1>6, <1>7 DEF Next

LEMMA EndedClosedNext == Inv /\ [Next]_vars => EndedClosed'
<1> SUFFICES ASSUME Inv, [Next]_vars PROVE EndedClosed'
  OBVIOUS
<1> USE DEF Inv, EndedClosed
<1>1. CASE Open
  BY <1>1 DEF Open, BeginFile
<1>2. CASE End
  <2>1. pDataTempUnit' \in {pDataTempUnit, NoUnit, Wild}
    BY <1>2 DEF End, CopyConf
  <2> QED
    BY <1>2, <2>1, Sentinels DEF End, EndFile, TypeOK
<1>3. CASE Absent
  <2>1. pDataTempUnit' \in {pDataTempUnit, NoUnit, Wild}
    BY <1>3 DEF Absent, CopyConf
  <2> QED
    BY <1>3, <2>1, Sentinels DEF Absent, AbsentFile, TypeOK
<1>4. ASSUME NEW s \in Sections, OnSection(s) PROVE EndedClosed'
  BY <1>4 DEF OnSection, SectionKey
<1>5. ASSUME NEW n \in Names, OnItem(n) PROVE EndedClosed'
  <2>1. ended' = ended /\ given' = given /\ endDeviceConf' = endDeviceConf
        /\ named \subseteq named'
    BY <1>5 DEF OnItem, ItemKey
  <2>2. CASE sec = NoSection
    BY <1>5, <2>1, <2>2 DEF OnItem, ItemKey, InSection
  <2>3. CASE sec # NoSection
    <3>1. Looked(n) = <<sec, n>> /\ <<sec, n>> \notin named
      BY <1>5, <2>3 DEF OnItem, ItemKey, InSection, Looked
    <3> QED
      BY <1>5, <2>1, <3>1 DEF OnItem
  <2> QED
    BY <2>2, <2>3
<1>6. ASSUME NEW f \in Fields, NEW v \in Vals, OnField(f, v) PROVE EndedClosed'
  <2>1. reading /\ item' = item /\ named' = named
    BY <1>6 DEF OnField, Field
  <2>2. CASE item = Foreign
    <3>1. ended' = ended /\ given' = given
      BY <1>6, <2>2, Sentinels DEF OnField, Field
    <3>2. \A u \in ended : endDeviceConf'[u] = endDeviceConf[u]
      BY <1>6 DEF OnField, Store, TypeOK
    <3>3. pDataTempUnit' \in {pDataTempUnit, NoUnit}
      BY <1>6 DEF OnField, Store
    <3> QED
      BY <2>1, <3>1, <3>2, <3>3, Sentinels DEF TypeOK
  <2>3. CASE item \in Units
    <3>1. /\ given[item][f] = Zero /\ given' = [given EXCEPT ![item][f] = v]
          /\ ended' = IF f = "Scale" THEN ended \cup {item} ELSE ended \ {item}
      BY <1>6, <2>3, Sentinels DEF OnField, Field
    <3>2. given'[item] = [given[item] EXCEPT ![f] = v] /\ given[item] \in Group
      BY <2>3, <3>1 DEF TypeOK
    <3>3. DataTempUnit' = given'[item]
      BY <1>6, <2>1, <2>3, <3>2 DEF OnField, AtUnit
    <3>4. \A u \in Units \ {item} : given'[u] = given[u]
      BY <3>1 DEF TypeOK
    <3>5. item \in named
      BY <2>1, <2>3 DEF AtUnit
    <3>6. CASE f = "Scale"
      <4>1. pDataTempUnit = item /\ given'[item]["Scale"] # Zero
        BY <2>1, <2>3, <3>1, <3>2, <3>6, FileAssumption DEF AtUnit, Group
      <4>2. endDeviceConf' = [endDeviceConf EXCEPT ![item] = DataTempUnit']
            /\ pDataTempUnit' = NoUnit
        BY <1>6, <2>3, <3>6, <4>1, Sentinels DEF OnField, Store
      <4>3. \A u \in ended' : endDeviceConf'[u] = given'[u]
        BY <3>1, <3>3, <3>4, <3>6, <4>1, <4>2 DEF TypeOK
      <4> QED
        BY <2>1, <2>3, <3>1, <3>4, <3>5, <3>6, <4>1, <4>2, <4>3, Sentinels DEF TypeOK
    <3>7. CASE f # "Scale"
      <4>1. endDeviceConf' = endDeviceConf /\ pDataTempUnit' = pDataTempUnit
        BY <1>6, <3>7 DEF OnField
      <4> QED
        BY <2>1, <3>1, <3>4, <3>7, <4>1 DEF TypeOK
    <3> QED
      BY <3>6, <3>7
  <2> QED
    BY <1>6, <2>2, <2>3 DEF OnField, Field
<1>7. CASE UNCHANGED vars
  BY <1>7 DEF vars, fileVars, parserVars
<1> QED
  BY <1>1, <1>2, <1>3, <1>4, <1>5, <1>6, <1>7 DEF Next

LEMMA SelectedNext == Inv /\ [Next]_vars => Selected'
<1> SUFFICES ASSUME Inv, [Next]_vars PROVE Selected'
  OBVIOUS
<1> USE DEF Inv, Selected, Clean
<1>1. CASE Open
  BY <1>1 DEF Open, BeginFile
<1>2. CASE End
  <2>1. CASE oversized
    BY <1>2, <2>1 DEF End, EndFile, CopyConf
  <2>2. CASE ~oversized
    <3>1. pDataTempUnit' = pDataTempUnit /\ ended' = ended /\ named' = named
      BY <1>2, <2>2 DEF End, EndFile, CopyConf
    <3>2. tidy' => tidy /\ named = ended
      BY <1>2 DEF End, EndFile, AllEnded
    <3>3. tidy' => pDataTempUnit \in {NoUnit, Wild}
      BY <3>2 DEF EndedClosed
    <3> QED
      BY <1>2, <2>2, <3>1, <3>2, <3>3 DEF End, EndFile
  <2> QED
    BY <2>1, <2>2
<1>3. CASE Absent
  <2>1. pDataTempUnit' \in {pDataTempUnit, NoUnit, Wild}
    BY <1>3 DEF Absent, CopyConf
  <2> QED
    BY <1>3, <2>1 DEF Absent, AbsentFile
<1>4. ASSUME NEW s \in Sections, OnSection(s) PROVE Selected'
  BY <1>4 DEF OnSection, SectionKey
<1>5. ASSUME NEW n \in Names, OnItem(n) PROVE Selected'
  <2>1. /\ reading /\ reading' /\ named \subseteq named'
        /\ given' = given /\ endDeviceConf' = endDeviceConf
    BY <1>5 DEF OnItem, ItemKey
  <2>2. CASE sec = NoSection
    <3>1. (oversized \/ tidy)' => oversized /\ Looked(n) \notin Units
      BY <1>5, <2>2, Sentinels DEF OnItem, ItemKey, InSection, Looked
    <3> QED
      BY <1>5, <2>1, <3>1 DEF OnItem
  <2>3. CASE sec # NoSection
    <3>1. Looked(n) = <<sec, n>>
      BY <1>5, <2>3 DEF OnItem, ItemKey, InSection, Looked
    <3>2. pDataTempUnit' \in {pDataTempUnit} \cup named'
      BY <1>5, <3>1 DEF OnItem, ItemKey
    <3>3. (oversized \/ tidy)' => (oversized \/ tidy)
      BY <1>5 DEF OnItem, ItemKey
    <3> QED
      BY <2>1, <3>2, <3>3
  <2> QED
    BY <2>2, <2>3
<1>6. ASSUME NEW f \in Fields, NEW v \in Vals, OnField(f, v) PROVE Selected'
  <2>1. /\ reading /\ reading' = reading /\ named' = named
        /\ oversized' = oversized /\ tidy' = tidy
    BY <1>6 DEF OnField, Field
  <2>2. \A u \in Units \ named : given'[u] = given[u]
    <3>1. CASE item \in Units /\ given' = [given EXCEPT ![item][f] = v]
      BY <2>1, <3>1 DEF AtUnit, TypeOK
    <3> QED
      BY <1>6, <3>1 DEF OnField, Field
  <2>3. pDataTempUnit' \in {pDataTempUnit, NoUnit}
    BY <1>6 DEF OnField, Store
  <2>4. \A u \in Units : u # pDataTempUnit => endDeviceConf'[u] = endDeviceConf[u]
    BY <1>6 DEF OnField, Store, TypeOK
  <2> QED
    BY <2>1, <2>2, <2>3, <2>4, Sentinels DEF TypeOK
<1>7. CASE UNCHANGED vars
  BY <1>7 DEF vars, fileVars, parserVars
<1> QED
  BY <1>1, <1>2, <1>3, <1>4, <1>5, <1>6, <1>7 DEF Next

LEMMA WildCauseNext == Inv /\ [Next]_vars => WildCause'
<1> SUFFICES ASSUME Inv, [Next]_vars PROVE WildCause'
  OBVIOUS
<1> USE DEF Inv, WildCause, CrashCause, TypeOK
<1>1. CASE Open
  BY <1>1 DEF Open, BeginFile
<1>2. CASE End
  <2>1. files > 0
    BY <1>2 DEF End, EndFile
  <2> QED
    BY <1>2, <2>1 DEF End, EndFile, CopyConf
<1>3. CASE Absent
  BY <1>3, Sentinels DEF Absent, AbsentFile, CopyConf
<1>4. ASSUME NEW s \in Sections, OnSection(s) PROVE WildCause'
  BY <1>4 DEF OnSection, SectionKey
<1>5. ASSUME NEW n \in Names, OnItem(n) PROVE WildCause'
  <2>1. CASE pDataTempUnit' = Wild
    <3>1. pDataTempUnit = Wild /\ Looked(n) \notin Units
      BY <1>5, <2>1, Sentinels DEF OnItem
    <3>2. <<sec, n>> \notin Units
      BY <1>5, <3>1, Sentinels DEF OnItem, ItemKey, InSection, Looked
    <3> QED
      BY <1>5, <3>1, <3>2 DEF OnItem, ItemKey
  <2>2. CASE pDataTempUnit' # Wild
    BY <1>5, <2>2 DEF OnItem, ItemKey
  <2> QED
    BY <2>1, <2>2
<1>6. ASSUME NEW f \in Fields, NEW v \in Vals, OnField(f, v) PROVE WildCause'
  <2>1. reading /\ alive /\ UNCHANGED <<files, reading, named, oversized>>
    BY <1>6 DEF OnField, Field
  <2>2. alive' = alive \/ pDataTempUnit = Wild
    BY <1>6 DEF OnField, Store
  <2>3. pDataTempUnit' \in {pDataTempUnit, NoUnit}
    BY <1>6 DEF OnField, Store
  <2> QED
    BY <2>1, <2>2, <2>3, Sentinels
<1>7. CASE UNCHANGED vars
  BY <1>7 DEF vars, fileVars, parserVars
<1> QED
  BY <1>1, <1>2, <1>3, <1>4, <1>5, <1>6, <1>7 DEF Next

LEMMA Invariance == Spec => []Inv
<1>1. Inv /\ [Next]_vars => Inv'
  BY TypeNext, InSectionNext, AtUnitNext, EndedClosedNext, SelectedNext,
     WildCauseNext DEF Inv
<1> QED
  BY <1>1, InitInv, PTL DEF Spec

\* The variables of the parser and of the file keep their types and ranges.
THEOREM ParserTypes == Spec => []TypeOK
BY Invariance, PTL DEF Inv

\* A unit whose Scale is its last field is configured as the file says, for
\* every table and any sequence of files (config.c:195-210).
THEOREM UnitsAsGiven == Spec => []EndedAsGiven
<1>1. Inv => EndedAsGiven
  BY DEF Inv, EndedClosed, EndedAsGiven
<1> QED
  BY <1>1, Invariance, PTL

\* As committed, no unit is configured that the file does not name.
THEOREM UnitsOnlyNamed == Spec => []OnlyNamed
<1>1. Inv => OnlyNamed
  BY DEF Inv, Selected, Clean, OnlyNamed
<1> QED
  BY <1>1, Invariance, PTL

\* The configuration is the file, under the conditions of WholeFile.
THEOREM ConfIsFile == Spec => []WholeFile
<1>1. Inv => WholeFile
  <2> SUFFICES ASSUME Inv, oversized \/ tidy, named = ended
               PROVE  endDeviceConf = given
    BY DEF WholeFile, AllEnded
  <2>1. \A u \in Units : endDeviceConf[u] = given[u]
    BY DEF Inv, EndedClosed, Selected, Clean
  <2> QED
    BY <2>1 DEF Inv, TypeOK
<1> QED
  BY <1>1, Invariance, PTL

\* The process dies of the pointer the copy makes only as CrashCause says.
THEOREM CrashOnlyBeforeUnits == Spec => []CrashCause
<1>1. Inv => CrashCause
  BY DEF Inv, WildCause
<1> QED
  BY <1>1, Invariance, PTL
------------------------------------------------------------------------------
(***************************************************************************)
(* MQTT sections between the device files.                                 *)
(***************************************************************************)

\* An MQTT section between two device files changes nothing the parser of
\* device files keeps, so all of the above holds of ConfigFiles too
\* (config.c:713-800).
THEOREM FilesAreDeviceConf == FilesSpec => Spec
<1>1. FilesInit => Init
  BY DEF FilesInit
<1>2. [FilesNext]_filesVars => [Next]_vars
  BY DEF FilesNext, ReadMqtt, ReadDevice, filesVars
<1> QED
  BY <1>1, <1>2, PTL DEF FilesSpec, Spec

\* The field holds a text as long as the longest one given, which begins with the
\* last one given; and that is what was sent.
AddrInv ==
    /\ mqttServerAddr \in Seq(Chars) /\ mqttGiven \in Seq(Chars)
    /\ Len(mqttServerAddr) = mqttLongest
    /\ Len(mqttGiven) <= mqttLongest
    /\ \A i \in 1..Len(mqttGiven) : mqttServerAddr[i] = mqttGiven[i]
    /\ mqttSent = mqttServerAddr

\* The copy begins with the new text and is as long as the longer of the two.
LEMMA CopiedText ==
  ASSUME NEW new \in Seq(Chars), NEW old \in Seq(Chars)
  PROVE  /\ Copied(new, old) \in Seq(Chars)
         /\ Len(Copied(new, old)) = IF Len(new) > Len(old) THEN Len(new) ELSE Len(old)
         /\ \A i \in 1..Len(new) : Copied(new, old)[i] = new[i]
<1> DEFINE rest == SubSeq(old, Len(new) + 1, Len(old))
<1>1. Len(new) \in Nat /\ Len(old) \in Nat
  BY LenProperties
<1>2. \A i \in (Len(new) + 1)..Len(old) : old[i] \in Chars
  BY <1>1, ElementOfSeq
<1>3. /\ rest \in Seq(Chars)
      /\ Len(rest) = IF Len(new) + 1 <= Len(old) THEN Len(old) - Len(new) ELSE 0
  BY <1>1, <1>2, SubSeqProperties
<1>4. /\ new \o rest \in Seq(Chars)
      /\ Len(new \o rest) = Len(new) + Len(rest)
      /\ \A i \in 1..Len(new) + Len(rest) :
            (new \o rest)[i] = IF i <= Len(new) THEN new[i] ELSE rest[i - Len(new)]
  BY <1>3, ConcatProperties
<1> HIDE DEF rest
<1>5. Copied(new, old) = new \o rest
  BY DEF Copied, rest
<1> QED
  BY <1>1, <1>3, <1>4, <1>5

\* AddrInv is an invariant.
LEMMA AddrInvStep == AddrInv /\ [FilesNext]_filesVars => AddrInv'
<1> SUFFICES ASSUME AddrInv, [FilesNext]_filesVars
             PROVE  AddrInv'
  OBVIOUS
<1>1. CASE ReadMqtt
  <2>1. CASE UNCHANGED <<mqttServerAddr, mqttGiven, mqttLongest>>
    BY <1>1, <2>1 DEF ReadMqtt, AddrInv
  <2>2. ASSUME NEW a \in MqttAddrs,
               mqttServerAddr' = Copied(a, mqttServerAddr),
               mqttGiven' = a,
               mqttLongest' = IF Len(a) > mqttLongest THEN Len(a) ELSE mqttLongest
        PROVE  AddrInv'
    <3>1. a \in Seq(Chars)
      BY MqttAssumption
    <3>2. /\ mqttServerAddr' \in Seq(Chars)
          /\ Len(mqttServerAddr') = mqttLongest'
          /\ \A i \in 1..Len(a) : mqttServerAddr'[i] = a[i]
      BY <2>2, <3>1, CopiedText DEF AddrInv
    <3>3. Len(a) \in Nat /\ mqttLongest \in Nat
      BY <3>1, LenProperties DEF AddrInv
    <3> QED
      BY <1>1, <2>2, <3>1, <3>2, <3>3 DEF ReadMqtt, AddrInv
  <2> QED
    BY <1>1, <2>1, <2>2 DEF ReadMqtt
<1>2. CASE ReadDevice \/ UNCHANGED filesVars
  BY <1>2 DEF ReadDevice, filesVars, mqttVars, AddrInv
<1> QED
  BY <1>1, <1>2 DEF FilesNext

LEMMA AddrInvAlways == FilesSpec => []AddrInv
<1>1. FilesInit => AddrInv
  BY EmptySeq DEF FilesInit, NoText, AddrInv
<1> QED
  BY <1>1, AddrInvStep, PTL DEF FilesSpec

\* As long as none was longer, the address sent is the one given.
THEOREM AddressIsGiven == FilesSpec => []AddressAsGiven
<1>1. AddrInv => AddressAsGiven
  BY SeqEqual DEF AddrInv, AddressAsGiven
<1> QED
  BY <1>1, AddrInvAlways, PTL
==============================================================================
