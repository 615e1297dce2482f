------------------------------ MODULE DeviceConf ------------------------------
(***************************************************************************)
(* The parser of device files (parseConfigParam, configForEndDeviceUpdate  *)
(* in config.c) at work on the files of DeviceFile.                        *)
(*                                                                         *)
(* A field goes to one static buffer, DataTempUnit, whatever item it is    *)
(* for.  Scale ends an item: the buffer is copied to the unit the last     *)
(* known item key has left in pDataTempUnit.  The section, that pointer    *)
(* and the buffer are static variables nothing resets between two files,   *)
(* but for the copy into the message: it runs over them (config.c:677)     *)
(* when the configuration is longer than the message.                      *)
(***************************************************************************)
EXTENDS DeviceFile

CONSTANTS
    Builds,     \* whether sizeof(endDeviceConf_t) > sizeof(commonMsg_t.msgtext):
                \* TRUE as committed, FALSE were the message large enough
    SpillUnit   \* the unit whose Address lies, in the message, where
                \* pDataTempUnit lies in memory: the state of the feed water pump

ASSUME SpillAssumption ==
    /\ Builds \subseteq BOOLEAN
    /\ SpillUnit \in Units

NoUnit == <<NoSection, "NULL">>
Wild == <<NoSection, "wild">>

VARIABLES
    oversized,          \* the build that runs
    alive,              \* the process runs
    endDeviceReadState, \* endDeviceReadState1: the section, NoSection for 0
    pDataTempUnit,      \* the unit to fill in, NoUnit, or Wild
    DataTempUnit,       \* the fields read
    endDeviceConf       \* the units of the configuration

parserVars == <<oversized, alive, endDeviceReadState, pDataTempUnit,
                DataTempUnit, endDeviceConf>>
vars == <<fileVars, parserVars>>

\* Types and ranges of all variables.
TypeOK ==
    /\ files \in 0..MaxFiles /\ reading \in BOOLEAN
    /\ sec \in Sections \cup {NoSection}
    /\ item \in Units \cup {NoItem, Foreign}
    /\ given \in [Units -> Group]
    /\ named \subseteq Units /\ ended \subseteq Units
    /\ oversized \in Builds /\ alive \in BOOLEAN
    /\ endDeviceReadState \in Sections \cup {NoSection}
    /\ pDataTempUnit \in Units \cup {NoUnit, Wild}
    /\ DataTempUnit \in Group
    /\ endDeviceConf \in [Units -> Group]

Init ==
    /\ FileInit
    /\ oversized \in Builds /\ alive = TRUE
    /\ endDeviceReadState = NoSection
    /\ pDataTempUnit = NoUnit /\ DataTempUnit = ZeroGroup
    /\ endDeviceConf = [u \in Units |-> ZeroGroup]
------------------------------------------------------------------------------
\* Mutant: the old configuration is kept, as the comment of line 227 rules out.
OpenNoClear ==
    /\ alive /\ BeginFile
    /\ UNCHANGED parserVars

\* fopen succeeds and the whole of endDeviceConf is cleared.
Open ==
    /\ alive /\ BeginFile
    /\ endDeviceConf' = [u \in Units |-> ZeroGroup]
    /\ UNCHANGED <<oversized, alive, endDeviceReadState, pDataTempUnit, DataTempUnit>>

OnSection(s) ==
    /\ alive /\ SectionKey(s)
    /\ endDeviceReadState' = s
    /\ UNCHANGED <<oversized, alive, pDataTempUnit, DataTempUnit, endDeviceConf>>

\* The unit the table has for a name in the parser's section.
Looked(n) == <<endDeviceReadState, n>>

\* Mutant: the buffer is not cleared for a new item.
OnItemNoClear(n) ==
    /\ alive /\ ItemKey(n)
    /\ pDataTempUnit' = IF Looked(n) \in Units THEN Looked(n) ELSE pDataTempUnit
    /\ UNCHANGED <<oversized, alive, endDeviceReadState, DataTempUnit, endDeviceConf>>

\* Mutant: a unit is selected only when none is.
OnItemFirstOnly(n) ==
    /\ alive /\ ItemKey(n)
    /\ IF Looked(n) \in Units /\ pDataTempUnit = NoUnit
       THEN pDataTempUnit' = Looked(n) /\ DataTempUnit' = ZeroGroup
       ELSE UNCHANGED <<pDataTempUnit, DataTempUnit>>
    /\ UNCHANGED <<oversized, alive, endDeviceReadState, endDeviceConf>>

\* Mutant: the table is not searched for the end of the section's names.
OnItemUnchecked(n) ==
    /\ alive /\ ItemKey(n)
    /\ pDataTempUnit' = Looked(n) /\ DataTempUnit' = ZeroGroup
    /\ UNCHANGED <<oversized, alive, endDeviceReadState, endDeviceConf>>

\* A name that is not in the table changes nothing.
OnItem(n) ==
    /\ alive /\ ItemKey(n)
    /\ IF Looked(n) \in Units
       THEN pDataTempUnit' = Looked(n) /\ DataTempUnit' = ZeroGroup
       ELSE UNCHANGED <<pDataTempUnit, DataTempUnit>>
    /\ UNCHANGED <<oversized, alive, endDeviceReadState, endDeviceConf>>

\* Mutant: the unit stays selected after its Scale.
StoreKeepsUnit ==
    /\ endDeviceConf' = [endDeviceConf EXCEPT ![pDataTempUnit] = DataTempUnit']
    /\ UNCHANGED <<alive, pDataTempUnit>>

\* Scale with a unit selected: the buffer, the new Scale included, is stored.
Store ==
    /\ endDeviceConf' = [endDeviceConf EXCEPT ![pDataTempUnit] = DataTempUnit']
    /\ pDataTempUnit' = NoUnit
    /\ UNCHANGED alive

\* Storing through a pointer that is not one kills the process.
OnField(f, v) ==
    /\ alive /\ Field(f, v)
    /\ DataTempUnit' = [DataTempUnit EXCEPT ![f] = v]
    /\ \/ /\ f = "Scale" /\ pDataTempUnit \in Units
          /\ Store
       \/ /\ f = "Scale" /\ pDataTempUnit = Wild
          /\ alive' = FALSE
          /\ UNCHANGED <<pDataTempUnit, endDeviceConf>>
       \/ /\ f # "Scale" \/ pDataTempUnit = NoUnit
          /\ UNCHANGED <<alive, pDataTempUnit, endDeviceConf>>
    /\ UNCHANGED <<oversized, endDeviceReadState>>

\* The copy into the message.  The zero behind a DataType clears the section;
\* an Address becomes the pointer, and other fields the buffer.
CopyConf ==
    IF oversized
    THEN /\ endDeviceReadState' = NoSection
         /\ pDataTempUnit' = IF endDeviceConf[SpillUnit]["Address"] = Zero
                             THEN NoUnit ELSE Wild
         /\ DataTempUnit' \in Group
    ELSE UNCHANGED <<endDeviceReadState, pDataTempUnit, DataTempUnit>>

End ==
    /\ alive /\ EndFile
    /\ CopyConf
    /\ UNCHANGED <<oversized, alive, endDeviceConf>>

\* fopen fails: the configuration is sent as it is.
Absent ==
    /\ alive /\ AbsentFile
    /\ CopyConf
    /\ UNCHANGED <<oversized, alive, endDeviceConf>>

Next ==
    \/ Open \/ End \/ Absent
    \/ \E s \in Sections : OnSection(s)
    \/ \E n \in Names : OnItem(n)
    \/ \E f \in Fields, v \in Vals : OnField(f, v)

Spec == Init /\ [][Next]_vars
------------------------------------------------------------------------------
(***************************************************************************)
(* Properties.                                                             *)
(***************************************************************************)

\* Whatever else a file has in it, and whatever files came before it: a unit
\* whose Scale is its last field is configured as the file says
\* (config.c:195-210, 313-314), until the next file is opened.
EndedAsGiven == \A u \in ended : endDeviceConf[u] = given[u]

\* In the build as committed no file configures a unit it does not name
\* (config.c:227).  Nothing resets the parser: it is the copy into the message
\* that does, as it runs over the parser's variables.
OnlyNamed == oversized => \A u \in Units \ named : endDeviceConf[u] = ZeroGroup

\* A file in which every item ends with its Scale is all there is in the
\* configuration that is sent.  Were the message large enough, that would hold
\* only as long as no earlier file left an item open and no item stood outside
\* a section (config.c:171, 305): the fix of the one takes the other with it.
WholeFile ==
    (oversized \/ tidy) /\ AllEnded => endDeviceConf = given

\* The copy may leave an Address in pDataTempUnit (config.c:199, 677).  That
\* kills the process only in a file that gives a Scale before it names any
\* unit, and never in the first file.
CrashCause == ~alive => oversized /\ files > 1 /\ named = {}
==============================================================================
