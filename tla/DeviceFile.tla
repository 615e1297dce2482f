------------------------------ MODULE DeviceFile ------------------------------
(***************************************************************************)
(* What a device file says, whoever reads it.  A file has sections         *)
(* (PrimaryPipeNet, SecondaryPipeNet, Other), a section has items and an   *)
(* item has fields.  The program knows the items of each section from      *)
(* deviceTable (config.c); an item that the table does not have in the     *)
(* section it stands in, or that stands in no section, means nothing.      *)
(*                                                                         *)
(* The reader learns the file entry by entry; the variables are what the   *)
(* entries read so far mean.  The entries that describe the device itself  *)
(* (its port and address) are left out.                                    *)
(***************************************************************************)
EXTENDS Naturals

CONSTANTS
    Names,      \* the item names files use
    Table,      \* deviceTable: the item names each section knows
    Fields,     \* the fields of an item: RegisterType, Address, ..., Scale
    Vals,       \* the values a field may be given
    MaxFiles    \* bound: files read

Sections == DOMAIN Table
Units == {u \in Sections \X Names : u[2] \in Table[u[1]]}

NoSection == "no section"
NoItem == <<NoSection, "no item">>
Foreign == <<NoSection, "foreign item">>

\* The value of a field that is not given: the structures are zeroed first.
Zero == 0
Group == [Fields -> Vals \cup {Zero}]
ZeroGroup == [f \in Fields |-> Zero]

ASSUME FileAssumption ==
    /\ Table \in [Sections -> SUBSET Names]
    /\ NoSection \notin Sections
    /\ {"Address", "Scale"} \subseteq Fields
    /\ Zero \notin Vals
    /\ MaxFiles \in Nat

VARIABLES
    files,      \* files read so far, the one being read included
    reading,    \* a file is being read
    sec,        \* the section its entries stand in
    item,       \* what the fields read now belong to
    given,      \* the fields the file gives each unit
    named,      \* the units it has named
    tidy,       \* no item of any file stood outside a section, and the files
                \* before this one ended all the items they named
    ended       \* the units whose last field so far is Scale

fileVars == <<files, reading, sec, item, given, named, ended, tidy>>

FileInit ==
    /\ files = 0 /\ reading = FALSE
    /\ sec = NoSection /\ item = NoItem
    /\ given = [u \in Units |-> ZeroGroup]
    /\ named = {} /\ ended = {} /\ tidy = TRUE

BeginFile ==
    /\ ~reading /\ files < MaxFiles
    /\ files' = files + 1
    /\ reading' = TRUE
    /\ sec' = NoSection /\ item' = NoItem
    /\ given' = [u \in Units |-> ZeroGroup]
    /\ named' = {} /\ ended' = {}
    /\ UNCHANGED tidy

SectionKey(s) ==
    /\ reading
    /\ sec' = s /\ item' = NoItem
    /\ UNCHANGED <<files, reading, given, named, ended, tidy>>

\* A key appears once in its mapping.
ItemKey(n) ==
    /\ reading /\ <<sec, n>> \notin named
    /\ IF <<sec, n>> \in Units
       THEN item' = <<sec, n>> /\ named' = named \cup {<<sec, n>>}
       ELSE item' = Foreign /\ UNCHANGED named
    /\ tidy' = (tidy /\ sec # NoSection)
    /\ UNCHANGED <<files, reading, sec, given, ended>>

Field(f, v) ==
    /\ reading
    /\ \/ /\ item \in Units /\ given[item][f] = Zero
          /\ given' = [given EXCEPT ![item][f] = v]
          /\ ended' = IF f = "Scale" THEN ended \cup {item} ELSE ended \ {item}
       \/ item = Foreign /\ UNCHANGED <<given, ended>>
    /\ UNCHANGED <<files, reading, sec, item, named, tidy>>

\* Each item the file has named ends with its Scale.
AllEnded == named = ended

EndFile ==
    /\ reading
    /\ reading' = FALSE
    /\ tidy' = (tidy /\ AllEnded)
    /\ UNCHANGED <<files, sec, item, given, named, ended>>

\* A file the list names and that can not be opened says nothing.
AbsentFile ==
    /\ ~reading /\ files < MaxFiles
    /\ files' = files + 1
    /\ UNCHANGED <<reading, sec, item, given, named, ended, tidy>>
==============================================================================
