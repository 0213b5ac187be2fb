----------------------------- MODULE PlayerData -----------------------------
(***************************************************************************)
(* Characters and accounts: the playerdata files of tw1mp/database.py, the *)
(* commands of the game that fetch and save them (tw1mp/commands.py), the  *)
(* editing in the panel and in the dashboard (tw1mp/gui.py, tw1mp/web.py), *)
(* and the deletion of characters and accounts.                            *)
(*                                                                         *)
(* A file belongs to the ROWID of an account, not to its name, and the     *)
(* rowid of a deleted account is given to the next one.  What a file holds *)
(* is abstracted to whose it is - of the account that has the rowid now or *)
(* of an earlier one - and to whether the administrator edited it.         *)
(* A database operation is one hold of its lock and one step.              *)
(***************************************************************************)
EXTENDS Naturals, FiniteSets, FiniteSetsExt

CONSTANTS
  Names, Forms, Slots,
  DefaultForm,        \* savegame.DEFAULT_FORM, the form the panel works on
  NoName, NoForm, NoSlot,   \* None
  MaxRow,             \* bound: rowids in use
  Watched,            \* bound: names that fetch, save and are administered; the
                      \* others come and go, and get the rows of deleted accounts
  Kept,               \* bound: forms that are saved and edited; the others are
                      \* only fetched
  MaxSlots,           \* bound: save slots in use at a time, leftover ones included
  Editors,            \* "panel", "dashboard": which of them edit
  Hazards             \* what a run lets happen: see SgRead and DeleteAccount

ASSUME PlayerDataAssumption ==
  /\ DefaultForm \in Kept /\ Kept \subseteq Forms /\ NoForm \notin Forms
  /\ NoName \notin Names /\ NoSlot \notin Slots
  /\ MaxRow \in Nat \ {0} /\ MaxSlots \in Nat /\ Watched \subseteq Names
  /\ Editors \subseteq {"panel", "dashboard"}
  /\ Hazards \subseteq {"leftover", "overtaken"}

VARIABLES
  rowid,       \* userTable: name -> rowid, 0 without an account
  original,    \* PlayerData/userID_formID.bin
  modded,      \* PlayerData/userID_formID.modded.bin
  snapshots,   \* PlayerData/snapshots/userID/: the panel's save slots
  place,       \* a name is offline, reserved by a login, in the lobby
  useModded,   \* con.use_modded
  asking,      \* the /getplayerdata command under way, and the form last fetched
  hero,        \* client side: the characters it has, by form
  strayed,     \* history: forms saved by a session that had fetched another since
  editing,     \* an edit of the panel or of the dashboard under way
  activating,  \* a slot the panel has read to activate it
  deleting     \* the account the panel asks about deleting

fileVars == << original, modded, snapshots >>
sessionVars == << place, useModded, asking, hero, strayed >>
panelVars == << editing, activating, deleting >>
vars == << rowid, fileVars, sessionVars, panelVars >>

Rows == 1 .. MaxRow

Characters == [of : {"nobody", "owner", "earlier"}, edited : BOOLEAN]

(* No file and an empty file are the same to all who read a character; an  *)
(* empty slot is not a missing slot.                                       *)
Empty == [of |-> "nobody", edited |-> FALSE]
Absent == [of |-> "absent", edited |-> FALSE]

(* What the game makes of an empty answer; also what is imported.          *)
Fresh == [of |-> "owner", edited |-> FALSE]

NotAsking == [step |-> "no", form |-> NoForm]
NoHero == [f \in Forms |-> Empty]
NotEditing == [step |-> "no", name |-> NoName, form |-> NoForm, variant |-> FALSE,
               character |-> Empty]
NotActivating == [name |-> NoName, character |-> Empty]

TypeOK ==
  /\ rowid \in [Names -> 0 .. MaxRow]
  /\ original \in [Rows -> [Forms -> Characters]]
  /\ modded \in [Rows -> [Forms -> Characters]]
  /\ snapshots \in [Rows -> [Slots -> Characters \cup {Absent}]]
  /\ place \in [Names -> {"offline", "reserved", "lobby"}]
  /\ useModded \in [Names -> BOOLEAN]
  /\ asking \in [Names -> [step : {"no", "alone", "company", "chosen"},
                           form : Forms \cup {NoForm}]]
  /\ hero \in [Names -> [Forms -> Characters]]
  /\ strayed \subseteq Forms
  /\ editing \in [Editors -> [step : {"no", "looked", "read"}, name : Names \cup {NoName},
                              form : Forms \cup {NoForm}, variant : BOOLEAN,
                              character : Characters]]
  /\ activating \in [name : Names \cup {NoName}, character : Characters]
  /\ deleting \in Names \cup {NoName}

Init ==
  /\ rowid = [n \in Names |-> 0]
  /\ original = [r \in Rows |-> [f \in Forms |-> Empty]]
  /\ modded = [r \in Rows |-> [f \in Forms |-> Empty]]
  /\ snapshots = [r \in Rows |-> [s \in Slots |-> Absent]]
  /\ place = [n \in Names |-> "offline"]
  /\ useModded = [n \in Names |-> FALSE]
  /\ asking = [n \in Names |-> NotAsking]
  /\ hero = [n \in Names |-> NoHero]
  /\ strayed = {}
  /\ editing = [e \in Editors |-> NotEditing]
  /\ activating = NotActivating
  /\ deleting = NoName

-----------------------------------------------------------------------------
HasAccount(n) == rowid[n] # 0

(* SQLite gives the row of an INSERT the greatest rowid in use plus one.   *)
NextRow == 1 + Max({rowid[n] : n \in Names})

(* db.has_modded_playerdata                                                *)
HasModded(n, f) == HasAccount(n) /\ modded[rowid[n]][f] # Empty

(* db.get_playerdata                                                       *)
Get(n, f, variant) ==
  IF ~HasAccount(n) THEN Empty
  ELSE IF variant THEN modded[rowid[n]][f] ELSE original[rowid[n]][f]

(* db.set_playerdata: nothing for an unknown user.                         *)
Store(n, f, c, variant) ==
  /\ original' = IF HasAccount(n) /\ ~variant THEN [original EXCEPT ![rowid[n]][f] = c]
                 ELSE original
  /\ modded' = IF HasAccount(n) /\ variant THEN [modded EXCEPT ![rowid[n]][f] = c]
               ELSE modded

(* Deletes the modified variant: db.delete_modded_playerdata               *)
DropModded(n, f) ==
  modded' = IF HasAccount(n) THEN [modded EXCEPT ![rowid[n]][f] = Empty] ELSE modded

(* Whatever is left of an account that is deleted is of an earlier one.    *)
Aged(c) == IF c.of = "owner" THEN [c EXCEPT !.of = "earlier"] ELSE c

(* The files of the row when its account is deleted; mutant: the modified  *)
(* variants are forgotten.                                                 *)
ModdedForgotten(file, r) ==
  [file EXCEPT ![r] = [f \in Forms |-> IF file[r][f].edited THEN Aged(file[r][f]) ELSE Empty]]

FilesOf(file, r) == [file EXCEPT ![r] = [f \in Forms |-> Empty]]

-----------------------------------------------------------------------------
(* A name that is not in use registers and its login goes on.              *)
Register(n) ==
  /\ place[n] = "offline"
  /\ ~HasAccount(n)
  /\ NextRow \in Rows
  /\ rowid' = [rowid EXCEPT ![n] = NextRow]
  /\ place' = [place EXCEPT ![n] = "reserved"]
  /\ UNCHANGED << fileVars, useModded, asking, hero, strayed, panelVars >>

Login(n) ==
  /\ place[n] = "offline"
  /\ HasAccount(n)
  /\ place' = [place EXCEPT ![n] = "reserved"]
  /\ UNCHANGED << rowid, fileVars, useModded, asking, hero, strayed, panelVars >>

Enter(n) ==
  /\ place[n] = "reserved"
  /\ place' = [place EXCEPT ![n] = "lobby"]
  /\ UNCHANGED << rowid, fileVars, useModded, asking, hero, strayed, panelVars >>

(* The next session of the name is another connection.                     *)
Leave(n) ==
  /\ place[n] = "lobby"
  /\ place' = [place EXCEPT ![n] = "offline"]
  /\ useModded' = [useModded EXCEPT ![n] = FALSE]
  /\ asking' = [asking EXCEPT ![n] = NotAsking]
  /\ hero' = [hero EXCEPT ![n] = NoHero]
  /\ UNCHANGED << rowid, fileVars, strayed, panelVars >>

(* /getplayerdata, first whether the player is alone, under the lock of    *)
(* the lobby; names being logged in count, the admin bot does not.         *)
Fetch(n, f) ==
  /\ place[n] = "lobby"
  /\ asking[n].step = "no"
  /\ LET humans == {m \in Names : place[m] # "offline"}
     IN  asking' = [asking EXCEPT ![n] =
           [step |-> IF Cardinality(humans) = 1 THEN "alone" ELSE "company", form |-> f]]
  /\ UNCHANGED << rowid, fileVars, place, useModded, hero, strayed, panelVars >>

(* then whether there is a modified variant.                               *)
Choose(n) ==
  /\ asking[n].step \in {"alone", "company"}
  /\ useModded' = [useModded EXCEPT ![n] =
       asking[n].step = "alone" /\ HasModded(n, asking[n].form)]
  /\ asking' = [asking EXCEPT ![n].step = "chosen"]
  /\ UNCHANGED << rowid, fileVars, place, hero, strayed, panelVars >>

(* then the file is read and sent.                                         *)
Serve(n) ==
  /\ asking[n].step = "chosen"
  /\ LET f == asking[n].form
     IN  hero' = [hero EXCEPT ![n][f] = Get(n, f, useModded[n])]
  /\ asking' = [asking EXCEPT ![n].step = "no"]
  /\ UNCHANGED << rowid, fileVars, place, useModded, strayed, panelVars >>

(* /setplayerdata: the game saves its character of any form, or a new one, *)
(* where the last fetch of whatever form decided.  Mutant: always as the   *)
(* original.                                                               *)
Played(c) == IF c = Empty THEN Fresh ELSE c

Saved(n, f, variant) ==
  /\ place[n] = "lobby" /\ asking[n].step = "no"
  /\ Store(n, f, Played(hero[n][f]), variant)
  /\ hero' = [hero EXCEPT ![n][f] = Played(hero[n][f])]
  /\ strayed' = IF asking[n].form \in {f, NoForm} THEN strayed ELSE strayed \cup {f}
  /\ UNCHANGED << rowid, snapshots, place, useModded, asking, panelVars >>

SaveOriginal(n, f) == Saved(n, f, FALSE)

Save(n, f) == Saved(n, f, useModded[n])

-----------------------------------------------------------------------------
(* The panel is one thread and its dialogs are modal.                      *)
PanelIdle ==
  /\ "panel" \in Editors => editing["panel"] = NotEditing
  /\ activating = NotActivating
  /\ deleting = NoName

(* An edit asks whether there is a variant, reads it or the original, and  *)
(* stores the variant.  The panel shows a dialog before it stores.         *)
Look(e, n, f) ==
  /\ editing[e] = NotEditing
  /\ HasAccount(n)
  /\ editing' = [editing EXCEPT ![e] =
       [step |-> "looked", name |-> n, form |-> f, variant |-> HasModded(n, f),
        character |-> Empty]]
  /\ UNCHANGED << rowid, fileVars, sessionVars, activating, deleting >>

EditItems(n) == "panel" \in Editors /\ PanelIdle /\ Look("panel", n, DefaultForm)

AdminItem(n, f) == "dashboard" \in Editors /\ Look("dashboard", n, f)

EditRead(e) ==
  /\ editing[e].step = "looked"
  /\ LET c == Get(editing[e].name, editing[e].form, editing[e].variant)
     IN  editing' = [editing EXCEPT ![e] =
           IF c = Empty THEN NotEditing ELSE [@ EXCEPT !.step = "read", !.character = c]]
  /\ UNCHANGED << rowid, fileVars, sessionVars, activating, deleting >>

StoreEdit(e) ==
  /\ editing[e].step = "read"
  /\ Store(editing[e].name, editing[e].form,
           [editing[e].character EXCEPT !.edited = TRUE], TRUE)
  /\ editing' = [editing EXCEPT ![e] = NotEditing]
  /\ UNCHANGED << rowid, snapshots, sessionVars, activating, deleting >>

SaveModifiedCharacter == "panel" \in Editors /\ StoreEdit("panel")

AdminItemStore == "dashboard" \in Editors /\ StoreEdit("dashboard")

(* "Remove modified character", or the editor is just closed.              *)
RemoveModifiedCharacter ==
  /\ "panel" \in Editors /\ editing["panel"].step = "read"
  /\ \/ DropModded(editing["panel"].name, DefaultForm)
     \/ UNCHANGED modded
  /\ editing' = [editing EXCEPT !["panel"] = NotEditing]
  /\ UNCHANGED << rowid, original, snapshots, sessionVars, activating, deleting >>

(* admin/character/revert                                                  *)
Revert(n, f) ==
  /\ HasModded(n, f)
  /\ DropModded(n, f)
  /\ UNCHANGED << rowid, original, snapshots, sessionVars, panelVars >>

(* savegame.import_playerdata; what it reads before and after the store,   *)
(* for the backup and for verification, changes nothing.                   *)
ImportPlayerdata(n) ==
  /\ HasAccount(n)
  /\ Store(n, DefaultForm, Fresh, FALSE)
  /\ UNCHANGED << rowid, snapshots, sessionVars, panelVars >>

(* A download ends: a timer of the panel imports it, also under a dialog.  *)
Fetched(n) == ImportPlayerdata(n)

ImportFile(n) == PanelIdle /\ ImportPlayerdata(n)

(* db.delete_playerdata                                                    *)
DeletePlayerdata(n, f) ==
  /\ original' = [original EXCEPT ![rowid[n]][f] = Empty]
  /\ modded' = [modded EXCEPT ![rowid[n]][f] = Empty]

DeleteCharacter(n) ==
  /\ PanelIdle
  /\ HasAccount(n)
  /\ DeletePlayerdata(n, DefaultForm)
  /\ UNCHANGED << rowid, snapshots, sessionVars, panelVars >>

(* gui.delete_account refuses for players, asks, and deletes whatever      *)
(* happened meanwhile; with the hazard also while the dashboard has read   *)
(* the character of the account to edit it.                                *)
AskDelete(n) ==
  /\ PanelIdle
  /\ HasAccount(n) /\ place[n] # "lobby"
  /\ deleting' = n
  /\ UNCHANGED << rowid, fileVars, sessionVars, editing, activating >>

DeleteAccount ==
  /\ deleting # NoName
  /\ "overtaken" \in Hazards \/ \A e \in Editors : editing[e].name # deleting
  /\ LET n == deleting
         r == rowid[n]
     IN  /\ original' = FilesOf(original, r)
         /\ modded' = FilesOf(modded, r)
         /\ snapshots' = [snapshots EXCEPT ![r] = [s \in Slots |-> Aged(snapshots[r][s])]]
         /\ rowid' = [rowid EXCEPT ![n] = 0]
         /\ hero' = [hero EXCEPT ![n] = [f \in Forms |-> Aged(hero[n][f])]]
         /\ editing' = [e \in Editors |-> IF editing[e].name = n
              THEN [editing[e] EXCEPT !.character = Aged(editing[e].character)]
              ELSE editing[e]]
  /\ deleting' = NoName
  /\ UNCHANGED << place, useModded, asking, strayed, activating >>

DeleteCancel ==
  /\ deleting # NoName
  /\ deleting' = NoName
  /\ UNCHANGED << rowid, fileVars, sessionVars, editing, activating >>

-----------------------------------------------------------------------------
(* db.save_snapshot; the name of a slot that exists is written over.       *)
SaveSnapshot(n, s, c) ==
  /\ PanelIdle
  /\ HasAccount(n)
  /\ snapshots' = [snapshots EXCEPT ![rowid[n]][s] = c]
  /\ Cardinality({x \in Rows \X Slots : snapshots'[x[1]][x[2]] # Absent}) <= MaxSlots
  /\ UNCHANGED << rowid, original, modded, sessionVars, panelVars >>

SgSaveCurrent(n, s) ==
  LET c == Get(n, DefaultForm, FALSE) IN c # Empty /\ SaveSnapshot(n, s, c)

SgNew(n, s) == SaveSnapshot(n, s, Empty)

SgImport(n, s) == SaveSnapshot(n, s, Fresh)

(* db.get_snapshot finds the slot.                                         *)
HasSlot(n, s) == HasAccount(n) /\ snapshots[rowid[n]][s] # Absent

SgRename(n, s, t) ==
  /\ PanelIdle
  /\ HasSlot(n, s) /\ ~HasSlot(n, t)
  /\ snapshots' = [snapshots EXCEPT ![rowid[n]][s] = Absent,
                                    ![rowid[n]][t] = snapshots[rowid[n]][s]]
  /\ UNCHANGED << rowid, original, modded, sessionVars, panelVars >>

SgDelete(n, s) ==
  /\ PanelIdle
  /\ HasSlot(n, s)
  /\ snapshots' = [snapshots EXCEPT ![rowid[n]][s] = Absent]
  /\ UNCHANGED << rowid, original, modded, sessionVars, panelVars >>

(* Activation reads the slot - with the hazard also one an earlier account *)
(* of the rowid left -, asks, and makes it the original character.         *)
(* Mutant: a slot that cannot be read is taken for empty.                  *)
SgReadAny(n, s) ==
  /\ PanelIdle
  /\ HasAccount(n)
  /\ activating' = [name |-> n, character |-> snapshots[rowid[n]][s]]
  /\ UNCHANGED << rowid, fileVars, sessionVars, editing, deleting >>

SgRead(n, s) ==
  /\ PanelIdle
  /\ HasSlot(n, s)
  /\ snapshots[rowid[n]][s].of = "earlier" => "leftover" \in Hazards
  /\ activating' = [name |-> n, character |-> snapshots[rowid[n]][s]]
  /\ UNCHANGED << rowid, fileVars, sessionVars, editing, deleting >>

SgActivate ==
  /\ activating # NotActivating
  /\ \/ Store(activating.name, DefaultForm, activating.character, FALSE)
     \/ UNCHANGED << original, modded >>
  /\ activating' = NotActivating
  /\ UNCHANGED << rowid, snapshots, sessionVars, editing, deleting >>

-----------------------------------------------------------------------------
SessionStep(n) ==
  \/ Register(n) \/ Login(n) \/ Enter(n) \/ Leave(n)

GameStep(n) ==
  \/ \E f \in Forms : Fetch(n, f)
  \/ \E f \in Kept : Save(n, f)
  \/ Choose(n) \/ Serve(n)

EditStep ==
  \/ \E n \in Watched : EditItems(n)
  \/ \E n \in Watched, f \in Kept : AdminItem(n, f) \/ Revert(n, f)
  \/ \E e \in Editors : EditRead(e)
  \/ SaveModifiedCharacter \/ AdminItemStore \/ RemoveModifiedCharacter

AccountStep ==
  \/ \E n \in Watched : Fetched(n) \/ ImportFile(n) \/ DeleteCharacter(n) \/ AskDelete(n)
  \/ DeleteAccount \/ DeleteCancel

SlotStep ==
  \/ \E n \in Watched, s \in Slots :
       SgSaveCurrent(n, s) \/ SgNew(n, s) \/ SgImport(n, s) \/ SgDelete(n, s) \/ SgRead(n, s)
  \/ \E n \in Watched, s, t \in Slots : SgRename(n, s, t)
  \/ SgActivate

Next ==
  \/ EditStep \/ AccountStep \/ SlotStep
  \/ \E n \in Names : SessionStep(n)
  \/ \E n \in Watched : GameStep(n)

Spec == Init /\ [][Next]_vars

-----------------------------------------------------------------------------
(* An edited character never becomes the original, on any way through the  *)
(* game, the panel, the dashboard and the save slots ("the original file   *)
(* is never written", gui.py:1907) - in a form that games save only while  *)
(* it is the one they fetched last.                                        *)
OriginalUntouched ==
  /\ \A r \in Rows, f \in Forms \ strayed : ~original[r][f].edited
  /\ DefaultForm \notin strayed => \A r \in Rows, s \in Slots : ~snapshots[r][s].edited

(* Not so: "a later save can never overwrite the original"                 *)
(* (commands.py:281-282).  The choice is the connection's, not the form's: *)
(* a game that received an edited character and then asks for another form *)
(* saves the edited one over the original.                                 *)
OriginalAlwaysUntouched == \A r \in Rows, f \in Forms : ~original[r][f].edited

(* An account never has a character of an earlier account, though rowids   *)
(* are used again and files are named after them (database.py:325-349);    *)
(* nor does a session that outlives its account write into the next one.   *)
NothingInherited ==
  \A r \in Rows, f \in Forms : "earlier" \notin {original[r][f].of, modded[r][f].of}

(* The account goes with "ALL its saves" (gui.py:1545).                    *)
SlotsGoToo ==
  \A r \in Rows, s \in Slots : snapshots[r][s].of # "earlier"
=============================================================================
