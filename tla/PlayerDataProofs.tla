-------------------------- MODULE PlayerDataProofs --------------------------
(***************************************************************************)
(* Proofs about PlayerData, for any accounts, forms and save slots: an     *)
(* edited character stays out of the original files, a rowid is one        *)
(* account's at a time, and no account gets the characters of another.     *)
(***************************************************************************)
EXTENDS PlayerData, WellFoundedInduction, TLAPS

(* What the game has of the form it fetched last, while it is to save into *)
(* the original, is not an edited character.                               *)
HeroesClean ==
  \A n \in Names, f \in Forms \ strayed :
    (asking[n].step = "no" /\ ~useModded[n] /\ asking[n].form \in {f, NoForm})
      => ~hero[n][f].edited

ActivatingClean == DefaultForm \notin strayed => ~activating.character.edited

(* What is under way is about a known name and form.                       *)
Known ==
  /\ \A n \in Names : asking[n].step # "no" => asking[n].form \in Forms
  /\ \A e \in Editors : editing[e].step # "no" => editing[e].name \in Names /\ editing[e].form \in Forms
  /\ activating # NotActivating => activating.name \in Names

DataTypes == TypeOK /\ Known

DataInv == DataTypes /\ OriginalUntouched /\ HeroesClean /\ ActivatingClean

(* The files after a store, and what was read before.                      *)
LEMMA StoreTypes ==
  ASSUME TypeOK, NEW n \in Names, NEW f \in Forms, NEW c \in Characters, NEW variant \in BOOLEAN,
         Store(n, f, c, variant)
  PROVE  /\ original' \in [Rows -> [Forms -> Characters]]
         /\ modded' \in [Rows -> [Forms -> Characters]]
<1>1. HasAccount(n) => rowid[n] \in Rows
  BY PlayerDataAssumption DEF TypeOK, HasAccount, Rows
<1> QED BY <1>1 DEF TypeOK, Store

LEMMA GetTypes ==
  ASSUME TypeOK, NEW n \in Names, NEW f \in Forms, NEW variant \in BOOLEAN
  PROVE  Get(n, f, variant) \in Characters
<1>1. HasAccount(n) => rowid[n] \in Rows
  BY PlayerDataAssumption DEF TypeOK, HasAccount, Rows
<1> QED BY <1>1 DEF TypeOK, Get, Empty, Characters

LEMMA CharacterTypes ==
  /\ Empty \in Characters /\ Fresh \in Characters
  /\ \A c \in Characters : /\ Aged(c) \in Characters /\ Played(c) \in Characters
                           /\ [c EXCEPT !.edited = TRUE] \in Characters
  /\ Aged(Absent) = Absent
  /\ Absent \notin Characters
BY DEF Empty, Fresh, Absent, Aged, Played, Characters

LEMMA HeldTypes ==
  ASSUME TypeOK
  PROVE  /\ \A n \in Names, f \in Forms : hero[n][f] \in Characters
         /\ \A e \in Editors : editing[e].character \in Characters
BY DEF TypeOK

LEMMA RowTypes ==
  ASSUME TypeOK, NEW n \in Names, HasAccount(n)
  PROVE  rowid[n] \in Rows
BY PlayerDataAssumption DEF TypeOK, HasAccount, Rows

-----------------------------------------------------------------------------
LEMMA InitData == Init => DataInv
<1> SUFFICES ASSUME Init PROVE DataInv
  OBVIOUS
<1>1. DataTypes
  BY PlayerDataAssumption DEF Init, DataTypes, Known, TypeOK, Empty, Absent, Characters, NotAsking, NoHero, NotEditing,
     NotActivating
<1>2. OriginalUntouched /\ HeroesClean /\ ActivatingClean
  BY DEF Init, OriginalUntouched, HeroesClean, ActivatingClean, Empty, Absent, NoHero, NotActivating
<1> QED BY <1>1, <1>2 DEF DataInv

-----------------------------------------------------------------------------
(* Types.                                                                  *)
LEMMA SessionTypes ==
  ASSUME DataTypes, NEW n \in Names, SessionStep(n)
  PROVE  DataTypes'
<1> USE DEF DataTypes
<1>1. CASE Register(n)
  BY <1>1 DEF Register, TypeOK, Known, Rows, fileVars, panelVars
<1>2. CASE Login(n) \/ Enter(n)
  BY <1>2 DEF Login, Enter, TypeOK, Known, fileVars, panelVars
<1>3. CASE Leave(n)
  BY <1>3, CharacterTypes DEF Leave, TypeOK, Known, fileVars, panelVars, NotAsking, NoHero
<1> QED BY <1>1, <1>2, <1>3 DEF SessionStep

LEMMA GameTypes ==
  ASSUME DataTypes, NEW n \in Names, GameStep(n)
  PROVE  DataTypes'
<1> USE DEF DataTypes
<1>1. ASSUME NEW f \in Forms, Fetch(n, f) PROVE DataTypes'
  <2>1. PICK step \in {"alone", "company"} :
          asking' = [asking EXCEPT ![n] = [step |-> step, form |-> f]]
    BY <1>1 DEF Fetch
  <2> QED BY <1>1, <2>1 DEF Fetch, TypeOK, Known, fileVars, panelVars
<1>2. CASE Choose(n)
  BY <1>2 DEF Choose, TypeOK, Known, fileVars, panelVars
<1>3. CASE Serve(n)
  <2> DEFINE f == asking[n].form
             c == Get(n, f, useModded[n])
  <2>1. c \in Characters /\ f \in Forms
    BY <1>3, GetTypes DEF Serve, TypeOK, Known
  <2>2. hero' = [hero EXCEPT ![n][f] = c]
    BY <1>3 DEF Serve
  <2> HIDE DEF c, f
  <2>a. hero' \in [Names -> [Forms -> Characters]]
    <3>1. hero[n] \in [Forms -> Characters]
      BY DEF TypeOK
    <3>2. [hero[n] EXCEPT ![f] = c] \in [Forms -> Characters]
      BY <2>1, <3>1
    <3> QED BY <2>2, <3>2 DEF TypeOK
  <2>b. asking' \in [Names -> [step : {"no", "alone", "company", "chosen"},
                              form : Forms \cup {NoForm}]]
    BY <1>3 DEF Serve, TypeOK
  <2>3. TypeOK'
    BY <1>3, <2>a, <2>b DEF Serve, TypeOK, fileVars, panelVars
  <2>4. Known'
    BY <1>3 DEF Serve, TypeOK, Known, fileVars, panelVars
  <2> QED BY <2>3, <2>4
<1>4. ASSUME NEW f \in Forms, Save(n, f) PROVE DataTypes'
  <2>1. Played(hero[n][f]) \in Characters
    BY CharacterTypes, HeldTypes
  <2>2. original' \in [Rows -> [Forms -> Characters]] /\ modded' \in [Rows -> [Forms -> Characters]]
    BY <1>4, <2>1, StoreTypes DEF Save, Saved, TypeOK
  <2>3. hero' = [hero EXCEPT ![n][f] = Played(hero[n][f])]
    BY <1>4 DEF Save, Saved
  <2>4. TypeOK'
    BY <1>4, <2>1, <2>2, <2>3 DEF Save, Saved, TypeOK, panelVars
  <2>5. Known'
    BY <1>4 DEF Save, Saved, TypeOK, Known, panelVars
  <2> QED BY <2>4, <2>5
<1> QED BY <1>1, <1>2, <1>3, <1>4, PlayerDataAssumption DEF GameStep

LEMMA EditTypes ==
  ASSUME DataTypes, EditStep, Watched \subseteq Names
  PROVE  DataTypes'
<1> USE DEF DataTypes
<1>1. ASSUME NEW e \in Editors, NEW n \in Names, NEW f \in Forms, Look(e, n, f) PROVE DataTypes'
  <2>1. HasModded(n, f) \in BOOLEAN /\ Empty \in Characters
    BY CharacterTypes DEF HasModded
  <2>2. editing' = [editing EXCEPT ![e] = [step |-> "looked", name |-> n, form |-> f,
                                           variant |-> HasModded(n, f), character |-> Empty]]
    BY <1>1 DEF Look
  <2>3. TypeOK'
    BY <1>1, <2>1, <2>2 DEF Look, TypeOK, fileVars, sessionVars
  <2>4. Known'
    BY <1>1, <2>1, <2>2 DEF Look, TypeOK, Known, fileVars, sessionVars
  <2> QED BY <2>3, <2>4
<1>2. ASSUME NEW e \in Editors, EditRead(e) PROVE DataTypes'
  <2> DEFINE c == Get(editing[e].name, editing[e].form, editing[e].variant)
  <2>1. c \in Characters
    BY <1>2, GetTypes DEF EditRead, TypeOK, Known
  <2>2. editing' = [editing EXCEPT ![e] = NotEditing]
        \/ editing' = [editing EXCEPT ![e] = [editing[e] EXCEPT !.step = "read", !.character = c]]
    BY <1>2 DEF EditRead, TypeOK
  <2> HIDE DEF c
  <2> DEFINE Edits == [step : {"no", "looked", "read"}, name : Names \cup {NoName},
                       form : Forms \cup {NoForm}, variant : BOOLEAN, character : Characters]
  <2>a. NotEditing \in Edits /\ [editing[e] EXCEPT !.step = "read", !.character = c] \in Edits
    <3>1. editing[e] \in Edits /\ Empty \in Characters
      BY <1>2, CharacterTypes DEF TypeOK
    <3> QED BY <2>1, <3>1 DEF NotEditing
  <2>b. editing' \in [Editors -> Edits]
    BY <2>2, <2>a DEF TypeOK
  <2>3. TypeOK'
    BY <1>2, <2>b DEF EditRead, TypeOK, fileVars, sessionVars
  <2>4. Known'
    BY <1>2, <2>1, <2>2 DEF EditRead, TypeOK, Known, NotEditing, fileVars, sessionVars
  <2> QED BY <2>3, <2>4
<1>3. ASSUME NEW e \in Editors, StoreEdit(e) PROVE DataTypes'
  <2>1. [editing[e].character EXCEPT !.edited = TRUE] \in Characters
    BY CharacterTypes DEF TypeOK
  <2>2. original' \in [Rows -> [Forms -> Characters]] /\ modded' \in [Rows -> [Forms -> Characters]]
    BY <1>3, <2>1, StoreTypes DEF StoreEdit, TypeOK, Known
  <2>3. TypeOK'
    BY <1>3, <2>2, CharacterTypes DEF StoreEdit, TypeOK, NotEditing, sessionVars
  <2>4. Known'
    BY <1>3 DEF StoreEdit, TypeOK, Known, NotEditing, sessionVars
  <2> QED BY <2>3, <2>4
<1>4. CASE RemoveModifiedCharacter
  <2>1. modded' \in [Rows -> [Forms -> Characters]]
    <3>1. editing["panel"].name \in Names
      BY <1>4 DEF RemoveModifiedCharacter, Known
    <3>2. CASE modded' = modded
      BY <3>2 DEF TypeOK
    <3>3. CASE DropModded(editing["panel"].name, DefaultForm)
      BY <3>1, <3>3, RowTypes, CharacterTypes DEF DropModded, TypeOK
    <3> QED BY <1>4, <3>2, <3>3 DEF RemoveModifiedCharacter
  <2>2. TypeOK'
    BY <1>4, <2>1, CharacterTypes DEF RemoveModifiedCharacter, TypeOK, NotEditing, sessionVars
  <2>3. Known'
    BY <1>4 DEF RemoveModifiedCharacter, TypeOK, Known, NotEditing, sessionVars
  <2> QED BY <2>2, <2>3
<1>5. ASSUME NEW n \in Names, NEW f \in Forms, Revert(n, f) PROVE DataTypes'
  BY <1>5, CharacterTypes DEF Revert, DropModded, TypeOK, Known, sessionVars, panelVars
<1>6. ASSUME NEW n \in Watched, EditItems(n) PROVE DataTypes'
  BY <1>1, <1>6, PlayerDataAssumption DEF EditItems
<1>7. ASSUME NEW n \in Watched, NEW f \in Forms, AdminItem(n, f) PROVE DataTypes'
  BY <1>1, <1>7 DEF AdminItem
<1>8. CASE SaveModifiedCharacter \/ AdminItemStore
  BY <1>3, <1>8 DEF SaveModifiedCharacter, AdminItemStore
<1> HIDE DEF DataTypes
<1> QED BY <1>2, <1>4, <1>5, <1>6, <1>7, <1>8, PlayerDataAssumption DEF EditStep

LEMMA AccountTypes ==
  ASSUME DataTypes, AccountStep, Watched \subseteq Names
  PROVE  DataTypes'
<1> USE DEF DataTypes
<1>1. ASSUME NEW n \in Names, ImportPlayerdata(n) PROVE DataTypes'
  <2>1. original' \in [Rows -> [Forms -> Characters]] /\ modded' \in [Rows -> [Forms -> Characters]]
    BY <1>1, StoreTypes, CharacterTypes, PlayerDataAssumption DEF ImportPlayerdata
  <2> QED BY <1>1, <2>1 DEF ImportPlayerdata, TypeOK, Known, sessionVars, panelVars
<1>2. ASSUME NEW n \in Names, DeleteCharacter(n) PROVE DataTypes'
  BY <1>2, CharacterTypes DEF DeleteCharacter, DeletePlayerdata, TypeOK, Known, sessionVars, panelVars
<1>3. ASSUME NEW n \in Names, AskDelete(n) PROVE DataTypes'
  BY <1>3 DEF AskDelete, TypeOK, Known, fileVars, sessionVars
<1>4. CASE DeleteCancel
  BY <1>4 DEF DeleteCancel, TypeOK, Known, fileVars, sessionVars
<1>5. CASE DeleteAccount
  <2>0. deleting \in Names
    BY <1>5 DEF DeleteAccount, TypeOK
  <2>1. original' \in [Rows -> [Forms -> Characters]] /\ modded' \in [Rows -> [Forms -> Characters]]
    BY <1>5, CharacterTypes DEF DeleteAccount, FilesOf, TypeOK
  <2>2. snapshots' \in [Rows -> [Slots -> Characters \cup {Absent}]]
    <3>1. ASSUME NEW c \in Characters \cup {Absent} PROVE Aged(c) \in Characters \cup {Absent}
      BY <3>1, CharacterTypes
    <3>2. snapshots' = [snapshots EXCEPT ![rowid[deleting]] =
                          [s \in Slots |-> Aged(snapshots[rowid[deleting]][s])]]
      BY <1>5 DEF DeleteAccount
    <3>3. rowid[deleting] \in Rows =>
            [s \in Slots |-> Aged(snapshots[rowid[deleting]][s])] \in [Slots -> Characters \cup {Absent}]
      BY <3>1 DEF TypeOK
    <3> QED BY <3>2, <3>3 DEF TypeOK
  <2>3. hero' \in [Names -> [Forms -> Characters]]
    <3>1. [f \in Forms |-> Aged(hero[deleting][f])] \in [Forms -> Characters]
      BY <2>0, CharacterTypes, HeldTypes
    <3> QED BY <1>5, <3>1 DEF DeleteAccount, TypeOK
  <2>4. editing' \in [Editors -> [step : {"no", "looked", "read"}, name : Names \cup {NoName},
                                  form : Forms \cup {NoForm}, variant : BOOLEAN, character : Characters]]
    <3> DEFINE now(e) == IF editing[e].name = deleting
                         THEN [editing[e] EXCEPT !.character = Aged(editing[e].character)]
                         ELSE editing[e]
    <3>1. editing' = [e \in Editors |-> now(e)]
      BY <1>5 DEF DeleteAccount
    <3>2. ASSUME NEW e \in Editors
          PROVE now(e) \in [step : {"no", "looked", "read"}, name : Names \cup {NoName},
                            form : Forms \cup {NoForm}, variant : BOOLEAN, character : Characters]
      <4>1. Aged(editing[e].character) \in Characters
        BY CharacterTypes, HeldTypes
      <4>2. editing[e] \in [step : {"no", "looked", "read"}, name : Names \cup {NoName},
                            form : Forms \cup {NoForm}, variant : BOOLEAN, character : Characters]
        BY DEF TypeOK
      <4> QED BY <4>1, <4>2
    <3> HIDE DEF now
    <3> QED BY <3>1, <3>2
  <2>5. TypeOK'
    <3>1. rowid' \in [Names -> 0 .. MaxRow] /\ deleting' \in Names \cup {NoName}
      BY <1>5, PlayerDataAssumption DEF DeleteAccount, TypeOK
    <3>2. UNCHANGED << place, useModded, asking, strayed, activating >>
      BY <1>5 DEF DeleteAccount
    <3> QED BY <2>1, <2>2, <2>3, <2>4, <3>1, <3>2 DEF TypeOK
  <2>7. \A e \in Editors : /\ editing'[e].step = editing[e].step
                           /\ editing'[e].name = editing[e].name
                           /\ editing'[e].form = editing[e].form
    BY <1>5 DEF DeleteAccount, TypeOK
  <2>8. Known'
    BY <1>5, <2>7 DEF DeleteAccount, Known
  <2> QED BY <2>5, <2>8
<1> HIDE DEF DataTypes
<1> QED BY <1>1, <1>2, <1>3, <1>4, <1>5 DEF AccountStep, Fetched, ImportFile

LEMMA SlotTypes ==
  ASSUME DataTypes, SlotStep, Watched \subseteq Names
  PROVE  DataTypes'
<1> USE DEF DataTypes
<1>1. ASSUME NEW n \in Names, NEW s \in Slots, NEW c \in Characters, SaveSnapshot(n, s, c)
      PROVE DataTypes'
  BY <1>1 DEF SaveSnapshot, TypeOK, Known, sessionVars, panelVars
<1>2. ASSUME NEW n \in Names, NEW s \in Slots, SgSaveCurrent(n, s) \/ SgNew(n, s) \/ SgImport(n, s)
      PROVE DataTypes'
  <2>1. Get(n, DefaultForm, FALSE) \in Characters
    BY GetTypes, PlayerDataAssumption
  <2> QED BY <1>1, <1>2, <2>1, CharacterTypes DEF SgSaveCurrent, SgNew, SgImport
<1>3. ASSUME NEW n \in Names, NEW s \in Slots, SgDelete(n, s) PROVE DataTypes'
  BY <1>3 DEF SgDelete, TypeOK, Known, sessionVars, panelVars
<1>4. ASSUME NEW n \in Names, NEW s \in Slots, NEW t \in Slots, SgRename(n, s, t) PROVE DataTypes'
  <2>1. rowid[n] \in Rows
    BY <1>4, RowTypes DEF SgRename, HasSlot
  <2>2. snapshots' \in [Rows -> [Slots -> Characters \cup {Absent}]]
    <3> DEFINE old == snapshots[rowid[n]]
    <3>1. old \in [Slots -> Characters \cup {Absent}]
      BY <2>1 DEF TypeOK
    <3>2. [old EXCEPT ![s] = Absent, ![t] = old[s]] \in [Slots -> Characters \cup {Absent}]
      BY <3>1
    <3>3. snapshots' = [snapshots EXCEPT ![rowid[n]] = [old EXCEPT ![s] = Absent, ![t] = old[s]]]
      BY <1>4, <2>1 DEF SgRename, TypeOK
    <3> HIDE DEF old
    <3> QED BY <2>1, <3>2, <3>3 DEF TypeOK
  <2> QED BY <1>4, <2>2 DEF SgRename, TypeOK, Known, sessionVars, panelVars
<1>5. ASSUME NEW n \in Names, NEW s \in Slots, SgRead(n, s) PROVE DataTypes'
  <2>1. rowid[n] \in Rows
    BY <1>5, RowTypes DEF SgRead, HasSlot
  <2>2. snapshots[rowid[n]][s] \in Characters
    BY <1>5, <2>1 DEF SgRead, HasSlot, TypeOK
  <2>3. activating' = [name |-> n, character |-> snapshots[rowid[n]][s]]
    BY <1>5 DEF SgRead
  <2> QED BY <1>5, <2>2, <2>3 DEF SgRead, TypeOK, Known, fileVars, sessionVars
<1>6. CASE SgActivate
  <2>1. activating.name \in Names /\ activating.character \in Characters
    BY <1>6 DEF SgActivate, TypeOK, Known
  <2>2. original' \in [Rows -> [Forms -> Characters]] /\ modded' \in [Rows -> [Forms -> Characters]]
    BY <1>6, <2>1, StoreTypes, PlayerDataAssumption DEF SgActivate, TypeOK
  <2> QED BY <1>6, <2>2, CharacterTypes DEF SgActivate, TypeOK, Known, NotActivating, sessionVars
<1> HIDE DEF DataTypes
<1> QED BY <1>2, <1>3, <1>4, <1>5, <1>6 DEF SlotStep

LEMMA NextTypes == DataTypes /\ [Next]_vars => DataTypes'
<1> SUFFICES ASSUME DataTypes, [Next]_vars PROVE DataTypes'
  OBVIOUS
<1>0. Watched \subseteq Names
  BY PlayerDataAssumption
<1>1. CASE EditStep \/ AccountStep \/ SlotStep
  BY <1>0, <1>1, EditTypes, AccountTypes, SlotTypes
<1>2. ASSUME NEW n \in Names, SessionStep(n) PROVE DataTypes'
  BY <1>2, SessionTypes
<1>3. ASSUME NEW n \in Watched, GameStep(n) PROVE DataTypes'
  BY <1>0, <1>3, GameTypes
<1>4. CASE UNCHANGED vars
  BY <1>4 DEF DataTypes, TypeOK, Known, vars, fileVars, sessionVars, panelVars
<1> QED BY <1>1, <1>2, <1>3, <1>4 DEF Next

(* The variables keep their types, whatever is deleted and created again   *)
(* while something of it is under way.                                     *)
THEOREM TypesHold == Spec => []TypeOK
<1>1. Init => DataTypes
  BY InitData DEF DataInv
<1>2. DataTypes => TypeOK
  BY DEF DataTypes
<1> QED BY <1>1, <1>2, NextTypes, PTL DEF Spec

-----------------------------------------------------------------------------
(* Edited characters.                                                      *)
OriginalsClean == \A r \in Rows, f \in Forms \ strayed : ~original[r][f].edited
SlotsClean == DefaultForm \notin strayed => \A r \in Rows, s \in Slots : ~snapshots[r][s].edited

LEMMA CleanParts == OriginalUntouched <=> OriginalsClean /\ SlotsClean
BY DEF OriginalUntouched, OriginalsClean, SlotsClean

LEMMA CleanCharacters ==
  /\ ~Empty.edited /\ ~Fresh.edited /\ ~Absent.edited
  /\ \A f \in Forms : ~NoHero[f].edited
  /\ \A c \in Characters \cup {Absent} : Aged(c).edited = c.edited
  /\ \A c \in Characters : ~c.edited => ~Played(c).edited
BY DEF Empty, Fresh, Absent, NoHero, Aged, Played, Characters

(* A store keeps the originals clean when what goes there is.              *)
LEMMA StoreClean ==
  ASSUME DataTypes, OriginalsClean, NEW n \in Names, NEW f \in Forms, NEW c \in Characters,
         NEW variant \in BOOLEAN, Store(n, f, c, variant), strayed \subseteq strayed',
         ~variant /\ f \notin strayed' => ~c.edited
  PROVE  OriginalsClean'
<1>1. HasAccount(n) => rowid[n] \in Rows
  BY RowTypes DEF DataTypes
<1> QED BY <1>1 DEF DataTypes, TypeOK, Store, OriginalsClean

LEMMA GetClean ==
  ASSUME DataTypes, OriginalsClean, NEW n \in Names, NEW f \in Forms \ strayed
  PROVE  ~Get(n, f, FALSE).edited
<1>1. HasAccount(n) => rowid[n] \in Rows
  BY RowTypes DEF DataTypes
<1> QED BY <1>1, CleanCharacters DEF OriginalsClean, Get

LEMMA SessionClean ==
  ASSUME DataInv, NEW n \in Names, SessionStep(n)
  PROVE  OriginalsClean' /\ SlotsClean' /\ HeroesClean' /\ ActivatingClean'
<1>0. DataTypes /\ OriginalsClean /\ SlotsClean /\ HeroesClean /\ ActivatingClean
  BY CleanParts DEF DataInv
<1>1. UNCHANGED << fileVars, strayed, panelVars >>
  BY DEF SessionStep, Register, Login, Enter, Leave
<1>2. OriginalsClean' /\ SlotsClean' /\ ActivatingClean'
  BY <1>0, <1>1 DEF OriginalsClean, SlotsClean, ActivatingClean, fileVars, panelVars
<1>3. CASE Leave(n)
  BY <1>0, <1>2, <1>3, CleanCharacters DEF Leave, HeroesClean, DataTypes, TypeOK
<1>4. CASE ~Leave(n)
  BY <1>0, <1>2, <1>4 DEF SessionStep, Register, Login, Enter, HeroesClean
<1> QED BY <1>3, <1>4

LEMMA GameClean ==
  ASSUME DataInv, NEW n \in Names, GameStep(n)
  PROVE  OriginalsClean' /\ SlotsClean' /\ HeroesClean' /\ ActivatingClean'
<1>0. DataTypes /\ OriginalsClean /\ SlotsClean /\ HeroesClean /\ ActivatingClean
  BY CleanParts DEF DataInv
<1>1. /\ UNCHANGED << snapshots, activating >>
      /\ strayed \subseteq strayed'
  BY DEF GameStep, Fetch, Choose, Serve, Save, Saved, fileVars, panelVars
<1>2. SlotsClean' /\ ActivatingClean'
  BY <1>0, <1>1 DEF SlotsClean, ActivatingClean
<1>3. ASSUME Choose(n) \/ \E f \in Forms : Fetch(n, f) PROVE OriginalsClean' /\ HeroesClean'
  <2>a. UNCHANGED << original, hero, strayed >>
    BY <1>3 DEF Choose, Fetch, fileVars
  <2>b. ASSUME NEW f \in Forms, Fetch(n, f) PROVE asking'[n].step # "no"
    <3>1. PICK step \in {"alone", "company"} :
            asking' = [asking EXCEPT ![n] = [step |-> step, form |-> f]]
      BY <2>b DEF Fetch
    <3> QED BY <1>0, <3>1 DEF DataTypes, TypeOK
  <2>c. Choose(n) => asking'[n].step # "no"
    BY <1>0 DEF Choose, DataTypes, TypeOK
  <2>1. asking'[n].step # "no" /\ UNCHANGED << original, hero, strayed >>
    BY <1>3, <2>a, <2>b, <2>c
  <2>2. \A m \in Names \ {n} : asking'[m] = asking[m] /\ useModded'[m] = useModded[m]
    BY <1>0, <1>3 DEF Choose, Fetch, DataTypes, TypeOK
  <2> QED BY <1>0, <2>1, <2>2 DEF OriginalsClean, HeroesClean
<1>4. ASSUME Serve(n) PROVE OriginalsClean' /\ HeroesClean'
  <2> DEFINE f == asking[n].form
             c == Get(n, f, useModded[n])
  <2>1. f \in Forms
    BY <1>0, <1>4 DEF Serve, DataTypes, Known
  <2>2. ~useModded[n] /\ f \notin strayed => ~c.edited
    BY <1>0, <2>1, GetClean DEF DataTypes, TypeOK
  <2>3. UNCHANGED << original, strayed, useModded >>
    BY <1>4 DEF Serve, fileVars
  <2>4. hero'[n][f] = c /\ asking'[n].form = f
    BY <1>0, <1>4, <2>1 DEF Serve, DataTypes, TypeOK
  <2>5. \A m \in Names \ {n} : hero'[m] = hero[m] /\ asking'[m] = asking[m]
    BY <1>0, <1>4 DEF Serve, DataTypes, TypeOK
  <2> HIDE DEF c, f
  <2>6. SUFFICES ASSUME NEW m \in Names, NEW g \in Forms \ strayed,
                        asking'[m].step = "no", ~useModded[m], asking'[m].form \in {g, NoForm}
                 PROVE  ~hero'[m][g].edited
    BY <1>0, <2>3 DEF OriginalsClean, HeroesClean
  <2>7. CASE m = n
    <3>1. g = f
      BY <2>1, <2>4, <2>6, <2>7, PlayerDataAssumption
    <3> QED BY <2>2, <2>4, <2>6, <2>7, <3>1
  <2>8. CASE m # n
    BY <1>0, <2>5, <2>6, <2>8 DEF HeroesClean
  <2> QED BY <2>7, <2>8
<1>5. ASSUME NEW f \in Forms, Save(n, f) PROVE OriginalsClean' /\ HeroesClean'
  <2> DEFINE c == hero[n][f]
  <2>1. /\ asking[n].step = "no"
        /\ Store(n, f, Played(c), useModded[n])
        /\ hero' = [hero EXCEPT ![n][f] = Played(c)]
        /\ strayed' = IF asking[n].form \in {f, NoForm} THEN strayed ELSE strayed \cup {f}
        /\ UNCHANGED << useModded, asking >>
    BY <1>5 DEF Save, Saved
  <2>2. c \in Characters /\ Played(c) \in Characters /\ useModded[n] \in BOOLEAN
    BY <1>0, CharacterTypes, HeldTypes DEF DataTypes, TypeOK
  <2>3. ~useModded[n] /\ f \notin strayed' => ~Played(c).edited
    <3>1. SUFFICES ASSUME ~useModded[n], f \notin strayed' PROVE ~c.edited
      BY <2>2, CleanCharacters
    <3>2. asking[n].form \in {f, NoForm} /\ f \notin strayed
      BY <2>1, <3>1
    <3> QED BY <1>0, <2>1, <3>1, <3>2 DEF HeroesClean
  <2>4. OriginalsClean'
    BY <1>0, <1>1, <2>1, <2>2, <2>3, StoreClean
  <2>5. hero'[n][f] = Played(c)
    BY <1>0, <2>1 DEF DataTypes, TypeOK
  <2>6. \A m \in Names, g \in Forms : m # n \/ g # f => hero'[m][g] = hero[m][g]
    BY <1>0, <2>1 DEF DataTypes, TypeOK
  <2> HIDE DEF c
  <2>7. ASSUME NEW m \in Names, NEW g \in Forms \ strayed',
               asking[m].step = "no", ~useModded[m], asking[m].form \in {g, NoForm}
        PROVE  ~hero'[m][g].edited
    <3>1. CASE m = n /\ g = f
      BY <2>3, <2>5, <2>7, <3>1
    <3>2. CASE m # n \/ g # f
      BY <1>0, <1>1, <2>6, <2>7, <3>2 DEF HeroesClean
    <3> QED BY <3>1, <3>2
  <2>8. HeroesClean'
    BY <2>1, <2>7 DEF HeroesClean
  <2> QED BY <2>4, <2>8
<1> QED BY <1>2, <1>3, <1>4, <1>5, PlayerDataAssumption DEF GameStep

LEMMA EditClean ==
  ASSUME DataInv, EditStep
  PROVE  OriginalsClean' /\ SlotsClean' /\ HeroesClean' /\ ActivatingClean'
<1>0. DataTypes /\ OriginalsClean /\ SlotsClean /\ HeroesClean /\ ActivatingClean
  BY CleanParts DEF DataInv
<1>1. UNCHANGED << snapshots, sessionVars, activating >>
  BY DEF EditStep, EditItems, AdminItem, Look, Revert, EditRead, SaveModifiedCharacter, AdminItemStore,
         StoreEdit, RemoveModifiedCharacter, fileVars, panelVars
<1>2. SlotsClean' /\ HeroesClean' /\ ActivatingClean'
  BY <1>0, <1>1 DEF SlotsClean, HeroesClean, ActivatingClean, sessionVars
<1>3. original' = original
  BY DEF EditStep, EditItems, AdminItem, Look, Revert, EditRead, SaveModifiedCharacter, AdminItemStore,
         StoreEdit, Store, RemoveModifiedCharacter, fileVars
<1> QED BY <1>0, <1>1, <1>2, <1>3 DEF OriginalsClean, sessionVars

LEMMA AccountClean ==
  ASSUME DataInv, AccountStep
  PROVE  OriginalsClean' /\ SlotsClean' /\ HeroesClean' /\ ActivatingClean'
<1>0. DataTypes /\ OriginalsClean /\ SlotsClean /\ HeroesClean /\ ActivatingClean
  BY CleanParts DEF DataInv
<1> USE DEF fileVars, sessionVars, panelVars
<1>1. ASSUME NEW n \in Names, ImportPlayerdata(n)
      PROVE OriginalsClean' /\ SlotsClean' /\ HeroesClean' /\ ActivatingClean'
  <2>1. OriginalsClean'
    BY <1>0, <1>1, StoreClean, CharacterTypes, CleanCharacters, PlayerDataAssumption DEF ImportPlayerdata
  <2> QED BY <1>0, <1>1, <2>1 DEF ImportPlayerdata, SlotsClean, HeroesClean, ActivatingClean
<1>2. ASSUME NEW n \in Names, DeleteCharacter(n)
      PROVE OriginalsClean' /\ SlotsClean' /\ HeroesClean' /\ ActivatingClean'
  <2>1. OriginalsClean'
    BY <1>0, <1>2, CleanCharacters
       DEF DeleteCharacter, DeletePlayerdata, OriginalsClean, DataTypes, TypeOK
  <2> QED BY <1>0, <1>2, <2>1 DEF DeleteCharacter, SlotsClean, HeroesClean, ActivatingClean
<1>3. CASE DeleteCancel \/ \E n \in Names : AskDelete(n)
  BY <1>0, <1>3 DEF DeleteCancel, AskDelete, OriginalsClean, SlotsClean, HeroesClean, ActivatingClean
<1>4. CASE DeleteAccount
  <2> DEFINE r == rowid[deleting]
  <2>1. OriginalsClean'
    <3>1. original' = [original EXCEPT ![r] = [f \in Forms |-> Empty]]
      BY <1>4 DEF DeleteAccount, FilesOf
    <3>2. \A q \in Rows, f \in Forms :
            ~original'[q][f].edited \/ original'[q][f] = original[q][f]
      BY <1>0, <3>1, CleanCharacters DEF DataTypes, TypeOK
    <3> QED BY <1>0, <1>4, <3>2 DEF DeleteAccount, OriginalsClean
  <2>2. ASSUME DefaultForm \notin strayed
        PROVE  \A q \in Rows, s \in Slots : ~snapshots'[q][s].edited
    <3>1. snapshots' = [snapshots EXCEPT ![r] = [s \in Slots |-> Aged(snapshots[r][s])]]
      BY <1>4 DEF DeleteAccount
    <3>2. ASSUME r \in Rows, NEW s \in Slots PROVE ~Aged(snapshots[r][s]).edited
      <4>1. snapshots[r][s] \in Characters \cup {Absent} /\ ~snapshots[r][s].edited
        BY <1>0, <2>2, <3>2 DEF SlotsClean, DataTypes, TypeOK
      <4>2. Aged(snapshots[r][s]).edited = snapshots[r][s].edited
        BY <4>1, CleanCharacters
      <4> QED BY <4>1, <4>2
    <3>3. r \in Rows => \A s \in Slots : ~snapshots'[r][s].edited
      BY <1>0, <3>1, <3>2 DEF DataTypes, TypeOK
    <3>4. \A q \in Rows \ {r} : snapshots'[q] = snapshots[q]
      BY <1>0, <3>1 DEF DataTypes, TypeOK
    <3>5. SUFFICES ASSUME NEW q \in Rows, NEW s \in Slots
                   PROVE  ~snapshots'[q][s].edited
      OBVIOUS
    <3>6. CASE q = r
      <4>1. r \in Rows
        BY <3>6
      <4>2. ~snapshots'[r][s].edited
        BY <3>3, <4>1
      <4> QED BY <3>6, <4>2
    <3>7. CASE q # r
      BY <1>0, <2>2, <3>4, <3>7 DEF SlotsClean
    <3> QED BY <3>6, <3>7
  <2>3. HeroesClean'
    <3>1. hero' = [hero EXCEPT ![deleting] = [f \in Forms |-> Aged(hero[deleting][f])]]
      BY <1>4 DEF DeleteAccount
    <3>2. deleting \in Names /\ hero[deleting] \in [Forms -> Characters]
      BY <1>0, <1>4 DEF DeleteAccount, DataTypes, TypeOK
    <3>3. \A f \in Forms : Aged(hero[deleting][f]).edited = hero[deleting][f].edited
      BY <3>2, CleanCharacters
    <3>4. \A m \in Names, f \in Forms : hero'[m][f].edited = hero[m][f].edited
      BY <1>0, <3>1, <3>3 DEF DataTypes, TypeOK
    <3>5. UNCHANGED << asking, useModded, strayed >>
      BY <1>4 DEF DeleteAccount
    <3> QED BY <1>0, <3>4, <3>5 DEF HeroesClean
  <2> QED BY <1>0, <1>4, <2>1, <2>2, <2>3 DEF DeleteAccount, SlotsClean, ActivatingClean
<1> QED
  BY <1>1, <1>2, <1>3, <1>4, PlayerDataAssumption DEF AccountStep, Fetched, ImportFile

LEMMA SlotClean ==
  ASSUME DataInv, SlotStep
  PROVE  OriginalsClean' /\ SlotsClean' /\ HeroesClean' /\ ActivatingClean'
<1>0. DataTypes /\ OriginalsClean /\ SlotsClean /\ HeroesClean /\ ActivatingClean
  BY CleanParts DEF DataInv
<1> USE DEF fileVars, sessionVars, panelVars
<1>a. ASSUME NEW n \in Names, NEW s \in Slots, NEW c \in Characters, SaveSnapshot(n, s, c),
             DefaultForm \notin strayed => ~c.edited
      PROVE OriginalsClean' /\ SlotsClean' /\ HeroesClean' /\ ActivatingClean'
  <2>1. SlotsClean'
    BY <1>0, <1>a DEF SaveSnapshot, SlotsClean, DataTypes, TypeOK
  <2> QED BY <1>0, <1>a, <2>1 DEF SaveSnapshot, OriginalsClean, HeroesClean, ActivatingClean
<1>1. ASSUME NEW n \in Names, NEW s \in Slots, SgSaveCurrent(n, s) \/ SgNew(n, s) \/ SgImport(n, s)
      PROVE OriginalsClean' /\ SlotsClean' /\ HeroesClean' /\ ActivatingClean'
  <2>1. /\ Get(n, DefaultForm, FALSE) \in Characters
        /\ DefaultForm \notin strayed => ~Get(n, DefaultForm, FALSE).edited
    BY <1>0, GetTypes, GetClean, PlayerDataAssumption DEF DataTypes
  <2> QED BY <1>a, <1>1, <2>1, CharacterTypes, CleanCharacters DEF SgSaveCurrent, SgNew, SgImport
<1>2. ASSUME NEW n \in Names, NEW s \in Slots, SgDelete(n, s)
      PROVE OriginalsClean' /\ SlotsClean' /\ HeroesClean' /\ ActivatingClean'
  <2>1. SlotsClean'
    BY <1>0, <1>2, CleanCharacters DEF SgDelete, SlotsClean, DataTypes, TypeOK
  <2> QED BY <1>0, <1>2, <2>1 DEF SgDelete, OriginalsClean, HeroesClean, ActivatingClean
<1>3. ASSUME NEW n \in Names, NEW s \in Slots, NEW t \in Slots, SgRename(n, s, t)
      PROVE OriginalsClean' /\ SlotsClean' /\ HeroesClean' /\ ActivatingClean'
  <2> DEFINE old == snapshots[rowid[n]]
  <2>1. rowid[n] \in Rows
    BY <1>0, <1>3, RowTypes DEF SgRename, HasSlot, DataTypes
  <2>2. snapshots' = [snapshots EXCEPT ![rowid[n]] = [old EXCEPT ![s] = Absent, ![t] = old[s]]]
    BY <1>0, <1>3, <2>1 DEF SgRename, DataTypes, TypeOK
  <2>3. /\ old \in [Slots -> Characters \cup {Absent}]
        /\ DefaultForm \notin strayed => \A u \in Slots : ~old[u].edited
    BY <1>0, <2>1 DEF SlotsClean, DataTypes, TypeOK
  <2>4. DefaultForm \notin strayed =>
          \A u \in Slots : ~[old EXCEPT ![s] = Absent, ![t] = old[s]][u].edited
    BY <2>3, CleanCharacters
  <2> HIDE DEF old
  <2>5. SlotsClean'
    BY <1>0, <1>3, <2>1, <2>2, <2>4 DEF SgRename, SlotsClean, DataTypes, TypeOK
  <2> QED BY <1>0, <1>3, <2>5 DEF SgRename, OriginalsClean, HeroesClean, ActivatingClean
<1>4. ASSUME NEW n \in Names, NEW s \in Slots, SgRead(n, s)
      PROVE OriginalsClean' /\ SlotsClean' /\ HeroesClean' /\ ActivatingClean'
  <2>1. rowid[n] \in Rows
    BY <1>0, <1>4, RowTypes DEF SgRead, HasSlot, DataTypes
  <2>2. ActivatingClean'
    BY <1>0, <1>4, <2>1 DEF SgRead, SlotsClean, ActivatingClean
  <2> QED BY <1>0, <1>4, <2>2 DEF SgRead, OriginalsClean, SlotsClean, HeroesClean
<1>5. CASE SgActivate
  <2>1. activating.name \in Names /\ activating.character \in Characters
    BY <1>0, <1>5 DEF SgActivate, DataTypes, TypeOK, Known
  <2>2. CASE Store(activating.name, DefaultForm, activating.character, FALSE)
    BY <1>0, <1>5, <2>1, <2>2, StoreClean, CleanCharacters, PlayerDataAssumption
       DEF SgActivate, SlotsClean, HeroesClean, ActivatingClean, NotActivating
  <2>3. CASE UNCHANGED << original, modded >>
    BY <1>0, <1>5, <2>3, CleanCharacters
       DEF SgActivate, OriginalsClean, SlotsClean, HeroesClean, ActivatingClean, NotActivating
  <2> QED BY <1>5, <2>2, <2>3 DEF SgActivate
<1> QED
  BY <1>1, <1>2, <1>3, <1>4, <1>5, PlayerDataAssumption DEF SlotStep

LEMMA NextData == DataInv /\ [Next]_vars => DataInv'
<1> SUFFICES ASSUME DataInv, [Next]_vars PROVE DataInv'
  OBVIOUS
<1>0. DataTypes /\ OriginalsClean /\ SlotsClean /\ HeroesClean /\ ActivatingClean
  BY CleanParts DEF DataInv
<1>1. DataTypes'
  BY <1>0, NextTypes
<1>2. OriginalsClean' /\ SlotsClean' /\ HeroesClean' /\ ActivatingClean'
  <2>1. CASE EditStep \/ AccountStep \/ SlotStep
    BY <2>1, EditClean, AccountClean, SlotClean
  <2>2. ASSUME NEW n \in Names, SessionStep(n)
        PROVE OriginalsClean' /\ SlotsClean' /\ HeroesClean' /\ ActivatingClean'
    BY <2>2, SessionClean
  <2>3. ASSUME NEW n \in Watched, GameStep(n)
        PROVE OriginalsClean' /\ SlotsClean' /\ HeroesClean' /\ ActivatingClean'
    BY <2>3, GameClean, PlayerDataAssumption
  <2>4. CASE UNCHANGED vars
    BY <1>0, <2>4 DEF OriginalsClean, SlotsClean, HeroesClean, ActivatingClean, vars, fileVars,
                      sessionVars, panelVars
  <2> QED BY <2>1, <2>2, <2>3, <2>4 DEF Next
<1>3. OriginalUntouched'
  BY <1>2 DEF OriginalUntouched, OriginalsClean, SlotsClean
<1> QED BY <1>1, <1>2, <1>3 DEF DataInv

(* Through the game, the panel, the dashboard and the save slots, an       *)
(* edited character never becomes an original or a saved slot, whatever    *)
(* forms a game fetches and saves in whatever order - but in a form that a *)
(* session saved after it had fetched another one (commands.py:279-305,    *)
(* gui.py:1907).                                                           *)
THEOREM OriginalsStayUntouched == Spec => []OriginalUntouched
<1>1. DataInv => OriginalUntouched
  BY DEF DataInv
<1> QED BY <1>1, InitData, NextData, PTL DEF Spec

-----------------------------------------------------------------------------
(***************************************************************************)
(* Inheritance: whose the characters in the files are.                     *)
(***************************************************************************)

(* A session that outlived its account has no account to save into, and    *)
(* the next session of the name starts with nothing.                       *)
HeroesOwn ==
  \A n \in Names, f \in Forms : HasAccount(n) => hero[n][f].of # "earlier"

SessionsBegin ==
  \A n \in Names : place[n] # "lobby" => hero[n] = NoHero /\ asking[n] = NotAsking

EditsOwn == \A e \in Editors : editing[e].character.of # "earlier"

ActivatingOwn == activating.character.of # "earlier"

OwnInv ==
  DataTypes /\ NothingInherited /\ HeroesOwn /\ SessionsBegin /\ EditsOwn /\ ActivatingOwn

LEMMA OwnCharacters ==
  /\ Empty.of # "earlier" /\ Fresh.of # "earlier"
  /\ \A f \in Forms : NoHero[f] = Empty
  /\ NotEditing.character = Empty /\ NotActivating.character = Empty
  /\ \A c \in Characters : /\ c.of # "earlier" => Played(c).of # "earlier"
                           /\ [c EXCEPT !.edited = TRUE].of = c.of
BY DEF Empty, Fresh, NoHero, NotEditing, NotActivating, Played, Characters

LEMMA StoreOwn ==
  ASSUME DataTypes, NothingInherited, NEW n \in Names, NEW f \in Forms, NEW c \in Characters,
         NEW variant \in BOOLEAN, Store(n, f, c, variant), HasAccount(n) => c.of # "earlier"
  PROVE  NothingInherited'
<1>1. HasAccount(n) => rowid[n] \in Rows
  BY RowTypes DEF DataTypes
<1> QED BY <1>1 DEF DataTypes, TypeOK, Store, NothingInherited

LEMMA GetOwn ==
  ASSUME DataTypes, NothingInherited, NEW n \in Names, NEW f \in Forms, NEW variant \in BOOLEAN
  PROVE  Get(n, f, variant).of # "earlier"
<1>1. HasAccount(n) => rowid[n] \in Rows
  BY RowTypes DEF DataTypes
<1> QED BY <1>1, OwnCharacters DEF NothingInherited, Get

LEMMA DropOwn ==
  ASSUME DataTypes, NothingInherited, NEW n \in Names, NEW f \in Forms,
         DropModded(n, f), UNCHANGED original
  PROVE  NothingInherited'
<1>1. HasAccount(n) => rowid[n] \in Rows
  BY RowTypes DEF DataTypes
<1> QED BY <1>1, OwnCharacters DEF DataTypes, TypeOK, DropModded, NothingInherited

LEMMA SessionOwn ==
  ASSUME OwnInv, NEW n \in Names, SessionStep(n)
  PROVE  NothingInherited' /\ HeroesOwn' /\ SessionsBegin' /\ EditsOwn' /\ ActivatingOwn'
<1> USE DEF OwnInv
<1>1. UNCHANGED << fileVars, panelVars >>
  BY DEF SessionStep, Register, Login, Enter, Leave
<1>2. NothingInherited' /\ EditsOwn' /\ ActivatingOwn'
  BY <1>1 DEF NothingInherited, EditsOwn, ActivatingOwn, fileVars, panelVars
<1>3. CASE Leave(n)
  BY <1>2, <1>3, OwnCharacters DEF Leave, HeroesOwn, SessionsBegin, HasAccount, DataTypes, TypeOK
<1>4. CASE Register(n)
  <2>1. hero[n] = NoHero
    BY <1>4 DEF Register, SessionsBegin
  <2> QED BY <1>2, <1>4, <2>1, OwnCharacters
          DEF Register, HeroesOwn, SessionsBegin, HasAccount, DataTypes, TypeOK
<1>5. CASE Login(n) \/ Enter(n)
  BY <1>2, <1>5 DEF Login, Enter, HeroesOwn, SessionsBegin, HasAccount, DataTypes, TypeOK
<1> QED BY <1>3, <1>4, <1>5 DEF SessionStep

LEMMA GameOwn ==
  ASSUME OwnInv, NEW n \in Names, GameStep(n)
  PROVE  NothingInherited' /\ HeroesOwn' /\ SessionsBegin' /\ EditsOwn' /\ ActivatingOwn'
<1> USE DEF OwnInv
<1>1. UNCHANGED << rowid, place, panelVars >>
  BY DEF GameStep, Fetch, Choose, Serve, Save, Saved
<1>2. EditsOwn' /\ ActivatingOwn'
  BY <1>1 DEF EditsOwn, ActivatingOwn, panelVars
<1>3. place[n] = "lobby"
  <2>1. CASE asking[n] = NotAsking
    <3>1. ~Choose(n) /\ ~Serve(n)
      BY <2>1 DEF Choose, Serve, NotAsking
    <3> QED BY <3>1 DEF GameStep, Fetch, Save, Saved
  <2>2. CASE asking[n] # NotAsking
    BY <2>2 DEF SessionsBegin
  <2> QED BY <2>1, <2>2
<1>4. \A m \in Names \ {n} : hero'[m] = hero[m] /\ asking'[m] = asking[m]
  <2>1. CASE \E f \in Forms : Fetch(n, f)
    BY <2>1 DEF Fetch, DataTypes, TypeOK
  <2>2. CASE Choose(n)
    BY <2>2 DEF Choose, DataTypes, TypeOK
  <2>3. CASE Serve(n)
    BY <2>3 DEF Serve, DataTypes, TypeOK
  <2>4. CASE \E f \in Kept : Save(n, f)
    BY <2>4 DEF Save, Saved, DataTypes, TypeOK
  <2> QED BY <2>1, <2>2, <2>3, <2>4 DEF GameStep
<1>5. SessionsBegin'
  BY <1>1, <1>3, <1>4 DEF SessionsBegin
<1>6. CASE Choose(n) \/ \E f \in Forms : Fetch(n, f)
  BY <1>1, <1>2, <1>5, <1>6 DEF Fetch, Choose, NothingInherited, HeroesOwn, HasAccount, fileVars
<1>7. CASE Serve(n)
  <2> DEFINE f == asking[n].form
             c == Get(n, f, useModded[n])
  <2>1. f \in Forms /\ useModded[n] \in BOOLEAN
    BY <1>7 DEF Serve, DataTypes, TypeOK, Known
  <2>2. c.of # "earlier"
    BY <2>1, GetOwn
  <2>3. hero'[n][f] = c /\ \A g \in Forms \ {f} : hero'[n][g] = hero[n][g]
    BY <1>7, <2>1 DEF Serve, DataTypes, TypeOK
  <2> HIDE DEF c, f
  <2>4. HeroesOwn'
    BY <1>1, <1>4, <2>2, <2>3 DEF HeroesOwn, HasAccount
  <2> QED BY <1>2, <1>5, <1>7, <2>4 DEF Serve, NothingInherited, fileVars
<1>8. ASSUME NEW f \in Forms, Save(n, f)
      PROVE  NothingInherited' /\ HeroesOwn' /\ SessionsBegin' /\ EditsOwn' /\ ActivatingOwn'
  <2> DEFINE c == Played(hero[n][f])
  <2>1. hero[n][f] \in Characters /\ c \in Characters /\ useModded[n] \in BOOLEAN
    BY CharacterTypes, HeldTypes DEF DataTypes, TypeOK
  <2>2. HasAccount(n) => c.of # "earlier"
    BY <2>1, OwnCharacters DEF HeroesOwn
  <2>3. NothingInherited'
    BY <1>8, <2>1, <2>2, StoreOwn DEF Save, Saved
  <2>4. hero'[n][f] = c /\ \A g \in Forms \ {f} : hero'[n][g] = hero[n][g]
    BY <1>8 DEF Save, Saved, DataTypes, TypeOK
  <2> HIDE DEF c
  <2>5. HeroesOwn'
    BY <1>1, <1>4, <2>2, <2>4 DEF HeroesOwn, HasAccount
  <2> QED BY <1>2, <1>5, <2>3, <2>5
<1> QED BY <1>6, <1>7, <1>8, PlayerDataAssumption DEF GameStep

LEMMA EditOwn ==
  ASSUME OwnInv, EditStep
  PROVE  NothingInherited' /\ HeroesOwn' /\ SessionsBegin' /\ EditsOwn' /\ ActivatingOwn'
<1> USE DEF OwnInv
<1>1. UNCHANGED << rowid, sessionVars, activating >>
  BY DEF EditStep, EditItems, AdminItem, Look, Revert, EditRead, SaveModifiedCharacter, AdminItemStore,
         StoreEdit, RemoveModifiedCharacter, panelVars
<1>2. HeroesOwn' /\ SessionsBegin' /\ ActivatingOwn'
  BY <1>1 DEF HeroesOwn, SessionsBegin, ActivatingOwn, HasAccount, sessionVars
<1>3. ASSUME NEW e \in Editors, NEW n \in Names, NEW f \in Forms, Look(e, n, f)
      PROVE  NothingInherited' /\ EditsOwn'
  <2>1. \A d \in Editors : editing'[d].character \in {Empty, editing[d].character}
    BY <1>3 DEF Look, DataTypes, TypeOK
  <2> QED BY <1>3, <2>1, OwnCharacters DEF Look, NothingInherited, EditsOwn, fileVars
<1>4. ASSUME NEW e \in Editors, EditRead(e) PROVE NothingInherited' /\ EditsOwn'
  <2> DEFINE c == Get(editing[e].name, editing[e].form, editing[e].variant)
  <2>1. c.of # "earlier"
    BY <1>4, GetOwn DEF EditRead, DataTypes, TypeOK, Known
  <2>2. \A d \in Editors : editing'[d].character \in {Empty, c, editing[d].character}
    BY <1>4, OwnCharacters DEF EditRead, DataTypes, TypeOK
  <2> HIDE DEF c
  <2> QED BY <1>4, <2>1, <2>2, OwnCharacters DEF EditRead, NothingInherited, EditsOwn, fileVars
<1>5. ASSUME NEW e \in Editors, StoreEdit(e) PROVE NothingInherited' /\ EditsOwn'
  <2> DEFINE c == [editing[e].character EXCEPT !.edited = TRUE]
  <2>1. c \in Characters /\ c.of # "earlier"
    BY CharacterTypes, OwnCharacters DEF EditsOwn, DataTypes, TypeOK
  <2>2. editing[e].name \in Names /\ editing[e].form \in Forms
    BY <1>5 DEF StoreEdit, DataTypes, Known
  <2>3. NothingInherited'
    BY <1>5, <2>1, <2>2, StoreOwn DEF StoreEdit
  <2>4. \A d \in Editors : editing'[d].character \in {Empty, editing[d].character}
    BY <1>5, OwnCharacters DEF StoreEdit, DataTypes, TypeOK
  <2> QED BY <2>3, <2>4, OwnCharacters DEF EditsOwn
<1>6. CASE RemoveModifiedCharacter
  <2>1. editing["panel"].name \in Names /\ "panel" \in Editors
    BY <1>6 DEF RemoveModifiedCharacter, DataTypes, Known
  <2>2. ASSUME modded' = modded PROVE NothingInherited'
    BY <1>6, <2>2 DEF RemoveModifiedCharacter, NothingInherited
  <2>3. ASSUME DropModded(editing["panel"].name, DefaultForm) PROVE NothingInherited'
    BY <1>6, <2>1, <2>3, DropOwn, PlayerDataAssumption DEF RemoveModifiedCharacter
  <2>4. \A d \in Editors : editing'[d].character \in {Empty, editing[d].character}
    BY <1>6, OwnCharacters DEF RemoveModifiedCharacter, DataTypes, TypeOK
  <2>5. EditsOwn'
    BY <2>4, OwnCharacters DEF EditsOwn
  <2> QED BY <1>2, <1>6, <2>2, <2>3, <2>5 DEF RemoveModifiedCharacter
<1>7. ASSUME NEW n \in Names, NEW f \in Forms, Revert(n, f) PROVE NothingInherited' /\ EditsOwn'
  BY <1>7, DropOwn DEF Revert, EditsOwn, panelVars
<1> HIDE DEF OwnInv
<1>8. ASSUME NEW n \in Watched, EditItems(n) PROVE NothingInherited' /\ EditsOwn'
  BY <1>3, <1>8, PlayerDataAssumption DEF EditItems
<1>9. ASSUME NEW n \in Watched, NEW f \in Forms, AdminItem(n, f) PROVE NothingInherited' /\ EditsOwn'
  BY <1>3, <1>9, PlayerDataAssumption DEF AdminItem
<1>10. ASSUME SaveModifiedCharacter \/ AdminItemStore PROVE NothingInherited' /\ EditsOwn'
  BY <1>5, <1>10 DEF SaveModifiedCharacter, AdminItemStore
<1> QED BY <1>2, <1>4, <1>6, <1>7, <1>8, <1>9, <1>10, PlayerDataAssumption DEF EditStep

LEMMA AccountOwn ==
  ASSUME OwnInv, AccountStep, "overtaken" \notin Hazards
  PROVE  NothingInherited' /\ HeroesOwn' /\ SessionsBegin' /\ EditsOwn' /\ ActivatingOwn'
<1> USE DEF OwnInv
<1>1. ASSUME NEW n \in Names, ImportPlayerdata(n)
      PROVE  NothingInherited' /\ HeroesOwn' /\ SessionsBegin' /\ EditsOwn' /\ ActivatingOwn'
  <2>1. NothingInherited'
    BY <1>1, StoreOwn, CharacterTypes, OwnCharacters, PlayerDataAssumption DEF ImportPlayerdata
  <2> QED BY <1>1, <2>1 DEF ImportPlayerdata, HeroesOwn, SessionsBegin, EditsOwn, ActivatingOwn,
                            HasAccount, sessionVars, panelVars
<1>2. ASSUME NEW n \in Names, DeleteCharacter(n)
      PROVE  NothingInherited' /\ HeroesOwn' /\ SessionsBegin' /\ EditsOwn' /\ ActivatingOwn'
  <2>1. NothingInherited'
    BY <1>2, OwnCharacters DEF DeleteCharacter, DeletePlayerdata, NothingInherited, DataTypes, TypeOK
  <2> QED BY <1>2, <2>1 DEF DeleteCharacter, HeroesOwn, SessionsBegin, EditsOwn, ActivatingOwn,
                            HasAccount, sessionVars, panelVars
<1>3. CASE DeleteCancel \/ \E n \in Names : AskDelete(n)
  BY <1>3 DEF DeleteCancel, AskDelete, NothingInherited, HeroesOwn, SessionsBegin, EditsOwn,
              ActivatingOwn, HasAccount, fileVars, sessionVars
<1>4. CASE DeleteAccount
  <2> DEFINE r == rowid[deleting]
  <2>1. NothingInherited'
    <3>1. /\ original' = [original EXCEPT ![r] = [f \in Forms |-> Empty]]
          /\ modded' = [modded EXCEPT ![r] = [f \in Forms |-> Empty]]
      BY <1>4 DEF DeleteAccount, FilesOf
    <3> QED BY <3>1, OwnCharacters DEF NothingInherited, DataTypes, TypeOK
  <2>2. /\ hero' = [hero EXCEPT ![deleting] = [f \in Forms |-> Aged(hero[deleting][f])]]
        /\ rowid' = [rowid EXCEPT ![deleting] = 0]
        /\ deleting \in Names
        /\ UNCHANGED << place, asking, activating >>
    BY <1>4 DEF DeleteAccount, DataTypes, TypeOK
  <2>3. \A n \in Names \ {deleting} : hero'[n] = hero[n] /\ rowid'[n] = rowid[n]
    BY <2>2 DEF DataTypes, TypeOK
  <2>4. HeroesOwn'
    <3>1. rowid'[deleting] = 0
      BY <2>2 DEF DataTypes, TypeOK
    <3> QED BY <2>3, <3>1 DEF HeroesOwn, HasAccount
  <2>5. SessionsBegin'
    <3>1. ASSUME hero[deleting] = NoHero PROVE hero'[deleting] = NoHero
      <4>1. [f \in Forms |-> Aged(hero[deleting][f])] = NoHero
        BY <3>1 DEF NoHero, Aged, Empty
      <4> QED BY <2>2, <3>1, <4>1 DEF DataTypes, TypeOK
    <3> QED BY <2>2, <2>3, <3>1 DEF SessionsBegin
  <2>6. EditsOwn'
    <3>1. \A e \in Editors : editing'[e] = editing[e]
      BY <1>4 DEF DeleteAccount
    <3> QED BY <3>1 DEF EditsOwn
  <2> QED BY <2>1, <2>2, <2>4, <2>5, <2>6 DEF ActivatingOwn
<1> HIDE DEF OwnInv
<1> QED BY <1>1, <1>2, <1>3, <1>4, PlayerDataAssumption DEF AccountStep, Fetched, ImportFile

LEMMA SlotOwn ==
  ASSUME OwnInv, SlotStep, "leftover" \notin Hazards
  PROVE  NothingInherited' /\ HeroesOwn' /\ SessionsBegin' /\ EditsOwn' /\ ActivatingOwn'
<1> USE DEF OwnInv
<1>1. UNCHANGED << rowid, sessionVars, editing >>
  BY DEF SlotStep, SgSaveCurrent, SgNew, SgImport, SaveSnapshot, SgDelete, SgRename, SgRead,
         SgActivate, panelVars
<1>2. HeroesOwn' /\ SessionsBegin' /\ EditsOwn'
  BY <1>1 DEF HeroesOwn, SessionsBegin, EditsOwn, HasAccount, sessionVars
<1>3. ASSUME NEW n \in Names, NEW s \in Slots, SgRead(n, s)
      PROVE  NothingInherited' /\ ActivatingOwn'
  BY <1>3 DEF SgRead, NothingInherited, ActivatingOwn, fileVars
<1>4. CASE SgActivate
  <2>1. activating.name \in Names /\ activating.character \in Characters
    BY <1>4 DEF SgActivate, DataTypes, TypeOK, Known
  <2>2. ActivatingOwn'
    BY <1>4, OwnCharacters DEF SgActivate, ActivatingOwn
  <2>3. ASSUME Store(activating.name, DefaultForm, activating.character, FALSE)
        PROVE  NothingInherited'
    BY <2>1, <2>3, StoreOwn, PlayerDataAssumption DEF ActivatingOwn
  <2>4. ASSUME UNCHANGED << original, modded >> PROVE NothingInherited'
    BY <2>4 DEF NothingInherited
  <2> QED BY <1>2, <1>4, <2>2, <2>3, <2>4 DEF SgActivate
<1>5. ASSUME UNCHANGED << original, modded, activating >> PROVE NothingInherited' /\ ActivatingOwn'
  BY <1>5 DEF NothingInherited, ActivatingOwn
<1> HIDE DEF OwnInv
<1>6. ASSUME NEW n \in Names, NEW s \in Slots,
             SgSaveCurrent(n, s) \/ SgNew(n, s) \/ SgImport(n, s) \/ SgDelete(n, s)
      PROVE  UNCHANGED << original, modded, activating >>
  BY <1>6 DEF SgSaveCurrent, SgNew, SgImport, SaveSnapshot, SgDelete, panelVars
<1>7. ASSUME NEW n \in Names, NEW s \in Slots, NEW t \in Slots, SgRename(n, s, t)
      PROVE  UNCHANGED << original, modded, activating >>
  BY <1>7 DEF SgRename, panelVars
<1> QED BY <1>2, <1>3, <1>4, <1>5, <1>6, <1>7, PlayerDataAssumption DEF SlotStep

LEMMA NextOwn ==
  ASSUME OwnInv, [Next]_vars, Hazards = {}
  PROVE  OwnInv'
<1>1. DataTypes'
  BY NextTypes DEF OwnInv
<1>2. NothingInherited' /\ HeroesOwn' /\ SessionsBegin' /\ EditsOwn' /\ ActivatingOwn'
  <2>1. CASE EditStep \/ AccountStep \/ SlotStep
    BY <2>1, EditOwn, AccountOwn, SlotOwn
  <2>2. ASSUME NEW n \in Names, SessionStep(n)
        PROVE NothingInherited' /\ HeroesOwn' /\ SessionsBegin' /\ EditsOwn' /\ ActivatingOwn'
    BY <2>2, SessionOwn
  <2>3. ASSUME NEW n \in Watched, GameStep(n)
        PROVE NothingInherited' /\ HeroesOwn' /\ SessionsBegin' /\ EditsOwn' /\ ActivatingOwn'
    BY <2>3, GameOwn, PlayerDataAssumption
  <2>4. CASE UNCHANGED vars
    BY <2>4 DEF OwnInv, NothingInherited, HeroesOwn, SessionsBegin, EditsOwn, ActivatingOwn,
                HasAccount, vars, fileVars, sessionVars, panelVars
  <2> QED BY <2>1, <2>2, <2>3, <2>4 DEF Next
<1> QED BY <1>1, <1>2 DEF OwnInv

(* No account has a character of an earlier one, also when a session       *)
(* outlives its account (database.py:325-349) - unless a slot left behind  *)
(* is activated or the dashboard stores what it read of a deleted account. *)
THEOREM NothingInheritedTheorem ==
  ASSUME Hazards = {}
  PROVE  Spec => []NothingInherited
<1>1. Init => OwnInv
  <2> SUFFICES ASSUME Init PROVE OwnInv
    OBVIOUS
  <2>1. DataTypes
    BY InitData DEF DataInv
  <2> QED BY <2>1, OwnCharacters DEF Init, OwnInv, NothingInherited, HeroesOwn, SessionsBegin,
                                     EditsOwn, ActivatingOwn, HasAccount
<1>2. OwnInv /\ [Next]_vars => OwnInv'
  BY NextOwn
<1>3. OwnInv => NothingInherited
  BY DEF OwnInv
<1> QED BY <1>1, <1>2, <1>3, PTL DEF Spec

-----------------------------------------------------------------------------
(***************************************************************************)
(* Rows: a file belongs to one account at a time.                          *)
(***************************************************************************)
InUse == {rowid[n] : n \in Names}

OneRowEach == \A m, n \in Names : HasAccount(m) /\ rowid[m] = rowid[n] => m = n

FreeRowsEmpty ==
  \A r \in Rows \ InUse, f \in Forms : original[r][f] = Empty /\ modded[r][f] = Empty

RowsOwned == OneRowEach /\ FreeRowsEmpty

(* SQLite's next rowid is above all others.                                *)
LEMMA NextRowIsNew ==
  ASSUME TypeOK, NEW m \in Names
  PROVE  \A n \in Names : rowid[n] < NextRow
<1>1. InUse \subseteq Nat /\ InUse # {} /\ \A x \in InUse : x <= MaxRow
  BY PlayerDataAssumption DEF InUse, TypeOK
<1> DEFINE Gap == {MaxRow - x : x \in InUse}
<1>2. Gap \subseteq Nat /\ Gap # {}
  <2>1. ASSUME NEW x \in InUse PROVE MaxRow - x \in Nat
    <3>1. x \in Nat /\ x <= MaxRow /\ MaxRow \in Nat
      BY <1>1, PlayerDataAssumption
    <3> QED BY <3>1
  <2>2. \E x \in InUse : TRUE
    BY <1>1
  <2> QED BY <2>1, <2>2
<1>3. PICK g \in Gap : \A y \in Gap : << y, g >> \notin OpToRel(<, Nat)
  <2> HIDE DEF Gap
  <2> QED BY <1>2, NatLessThanWellFounded, WFMin, Zenon
<1>4. \A y \in Gap : g <= y
  <2>1. \A y \in Gap : ~(y < g)
    <3> HIDE DEF Gap
    <3> QED BY <1>2, <1>3 DEF OpToRel
  <2> HIDE DEF Gap
  <2> QED BY <1>2, <2>1
<1>5. \E x \in InUse : \A y \in InUse : x >= y
  <2>1. PICK x \in InUse : g = MaxRow - x
    OBVIOUS
  <2>2. \A y \in InUse : g <= MaxRow - y
    BY <1>4
  <2> QED BY <1>1, <2>1, <2>2, PlayerDataAssumption
<1>6. Max(InUse) \in InUse /\ \A y \in InUse : Max(InUse) >= y
  BY <1>5 DEF Max
<1>7. NextRow = 1 + Max(InUse)
  BY DEF NextRow, InUse
<1>8. \A n \in Names : rowid[n] \in InUse
  BY DEF InUse
<1>9. \A n \in Names : rowid[n] \in Nat /\ rowid[n] <= Max(InUse) /\ Max(InUse) \in Nat
  BY <1>1, <1>6, <1>8
<1> HIDE DEF Gap
<1> QED BY <1>7, <1>9

LEMMA StoreIntoOwnRow ==
  ASSUME DataTypes, NEW n \in Names, NEW f \in Forms, NEW c \in Characters,
         NEW variant \in BOOLEAN, Store(n, f, c, variant)
  PROVE  \A r \in Rows \ InUse : original'[r] = original[r] /\ modded'[r] = modded[r]
<1>1. HasAccount(n) => rowid[n] \in Rows /\ rowid[n] \in InUse
  BY RowTypes DEF DataTypes, InUse
<1> QED BY <1>1 DEF DataTypes, TypeOK, Store

LEMMA DropFromOwnRow ==
  ASSUME DataTypes, NEW n \in Names, NEW f \in Forms, DropModded(n, f)
  PROVE  \A r \in Rows \ InUse : modded'[r] = modded[r]
<1>1. HasAccount(n) => rowid[n] \in Rows /\ rowid[n] \in InUse
  BY RowTypes DEF DataTypes, InUse
<1> QED BY <1>1 DEF DataTypes, TypeOK, DropModded

LEMMA OwnRowKeeps ==
  ASSUME DataTypes, RowsOwned, rowid' = rowid,
         \A r \in Rows \ InUse : original'[r] = original[r] /\ modded'[r] = modded[r]
  PROVE  RowsOwned'
BY DEF RowsOwned, OneRowEach, FreeRowsEmpty, InUse, HasAccount

LEMMA RegisterKeepsRows ==
  ASSUME DataTypes, RowsOwned, NEW n \in Names, Register(n)
  PROVE  RowsOwned'
<1>1. /\ rowid' = [rowid EXCEPT ![n] = NextRow] /\ NextRow \in Rows /\ rowid[n] = 0
      /\ UNCHANGED << original, modded >>
  BY DEF Register, HasAccount, fileVars
<1>2. \A m \in Names : rowid[m] < NextRow /\ rowid[m] \in Nat
  BY NextRowIsNew DEF DataTypes, TypeOK
<1>3. \A m \in Names : rowid'[m] = IF m = n THEN NextRow ELSE rowid[m]
  BY <1>1 DEF DataTypes, TypeOK
<1>4. OneRowEach'
  BY <1>2, <1>3 DEF RowsOwned, OneRowEach, HasAccount
<1>5. \A r \in Rows \ InUse' : r \notin InUse
  <2>1. 0 \notin Rows
    BY DEF Rows
  <2> QED BY <1>1, <1>3, <2>1 DEF InUse
<1>6. FreeRowsEmpty'
  BY <1>1, <1>5 DEF RowsOwned, FreeRowsEmpty
<1> QED BY <1>4, <1>6 DEF RowsOwned

LEMMA DeletionKeepsRows ==
  ASSUME DataTypes, RowsOwned, DeleteAccount
  PROVE  RowsOwned'
<1> DEFINE r == rowid[deleting]
<1>1. /\ original' = [original EXCEPT ![r] = [f \in Forms |-> Empty]]
      /\ modded' = [modded EXCEPT ![r] = [f \in Forms |-> Empty]]
      /\ rowid' = [rowid EXCEPT ![deleting] = 0]
      /\ deleting \in Names
  BY DEF DeleteAccount, FilesOf, DataTypes, TypeOK
<1>2. \A m \in Names : rowid'[m] = IF m = deleting THEN 0 ELSE rowid[m]
  BY <1>1 DEF DataTypes, TypeOK
<1>3. OneRowEach'
  BY <1>2 DEF RowsOwned, OneRowEach, HasAccount
<1>4. \A q \in Rows \ InUse' : q = r \/ q \notin InUse
  BY <1>2 DEF InUse
<1> HIDE DEF r
<1>5. \A q \in Rows, f \in Forms :
        q = r \/ (original[q][f] = Empty /\ modded[q][f] = Empty) =>
          original'[q][f] = Empty /\ modded'[q][f] = Empty
  BY <1>1 DEF DataTypes, TypeOK
<1>6. FreeRowsEmpty'
  BY <1>4, <1>5 DEF RowsOwned, FreeRowsEmpty
<1> QED BY <1>3, <1>6 DEF RowsOwned

LEMMA EditKeepsRows ==
  ASSUME DataTypes, RowsOwned, EditStep
  PROVE  RowsOwned'
<1>1. ASSUME UNCHANGED << rowid, original, modded >> PROVE RowsOwned'
  BY <1>1, OwnRowKeeps
<1>2. ASSUME NEW e \in Editors, NEW n \in Names, NEW f \in Forms, Look(e, n, f) PROVE RowsOwned'
  BY <1>1, <1>2 DEF Look, fileVars
<1>3. ASSUME NEW e \in Editors, EditRead(e) PROVE RowsOwned'
  BY <1>1, <1>3 DEF EditRead, fileVars
<1>4. ASSUME NEW e \in Editors, StoreEdit(e) PROVE RowsOwned'
  <2>1. [editing[e].character EXCEPT !.edited = TRUE] \in Characters
    BY CharacterTypes DEF DataTypes, TypeOK
  <2>2. editing[e].name \in Names /\ editing[e].form \in Forms
    BY <1>4 DEF StoreEdit, DataTypes, Known
  <2> QED BY <1>4, <2>1, <2>2, StoreIntoOwnRow, OwnRowKeeps DEF StoreEdit
<1>5. CASE RemoveModifiedCharacter
  <2>1. editing["panel"].name \in Names
    BY <1>5 DEF RemoveModifiedCharacter, DataTypes, Known
  <2>2. CASE UNCHANGED modded
    BY <1>1, <1>5, <2>2 DEF RemoveModifiedCharacter
  <2>3. CASE DropModded(editing["panel"].name, DefaultForm)
    BY <1>5, <2>1, <2>3, DropFromOwnRow, OwnRowKeeps, PlayerDataAssumption DEF RemoveModifiedCharacter
  <2> QED BY <1>5, <2>2, <2>3 DEF RemoveModifiedCharacter
<1>6. ASSUME NEW n \in Names, NEW f \in Forms, Revert(n, f) PROVE RowsOwned'
  BY <1>6, DropFromOwnRow, OwnRowKeeps DEF Revert
<1>7. ASSUME NEW n \in Watched, EditItems(n) PROVE RowsOwned'
  BY <1>2, <1>7, PlayerDataAssumption DEF EditItems
<1>8. ASSUME NEW n \in Watched, NEW f \in Forms, AdminItem(n, f) PROVE RowsOwned'
  BY <1>2, <1>8, PlayerDataAssumption DEF AdminItem
<1>9. CASE SaveModifiedCharacter \/ AdminItemStore
  BY <1>4, <1>9 DEF SaveModifiedCharacter, AdminItemStore
<1> QED BY <1>3, <1>5, <1>6, <1>7, <1>8, <1>9, PlayerDataAssumption DEF EditStep

LEMMA AccountKeepsRows ==
  ASSUME DataTypes, RowsOwned, AccountStep
  PROVE  RowsOwned'
<1>1. ASSUME NEW n \in Names, ImportPlayerdata(n) PROVE RowsOwned'
  BY <1>1, StoreIntoOwnRow, OwnRowKeeps, CharacterTypes, PlayerDataAssumption DEF ImportPlayerdata
<1>2. ASSUME NEW n \in Names, DeleteCharacter(n) PROVE RowsOwned'
  <2>1. rowid[n] \in InUse /\ rowid[n] \in Rows
    BY <1>2, RowTypes DEF DeleteCharacter, DataTypes, InUse
  <2>2. \A r \in Rows \ InUse : original'[r] = original[r] /\ modded'[r] = modded[r]
    BY <1>2, <2>1 DEF DeleteCharacter, DeletePlayerdata, DataTypes, TypeOK
  <2> QED BY <1>2, <2>2, OwnRowKeeps DEF DeleteCharacter
<1>3. CASE DeleteCancel \/ \E n \in Names : AskDelete(n)
  BY <1>3, OwnRowKeeps DEF DeleteCancel, AskDelete, fileVars
<1> QED BY <1>1, <1>2, <1>3, DeletionKeepsRows, PlayerDataAssumption
        DEF AccountStep, Fetched, ImportFile

LEMMA SlotKeepsRows ==
  ASSUME DataTypes, RowsOwned, SlotStep
  PROVE  RowsOwned'
<1>1. ASSUME UNCHANGED << rowid, original, modded >> PROVE RowsOwned'
  BY <1>1, OwnRowKeeps
<1>2. CASE SgActivate
  <2>1. activating.name \in Names /\ activating.character \in Characters
    BY <1>2 DEF SgActivate, DataTypes, TypeOK, Known
  <2>2. CASE Store(activating.name, DefaultForm, activating.character, FALSE)
    BY <1>2, <2>1, <2>2, StoreIntoOwnRow, OwnRowKeeps, PlayerDataAssumption DEF SgActivate
  <2>3. CASE UNCHANGED << original, modded >>
    BY <1>1, <1>2, <2>3 DEF SgActivate
  <2> QED BY <1>2, <2>2, <2>3 DEF SgActivate
<1>3. CASE ~SgActivate
  BY <1>1, <1>3 DEF SlotStep, SgSaveCurrent, SgNew, SgImport, SaveSnapshot, SgDelete, SgRename,
                    SgRead, fileVars
<1> QED BY <1>2, <1>3

LEMMA GameKeepsRows ==
  ASSUME DataTypes, RowsOwned, NEW n \in Names, GameStep(n)
  PROVE  RowsOwned'
<1>1. ASSUME NEW f \in Forms, Save(n, f) PROVE RowsOwned'
  <2>1. Played(hero[n][f]) \in Characters /\ useModded[n] \in BOOLEAN
    BY CharacterTypes, HeldTypes DEF DataTypes, TypeOK
  <2> QED BY <1>1, <2>1, StoreIntoOwnRow, OwnRowKeeps DEF Save, Saved
<1>2. ASSUME \A f \in Kept : ~Save(n, f) PROVE RowsOwned'
  BY <1>2, OwnRowKeeps DEF GameStep, Fetch, Choose, Serve, fileVars
<1> QED BY <1>1, <1>2, PlayerDataAssumption

(* A rowid is one account's at a time and brings no files along when it is *)
(* given again: a new account starts without characters, original or       *)
(* edited (Database.delete_user, Database.register).                       *)
THEOREM RowsTheorem == Spec => []RowsOwned
<1>1. Init => DataTypes /\ RowsOwned
  <2> SUFFICES ASSUME Init PROVE RowsOwned
    BY InitData DEF DataInv
  <2> QED BY DEF Init, RowsOwned, OneRowEach, FreeRowsEmpty, HasAccount
<1>2. ASSUME DataTypes, RowsOwned, [Next]_vars PROVE RowsOwned'
  <2>1. CASE EditStep \/ AccountStep \/ SlotStep
    BY <1>2, <2>1, EditKeepsRows, AccountKeepsRows, SlotKeepsRows
  <2>2. ASSUME NEW n \in Names, SessionStep(n) PROVE RowsOwned'
    <3>1. CASE Register(n)
      BY <1>2, <3>1, RegisterKeepsRows
    <3>2. CASE ~Register(n)
      BY <1>2, <2>2, <3>2, OwnRowKeeps DEF SessionStep, Login, Enter, Leave, fileVars
    <3> QED BY <3>1, <3>2
  <2>3. ASSUME NEW n \in Watched, GameStep(n) PROVE RowsOwned'
    BY <1>2, <2>3, GameKeepsRows, PlayerDataAssumption
  <2>4. CASE UNCHANGED vars
    BY <1>2, <2>4, OwnRowKeeps DEF vars, fileVars
  <2> QED BY <1>2, <2>1, <2>2, <2>3, <2>4 DEF Next
<1> QED BY <1>1, <1>2, NextTypes, PTL DEF Spec
=============================================================================
