---------------------------- MODULE GuildsProofs ----------------------------
(***************************************************************************)
(* Proofs about Guilds, for any players and guilds.                        *)
(***************************************************************************)
EXTENDS Guilds, TLAPS

(* A command under way is about a guild.                                   *)
CommandsKnown ==
  \A n \in Names :
    /\ cmd[n].step \notin {"idle", "answer"} => cmd[n].guild \in GuildNames
    /\ cmd[n].step = "idle" => cmd[n] = Idle

GuildTypes == TypeOK /\ CommandsKnown

(* The answer under way is true, and a guild that is promised exists.      *)
AnswersTrue ==
  \A n \in Names \ overruled :
    /\ cmd[n].step = "answer" => cmd[n].guild = member[n]
    /\ cmd[n].step = "promise" => cmd[n].guild \in guilds

GuildInv == GuildTypes /\ MembersHaveGuild /\ MembersKnow /\ AnswersTrue

(* db.set_member_guild keeps memberships to the guilds there are.          *)
LEMMA MemberWithSafe ==
  ASSUME GuildInv, NEW n \in Names, NEW g \in GuildNames \cup {NoGuild}
  PROVE  /\ MemberWith(n, g) \in [Names -> GuildNames \cup {NoGuild}]
         /\ \A m \in Names : MemberWith(n, g)[m] # NoGuild => MemberWith(n, g)[m] \in guilds
BY DEF GuildInv, GuildTypes, TypeOK, MembersHaveGuild, MemberWith

LEMMA StepTypes == GuildTypes /\ [Next]_vars => GuildTypes'
<1> SUFFICES ASSUME GuildTypes, [Next]_vars PROVE GuildTypes'
  OBVIOUS
<1> USE DEF GuildTypes, TypeOK, CommandsKnown, Then, Idle, CreateGuild, MemberWith
<1>1. ASSUME NEW n \in Names, NEW g \in GuildNames,
             TestCreateGuild(n, g) \/ CreateGuildCommand(n, g) \/ JoinGuild(n, g)
      PROVE  GuildTypes'
  <2>1. CASE TestCreateGuild(n, g)
    BY <2>1 DEF TestCreateGuild
  <2>2. CASE CreateGuildCommand(n, g)
    BY <2>2 DEF CreateGuildCommand
  <2>3. CASE JoinGuild(n, g)
    <3>1. PICK step \in {"set", "found", "ask"} :
            cmd' = [cmd EXCEPT ![n] = [step |-> step, guild |-> g]]
      BY <2>3 DEF JoinGuild
    <3>2. UNCHANGED << guilds, member, pending, told, overruled >>
      BY <2>3 DEF JoinGuild
    <3>3. cmd' \in [Names -> [step : {"idle", "found", "set", "promise", "ask", "answer"},
                              guild : GuildNames \cup {NoGuild}]]
      BY <3>1
    <3>4. CommandsKnown'
      BY <3>1
    <3> QED BY <3>2, <3>3, <3>4
  <2> QED BY <1>1, <2>1, <2>2, <2>3
<1>2. ASSUME NEW n \in Names, CreateGuildJoin(n) PROVE GuildTypes'
  BY <1>2 DEF CreateGuildJoin
<1>3. ASSUME NEW n \in Names, JoinFounds(n) PROVE GuildTypes'
  BY <1>3 DEF JoinFounds
<1>4. ASSUME NEW n \in Names, JoinSets(n) PROVE GuildTypes'
  BY <1>4 DEF JoinSets
<1>5. ASSUME NEW n \in Names, JoinReads(n) PROVE GuildTypes'
  BY <1>5 DEF JoinReads, AnswerRead
<1>6. ASSUME NEW n \in Names, LeaveGuild(n) PROVE GuildTypes'
  BY <1>6 DEF LeaveGuild
<1>10. ASSUME NEW n \in Names, Answer(n) PROVE GuildTypes'
  <2>1. \A m \in Names \ {n} : cmd'[m] = cmd[m]
    BY <1>10 DEF Answer
  <2>2. cmd'[n] = Idle
    BY <1>10 DEF Answer
  <2>3. CommandsKnown'
    BY <2>1, <2>2
  <2> QED BY <1>10, <2>3 DEF Answer
<1>7. ASSUME NEW g \in GuildNames, AdminCreate(g) \/ AdminDelete(g) PROVE GuildTypes'
  BY <1>7 DEF AdminCreate, AdminDelete, MembersWithout
<1>8. ASSUME NEW n \in Names, NEW g \in GuildNames \cup {NoGuild}, AdminMember(n, g) PROVE GuildTypes'
  BY <1>8 DEF AdminMember
<1>9. CASE UNCHANGED vars
  BY <1>9 DEF vars
<1> QED
  BY <1>1, <1>2, <1>3, <1>4, <1>5, <1>6, <1>7, <1>8, <1>9, <1>10 DEF Next

LEMMA StepMembers == GuildInv /\ [Next]_vars => MembersHaveGuild'
<1> SUFFICES ASSUME GuildInv, [Next]_vars PROVE MembersHaveGuild'
  OBVIOUS
<1>0. TypeOK /\ MembersHaveGuild
  BY DEF GuildInv, GuildTypes
<1>a. ASSUME guilds \subseteq guilds', member' = member PROVE MembersHaveGuild'
  BY <1>0, <1>a DEF MembersHaveGuild
<1>b. ASSUME NEW n \in Names, NEW g \in GuildNames \cup {NoGuild},
             guilds' = guilds, member' = MemberWith(n, g)
      PROVE  MembersHaveGuild'
  BY <1>b, MemberWithSafe DEF MembersHaveGuild
<1>1. ASSUME NEW n \in Names, NEW g \in GuildNames,
             TestCreateGuild(n, g) \/ CreateGuildCommand(n, g) \/ JoinGuild(n, g)
      PROVE  MembersHaveGuild'
  BY <1>1, <1>a DEF TestCreateGuild, CreateGuildCommand, JoinGuild, CreateGuild
<1>2. ASSUME NEW n \in Names, CreateGuildJoin(n) \/ JoinSets(n) PROVE MembersHaveGuild'
  <2>1. cmd[n].guild \in GuildNames \cup {NoGuild}
    BY <1>0 DEF TypeOK
  <2> QED BY <1>2, <1>b, <2>1 DEF CreateGuildJoin, JoinSets
<1>3. ASSUME NEW n \in Names, JoinFounds(n) \/ JoinReads(n) \/ Answer(n) PROVE MembersHaveGuild'
  BY <1>3, <1>a DEF JoinFounds, JoinReads, Answer, CreateGuild
<1>4. ASSUME NEW n \in Names, LeaveGuild(n) PROVE MembersHaveGuild'
  BY <1>0, <1>4 DEF LeaveGuild, TypeOK, MembersHaveGuild
<1>5. ASSUME NEW g \in GuildNames, AdminCreate(g) \/ AdminDelete(g) PROVE MembersHaveGuild'
  <2>1. CASE AdminCreate(g)
    BY <1>a, <2>1 DEF AdminCreate, CreateGuild
  <2>2. CASE AdminDelete(g)
    BY <1>0, <2>2 DEF AdminDelete, MembersWithout, MembersHaveGuild
  <2> QED BY <1>5, <2>1, <2>2
<1>6. ASSUME NEW n \in Names, NEW g \in GuildNames \cup {NoGuild}, AdminMember(n, g)
      PROVE  MembersHaveGuild'
  BY <1>6, <1>b DEF AdminMember
<1>7. CASE UNCHANGED vars
  BY <1>7, <1>a DEF vars
<1> QED BY <1>1, <1>2, <1>3, <1>4, <1>5, <1>6, <1>7 DEF Next

(* What the players know.                                                  *)
Knowing(n) ==
  /\ cmd[n] = Idle => told[n] = member[n]
  /\ cmd[n].step = "answer" => cmd[n].guild = member[n]
  /\ cmd[n].step = "promise" => cmd[n].guild \in guilds

LEMMA AllKnow == MembersKnow /\ AnswersTrue <=> \A n \in Names \ overruled : Knowing(n)
BY DEF MembersKnow, AnswersTrue, Knowing

(* A player whose command makes no step, and whom the dashboard leaves     *)
(* alone, knows what he knew.                                              *)
LEMMA OthersKnow ==
  ASSUME NEW n \in Names, Knowing(n), cmd'[n] = cmd[n], told'[n] = told[n],
         member'[n] = member[n],
         cmd[n].step = "promise" => (cmd[n].guild \in guilds => cmd[n].guild \in guilds')
  PROVE  Knowing(n)'
BY DEF Knowing

(* The step of the player's own command.                                   *)
CommandStep(n) ==
  \/ \E g \in GuildNames :
       TestCreateGuild(n, g) \/ CreateGuildCommand(n, g) \/ JoinGuild(n, g)
  \/ CreateGuildJoin(n) \/ JoinFounds(n) \/ JoinSets(n) \/ JoinReads(n)
  \/ LeaveGuild(n) \/ Answer(n)

LEMMA OwnStepKnows ==
  ASSUME GuildTypes, NEW n \in Names, CommandStep(n), n \notin overruled => Knowing(n),
         n \notin overruled'
  PROVE  Knowing(n)'
<1>0. TypeOK /\ CommandsKnown
  BY DEF GuildTypes
<1> USE DEF Knowing, Idle, Then, CreateGuild
<1>1. ASSUME NEW g \in GuildNames, TestCreateGuild(n, g) PROVE Knowing(n)'
  BY <1>0, <1>1 DEF TestCreateGuild
<1>2. ASSUME NEW g \in GuildNames, CreateGuildCommand(n, g) PROVE Knowing(n)'
  BY <1>0, <1>2 DEF CreateGuildCommand, TypeOK
<1>3. ASSUME NEW g \in GuildNames, JoinGuild(n, g) PROVE Knowing(n)'
  <2>1. PICK step \in {"set", "found", "ask"} :
          cmd' = [cmd EXCEPT ![n] = [step |-> step, guild |-> g]]
    BY <1>3 DEF JoinGuild
  <2> QED BY <1>0, <2>1 DEF TypeOK
<1>4. CASE CreateGuildJoin(n)
  BY <1>0, <1>4 DEF CreateGuildJoin, MemberWith, TypeOK
<1>5. CASE JoinFounds(n) \/ JoinSets(n)
  BY <1>0, <1>5 DEF JoinFounds, JoinSets, TypeOK
<1>6. CASE JoinReads(n)
  BY <1>0, <1>6 DEF JoinReads, AnswerRead, TypeOK
<1>7. CASE LeaveGuild(n)
  BY <1>0, <1>7 DEF LeaveGuild, TypeOK
<1>8. CASE Answer(n)
  BY <1>0, <1>8 DEF Answer, TypeOK
<1> QED BY <1>1, <1>2, <1>3, <1>4, <1>5, <1>6, <1>7, <1>8 DEF CommandStep

LEMMA CommandsAreOwn ==
  ASSUME GuildTypes, NEW n \in Names, CommandStep(n)
  PROVE  /\ \A m \in Names \ {n} :
              cmd'[m] = cmd[m] /\ told'[m] = told[m] /\ member'[m] = member[m]
         /\ guilds \subseteq guilds'
         /\ overruled' \in {overruled, overruled \ {n}}
<1> USE DEF GuildTypes, TypeOK, Then, CreateGuild, MemberWith
<1>1. CASE \E g \in GuildNames : TestCreateGuild(n, g) \/ CreateGuildCommand(n, g) \/ JoinGuild(n, g)
  BY <1>1 DEF TestCreateGuild, CreateGuildCommand, JoinGuild
<1>2. CASE CreateGuildJoin(n) \/ JoinFounds(n) \/ JoinSets(n) \/ JoinReads(n)
  BY <1>2 DEF CreateGuildJoin, JoinFounds, JoinSets, JoinReads
<1>3. CASE LeaveGuild(n) \/ Answer(n)
  BY <1>3 DEF LeaveGuild, Answer
<1> QED BY <1>1, <1>2, <1>3 DEF CommandStep

LEMMA StepKnows == GuildInv /\ [Next]_vars => MembersKnow' /\ AnswersTrue'
<1> SUFFICES ASSUME GuildInv, [Next]_vars, NEW m \in Names, m \notin overruled'
             PROVE  Knowing(m)'
  BY DEF MembersKnow, AnswersTrue, Knowing
<1>0. GuildTypes /\ (m \notin overruled => Knowing(m))
  BY AllKnow DEF GuildInv
<1>1. ASSUME NEW n \in Names, CommandStep(n) PROVE Knowing(m)'
  <2>1. CASE m = n
    BY <1>0, <1>1, <2>1, OwnStepKnows
  <2>2. CASE m # n
    BY <1>0, <1>1, <2>2, CommandsAreOwn, OthersKnow
  <2> QED BY <2>1, <2>2
<1>2. ASSUME NEW g \in GuildNames, AdminCreate(g) PROVE Knowing(m)'
  BY <1>0, <1>2, OthersKnow DEF AdminCreate, CreateGuild
<1>3. ASSUME NEW g \in GuildNames, AdminDelete(g) PROVE Knowing(m)'
  <2>1. /\ m \notin overruled /\ member'[m] = member[m]
        /\ cmd[m] # [step |-> "promise", guild |-> g]
        /\ cmd' = cmd /\ told' = told /\ guilds' = guilds \ {g}
    BY <1>3 DEF AdminDelete
  <2>2. cmd[m].step = "promise" => cmd[m].guild # g
    BY <1>0, <2>1 DEF GuildTypes, TypeOK
  <2> QED BY <1>0, <2>1, <2>2, OthersKnow
<1>4. ASSUME NEW n \in Names, NEW g \in GuildNames \cup {NoGuild}, AdminMember(n, g)
      PROVE  Knowing(m)'
  BY <1>0, <1>4, OthersKnow DEF AdminMember
<1>5. CASE UNCHANGED vars
  BY <1>0, <1>5, OthersKnow DEF vars
<1> QED BY <1>1, <1>2, <1>3, <1>4, <1>5 DEF Next, CommandStep

LEMMA GuildInvHolds == Spec => []GuildInv
<1>1. Init => GuildInv
  BY DEF Init, GuildInv, GuildTypes, CommandsKnown, TypeOK, MembersHaveGuild, MembersKnow,
         AnswersTrue, Idle
<1>2. GuildInv /\ [Next]_vars => GuildInv'
  BY StepTypes, StepMembers, StepKnows DEF GuildInv
<1> QED BY <1>1, <1>2, PTL DEF Spec

(* However founding, joining, leaving and deleting overlap, nobody is in a *)
(* guild that does not exist (database.py:425-456).                        *)
THEOREM MembersAlwaysHaveGuild == Spec => []MembersHaveGuild
<1>1. GuildInv => MembersHaveGuild
  BY DEF GuildInv
<1> QED BY <1>1, GuildInvHolds, PTL

(* Whatever of founding, joining, leaving and the dashboard overlaps, a    *)
(* player was told which guild he is in, unless the dashboard interfered   *)
(* since (commands.py:156-194).                                            *)
THEOREM MembersKnowTheirGuild == Spec => []MembersKnow
<1>1. GuildInv => MembersKnow
  BY DEF GuildInv
<1> QED BY <1>1, GuildInvHolds, PTL
=============================================================================
