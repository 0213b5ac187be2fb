------------------------------- MODULE Guilds -------------------------------
(***************************************************************************)
(* Guilds: the tables of tw1mp/database.py, the guild commands of the game *)
(* (tw1mp/commands.py) and the guild actions of the dashboard (tw1mp/      *)
(* web.py).  A command takes the database lock several times; each hold is *)
(* a step.  cmd[n] is how far the guild command of player n has come.      *)
(***************************************************************************)
EXTENDS FiniteSets

CONSTANTS
  Names, GuildNames,
  NoGuild        \* ''

ASSUME GuildsAssumption == NoGuild \notin GuildNames

VARIABLES
  guilds,      \* guildTable
  member,      \* guildMemberTable: name -> guild
  pending,     \* con.user.pending_guild
  cmd,         \* the command under way: its next step and its guild
  told,        \* client side: the guild of the last /userguild
  overruled    \* history: players in whose guilds the dashboard interfered
               \* after the last answer to them was decided

vars == << guilds, member, pending, cmd, told, overruled >>

Idle == [step |-> "idle", guild |-> NoGuild]

TypeOK ==
  /\ guilds \subseteq GuildNames
  /\ member \in [Names -> GuildNames \cup {NoGuild}]
  /\ pending \in [Names -> GuildNames \cup {NoGuild}]
  /\ cmd \in [Names -> [step : {"idle", "found", "set", "promise", "ask", "answer"},
                        guild : GuildNames \cup {NoGuild}]]
  /\ told \in [Names -> GuildNames \cup {NoGuild}]
  /\ overruled \subseteq Names

Init ==
  /\ guilds = {}
  /\ member = [n \in Names |-> NoGuild]
  /\ pending = [n \in Names |-> NoGuild]
  /\ cmd = [n \in Names |-> Idle]
  /\ told = [n \in Names |-> NoGuild]
  /\ overruled = {}

-----------------------------------------------------------------------------
Then(n, step, g) == cmd' = [cmd EXCEPT ![n] = [step |-> step, guild |-> g]]

(* db.create_guild: nothing when there is one of the name.                 *)
CreateGuild(g) == guilds' = guilds \cup {g}

(* db.delete_guild takes the members with it.                              *)
MembersWithout(g) == [n \in Names |-> IF member[n] = g THEN NoGuild ELSE member[n]]

(* db.set_member_guild: nothing for an unknown guild.  Mutant: unchecked.  *)
MemberUnchecked(n, g) == [member EXCEPT ![n] = g]

MemberWith(n, g) ==
  IF g \in guilds \cup {NoGuild} THEN [member EXCEPT ![n] = g] ELSE member

-----------------------------------------------------------------------------
(* /testcreateguild: the founding dialog.                                  *)
TestCreateGuild(n, g) ==
  /\ cmd[n] = Idle
  /\ pending' = [pending EXCEPT ![n] = g]
  /\ UNCHANGED << guilds, member, cmd, told, overruled >>

(* /createguild: found the guild, join it, and tell so in any case.        *)
CreateGuildCommand(n, g) ==
  /\ cmd[n] = Idle
  /\ CreateGuild(g)
  /\ Then(n, "promise", g)
  /\ overruled' = overruled \ {n}
  /\ UNCHANGED << member, pending, told >>

CreateGuildJoin(n) ==
  /\ cmd[n].step = "promise"
  /\ member' = MemberWith(n, cmd[n].guild)
  /\ Then(n, "answer", cmd[n].guild)
  /\ UNCHANGED << guilds, pending, told, overruled >>

(* /joinguild: a guild that is known is joined, the one the founding       *)
(* dialog was about is founded first, any other name is passed over.       *)
JoinGuild(n, g) ==
  /\ cmd[n] = Idle
  /\ Then(n, IF g \in guilds THEN "set" ELSE IF g = pending[n] THEN "found" ELSE "ask", g)
  /\ UNCHANGED << guilds, member, pending, told, overruled >>

JoinFounds(n) ==
  /\ cmd[n].step = "found"
  /\ CreateGuild(cmd[n].guild)
  /\ Then(n, "set", cmd[n].guild)
  /\ UNCHANGED << member, pending, told, overruled >>

JoinSets(n) ==
  /\ cmd[n].step = "set"
  /\ pending' = [pending EXCEPT ![n] = NoGuild]
  /\ member' = MemberWith(n, cmd[n].guild)
  /\ Then(n, "ask", cmd[n].guild)
  /\ UNCHANGED << guilds, told, overruled >>

(* The answer will be what the table says, not what was wanted.  Mutant.   *)
AnswerWanted(n) == cmd[n].guild

AnswerRead(n) == member[n]

JoinReads(n) ==
  /\ cmd[n].step = "ask"
  /\ pending' = [pending EXCEPT ![n] = NoGuild]
  /\ Then(n, "answer", AnswerRead(n))
  /\ overruled' = overruled \ {n}
  /\ UNCHANGED << guilds, member, told >>

LeaveGuild(n) ==
  /\ cmd[n] = Idle
  /\ member' = [member EXCEPT ![n] = NoGuild]
  /\ Then(n, "answer", NoGuild)
  /\ overruled' = overruled \ {n}
  /\ UNCHANGED << guilds, pending, told >>

(* /userguild is sent without the lock, whatever the dashboard did since.  *)
Answer(n) ==
  /\ cmd[n].step = "answer"
  /\ told' = [told EXCEPT ![n] = cmd[n].guild]
  /\ cmd' = [cmd EXCEPT ![n] = Idle]
  /\ UNCHANGED << guilds, member, pending, overruled >>

-----------------------------------------------------------------------------
(* The dashboard: admin/guild/create, /delete and /member.                 *)
AdminCreate(g) ==
  /\ CreateGuild(g)
  /\ UNCHANGED << member, pending, cmd, told, overruled >>

AdminDelete(g) ==
  /\ guilds' = guilds \ {g}
  /\ member' = MembersWithout(g)
  /\ overruled' = overruled \cup {n \in Names : \/ member'[n] # member[n]
                                                \/ cmd[n] = [step |-> "promise", guild |-> g]}
  /\ UNCHANGED << pending, cmd, told >>

AdminMember(n, g) ==
  /\ member' = MemberWith(n, g)
  /\ overruled' = overruled \cup {m \in Names : member'[m] # member[m]}
  /\ UNCHANGED << guilds, pending, cmd, told >>

Next ==
  \/ \E n \in Names :
       \/ \E g \in GuildNames :
            TestCreateGuild(n, g) \/ CreateGuildCommand(n, g) \/ JoinGuild(n, g)
       \/ CreateGuildJoin(n) \/ JoinFounds(n) \/ JoinSets(n) \/ JoinReads(n)
       \/ LeaveGuild(n) \/ Answer(n)
  \/ \E g \in GuildNames : AdminCreate(g) \/ AdminDelete(g)
  \/ \E n \in Names, g \in GuildNames \cup {NoGuild} : AdminMember(n, g)

Spec == Init /\ [][Next]_vars

-----------------------------------------------------------------------------
(* Nobody is in a guild that does not exist, however founding, joining and *)
(* deleting overlap (database.py:425-456).                                 *)
MembersHaveGuild == \A n \in Names : member[n] # NoGuild => member[n] \in guilds

(* A player knows which guild he is in: after /createguild, /joinguild and *)
(* /leaveguild he was told what the table says (commands.py:156-194),      *)
(* unless the dashboard changed his membership, or deleted the guild he    *)
(* was founding, after the answer was decided.  Such a change is not told. *)
MembersKnow ==
  \A n \in Names \ overruled : cmd[n] = Idle => told[n] = member[n]

(* Not so: /createguild tells of a membership in any case, "founding       *)
(* implies membership" (commands.py:163); with a deletion by the dashboard *)
(* between the founding and the joining it does not.                       *)
FoundedAsTold ==
  [][\A n \in Names : (cmd[n].step = "promise" /\ cmd'[n].step = "answer")
                        => member'[n] = cmd'[n].guild]_vars
=============================================================================
