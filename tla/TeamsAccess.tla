----------------------------- MODULE TeamsAccess -----------------------------
(***************************************************************************)
(* Preview teams and who is in them. Teams are groups of the identity API; *)
(* sync_teams, run by cron, copies them, and a login makes the teams its   *)
(* token names if they are not there yet, then gives the account the roles *)
(* and the teams of the token. Each of these reads the teams first and     *)
(* writes what follows from that later; identifiers are unique, so of two  *)
(* that create the same team one fails.                                    *)
(***************************************************************************)
EXTENDS Naturals

CONSTANTS
  Group,          \* groups that are preview teams
  Role,           \* ROLE_GROUP_IDS
  User,           \* accounts
  Login,          \* requests that may be logging somebody in at once
  SyncJob,        \* sync_teams processes
  MaxDirectory    \* bound: changes of the groups of the identity API

ASSUME TeamsAssumption ==
  /\ Group \cap Role = {}
  /\ MaxDirectory \in Nat

VARIABLES
  directory,   \* the groups of the identity API
  revision,    \* the revision of each of them, kept when it is taken away
  changes,     \* changes of the directory so far
  team,        \* the local teams
  account,     \* the roles and teams of each user
  job,         \* where each sync_teams is, and what it has read
  login,       \* where each login is, and what it has read
  shut,        \* history: the revision of each team when it was last deactivated
  last,        \* history: the groups of the token of each user's last login
  mixed        \* history: users one of whose logins failed, or of two at once

teamsVars == <<directory, revision, changes, team, account, job, login, shut, last, mixed>>

---------------------------------------------------------------------------

Provisional == 0    \* the attributes of a team that a login has made
Revision == 1 .. MaxDirectory + 1
LocalTeam == [active : BOOLEAN, revision : Revision \cup {Provisional}]
NoTeam == [active |-> FALSE]
Teams == [Group -> LocalTeam \cup {NoTeam}]

Active(g) == team[g].active
Made(teams) == {g \in Group : teams[g] # NoTeam}

NotListed == 0
IdleJob == [step |-> "idle", listed |-> [g \in Group |-> NotListed],
            existing |-> [g \in Group |-> NoTeam]]
Job == [step : {"idle", "fetched", "read"}, listed : [Group -> Revision \cup {NotListed}],
        existing : Teams]

NoUser == "nobody"
NoLogin == [step |-> "idle", user |-> NoUser, groups |-> {}, missing |-> {}]
LoginState == [step : {"idle", "roles", "teams"}, user : User \cup {NoUser},
               groups : SUBSET (Group \cup Role), missing : SUBSET Group]

TeamsTypeOK ==
  /\ directory \subseteq Group
  /\ revision \in [Group -> Revision]
  /\ changes \in 0 .. MaxDirectory
  /\ team \in Teams
  /\ account \in [User -> [roles : SUBSET Role, teams : SUBSET Group]]
  /\ job \in [SyncJob -> Job]
  /\ login \in [Login -> LoginState]
  /\ shut \in [Group -> Revision \cup {Provisional}]
  /\ last \in [User -> SUBSET (Group \cup Role)]
  /\ mixed \subseteq User

---------------------------------------------------------------------------
(* The identity API                                                        *)

\* A group is taken away, put back or changed; its dates and name, standing for
\* which is the revision, are kept by the API.
ChangeGroup(g, revised) ==
  /\ changes < MaxDirectory
  /\ changes' = changes + 1
  /\ directory' = IF revised THEN directory \cup {g} ELSE (directory \ {g}) \cup ({g} \ directory)
  /\ revision' = IF revised THEN [revision EXCEPT ![g] = changes + 2] ELSE revision
  /\ UNCHANGED <<team, account, job, login, last, mixed, shut>>

---------------------------------------------------------------------------
(* sync_teams                                                              *)

\* fetch_groups_from_api; a call that fails ends the command.
FetchGroups(j) ==
  /\ job[j].step = "idle"
  /\ job' = [job EXCEPT ![j] = [IdleJob EXCEPT !.step = "fetched",
       !.listed = [g \in Group |-> IF g \in directory THEN revision[g] ELSE NotListed]]]
  /\ UNCHANGED <<directory, revision, changes, team, account, login, last, mixed, shut>>

\* update_teams begins with the teams there are.
ReadTeams(j) ==
  /\ job[j].step = "fetched"
  /\ job' = [job EXCEPT ![j].step = "read", ![j].existing = team]
  /\ UNCHANGED <<directory, revision, changes, team, account, login, last, mixed, shut>>

\* Mutant: a changed team is not made active again.
Updated_Silently(old, listed) == [active |-> old.active, revision |-> listed]

\* _update_team saves the whole row.
Updated(old, listed) == [active |-> TRUE, revision |-> listed]

\* What the job makes of the team g: what it has read, but for a team it leaves
\* alone or deactivates, whose row is as it is now.
Synced(j, g) ==
  LET listed == job[j].listed[g]
      old == job[j].existing[g] IN
  IF listed = NotListed
  THEN IF old.active THEN [team[g] EXCEPT !.active = FALSE] ELSE team[g]
  ELSE IF old = NoTeam THEN [active |-> TRUE, revision |-> listed]
  ELSE IF old.revision # listed THEN Updated(old, listed) ELSE team[g]

Creating(j) == {g \in Group : job[j].listed[g] # NotListed /\ job[j].existing[g] = NoTeam}

\* One transaction: a team that somebody else has made since rolls it back.
WriteTeams(j) ==
  /\ job[j].step = "read"
  /\ team' = IF Creating(j) \cap Made(team) # {} THEN team ELSE [g \in Group |-> Synced(j, g)]
  /\ shut' = [g \in Group |-> IF Active(g) /\ ~team'[g].active THEN team[g].revision ELSE shut[g]]
  /\ job' = [job EXCEPT ![j] = IdleJob]
  /\ UNCHANGED <<directory, revision, changes, account, login, last, mixed>>

---------------------------------------------------------------------------
(* _authenticate_user                                                      *)

\* Mutant: roles are given and never taken away.
RolesBy_AddOnly(old, groups) == old \cup (groups \cap Role)

\* _assign_groups
RolesBy(old, groups) == groups \cap Role

\* A new token of the user, whatever groups it names: first the roles.
AssignGroups(l, u, groups) ==
  /\ login[l].step = "idle"
  /\ account' = [account EXCEPT ![u].roles = RolesBy(@, groups)]
  /\ login' = [login EXCEPT ![l] = [NoLogin EXCEPT !.step = "roles", !.user = u, !.groups = groups]]
  /\ mixed' = IF \E k \in Login \ {l} : login[k].user = u THEN mixed \cup {u} ELSE mixed
  /\ UNCHANGED <<directory, revision, changes, team, job, last, shut>>

\* _assign_teams: those of the teams that do not exist.
FindMissing(l) ==
  /\ login[l].step = "roles"
  /\ login' = [login EXCEPT ![l].step = "teams",
                            ![l].missing = (login[l].groups \cap Group) \ Made(team)]
  /\ UNCHANGED <<directory, revision, changes, team, account, job, last, mixed, shut>>

\* bulk_create, and teams.set.
AssignTeams(l) ==
  /\ login[l].step = "teams"
  /\ login[l].missing \cap Made(team) = {}
  /\ team' = [g \in Group |-> IF g \in login[l].missing
                              THEN [active |-> TRUE, revision |-> Provisional] ELSE team[g]]
  /\ account' = [account EXCEPT ![login[l].user].teams = login[l].groups \cap Group]
  /\ login' = [login EXCEPT ![l] = NoLogin]
  /\ last' = [last EXCEPT ![login[l].user] = login[l].groups]
  /\ UNCHANGED <<directory, revision, changes, job, mixed, shut>>

\* Another request or a sync has made one of them: the login fails, its roles stay.
AssignTeamsFails(l) ==
  /\ login[l].step = "teams"
  /\ login[l].missing \cap Made(team) # {}
  /\ login' = [login EXCEPT ![l] = NoLogin]
  /\ mixed' = mixed \cup {login[l].user}
  /\ UNCHANGED <<directory, revision, changes, team, account, job, last, shut>>

---------------------------------------------------------------------------

TeamsInit ==
  /\ directory \in SUBSET Group
  /\ revision = [g \in Group |-> 1]
  /\ changes = 0
  /\ team = [g \in Group |-> NoTeam]
  /\ account = [u \in User |-> [roles |-> {}, teams |-> {}]]
  /\ job = [j \in SyncJob |-> IdleJob]
  /\ login = [l \in Login |-> NoLogin]
  /\ shut = [g \in Group |-> Provisional]
  /\ last = [u \in User |-> {}]
  /\ mixed = {}

SyncTeams(j) == FetchGroups(j) \/ ReadTeams(j) \/ WriteTeams(j)

TeamsNext ==
  \/ \E g \in Group, revised \in BOOLEAN : ChangeGroup(g, revised)
  \/ \E j \in SyncJob : SyncTeams(j)
  \/ \E l \in Login, u \in User, groups \in SUBSET (Group \cup Role) : AssignGroups(l, u, groups)
  \/ \E l \in Login : FindMissing(l) \/ AssignTeams(l) \/ AssignTeamsFails(l)

TeamsSpec == TeamsInit /\ [][TeamsNext]_teamsVars

\* cron runs the command again and again.
TeamsFairness == \A j \in SyncJob : WF_teamsVars(SyncTeams(j))

---------------------------------------------------------------------------
(* Properties                                                              *)

\* A team that was deactivated and is listed again just as it was: sync_teams
\* sees nothing to update.
Overlooked(g) == ~Active(g) /\ shut[g] = revision[g]

\* Once the directory is left alone the active teams are those it lists, whatever
\* syncs overlapped and whatever teams logins made or made first - but for those
\* overlooked (sync_teams.update_teams).
TeamsConverge ==
  <>[](\A g \in Group : Active(g) <=> g \in directory /\ ~Overlooked(g))

\* Between logins a user's roles and teams are those of the last token, unless a
\* login failed between the two or two logins of the user crossed
\* (assign_groups_and_teams, which no transaction surrounds).
OneToken ==
  \A u \in User \ mixed :
    (\A l \in Login : login[l].user # u) =>
      account[u] = [roles |-> last[u] \cap Role, teams |-> last[u] \cap Group]
=============================================================================
