--------------------------- MODULE TeamsAccessProofs ---------------------------
(***************************************************************************)
(* Proofs about TeamsAccess, for any number of groups, roles, users, syncs *)
(* and logins: types, and that between logins an account is what its last  *)
(* token says.                                                             *)
(***************************************************************************)
EXTENDS TeamsAccess, TLAPS

---------------------------------------------------------------------------
(* Types                                                                   *)

\* A login that has begun is somebody's.
BegunIsSomebodys == \A l \in Login : login[l].step # "idle" => login[l].user \in User

TypeInv == TeamsTypeOK /\ BegunIsSomebodys

LEMMA TypesInitially ==
  ASSUME TeamsInit
  PROVE  TypeInv
  <1>1. 1 \in Revision /\ 0 \in 0 .. MaxDirectory
    BY TeamsAssumption DEF Revision
  <1>2. job \in [SyncJob -> Job]
    BY DEF TeamsInit, IdleJob, Job, Teams
  <1>3. login \in [Login -> LoginState]
    BY DEF TeamsInit, NoLogin, LoginState
  <1>4. BegunIsSomebodys
    BY DEF TeamsInit, NoLogin, BegunIsSomebodys
  <1>5. QED
    BY <1>1, <1>2, <1>3, <1>4 DEF TeamsInit, TypeInv, TeamsTypeOK, Teams

LEMMA RevisionsType ==
  ASSUME TypeInv
  PROVE  /\ revision \in [Group -> Revision]
         /\ team \in Teams
         /\ changes \in 0 .. MaxDirectory
         /\ \A g \in Group : team[g].active \in BOOLEAN
         /\ \A g \in Group : Active(g) => team[g].revision \in Revision \cup {Provisional}
  <1>1. ASSUME NEW g \in Group
        PROVE  /\ team[g].active \in BOOLEAN
               /\ Active(g) => team[g].revision \in Revision \cup {Provisional}
    <2>1. CASE team[g] \in LocalTeam
      BY <2>1 DEF LocalTeam
    <2>2. CASE team[g] = NoTeam
      BY <2>2 DEF NoTeam, Active
    <2>3. team[g] \in LocalTeam \cup {NoTeam}
      BY DEF TypeInv, TeamsTypeOK, Teams
    <2>4. QED
      BY <2>1, <2>2, <2>3
  <1>2. QED
    BY <1>1 DEF TypeInv, TeamsTypeOK

LEMMA DirectoryTypes ==
  ASSUME TypeInv, NEW g \in Group, NEW revised \in BOOLEAN, ChangeGroup(g, revised)
  PROVE  TypeInv'
  <1>1. changes + 1 \in 0 .. MaxDirectory /\ changes + 2 \in Revision
    BY RevisionsType, TeamsAssumption DEF ChangeGroup, Revision
  <1>2. revision' \in [Group -> Revision] /\ changes' \in 0 .. MaxDirectory
    BY <1>1, RevisionsType DEF ChangeGroup
  <1>3. directory' \subseteq Group
    BY DEF ChangeGroup, TypeInv, TeamsTypeOK
  <1>4. QED
    BY <1>2, <1>3 DEF ChangeGroup, TypeInv, TeamsTypeOK, BegunIsSomebodys

LEMMA NoTeamKept == [NoTeam EXCEPT !.active = FALSE] = NoTeam
  <1>1. \A r, s \in [active : BOOLEAN] : r.active = s.active => r = s
    OBVIOUS
  <1>2. /\ [NoTeam EXCEPT !.active = FALSE] \in [active : BOOLEAN]
        /\ NoTeam \in [active : BOOLEAN]
    BY DEF NoTeam
  <1>3. [NoTeam EXCEPT !.active = FALSE].active = NoTeam.active
    BY DEF NoTeam
  <1>4. QED
    BY <1>1, <1>2, <1>3

\* What a sync makes of a team is a team, or still none.
LEMMA SyncedType ==
  ASSUME TypeInv, NEW j \in SyncJob, NEW g \in Group
  PROVE  Synced(j, g) \in LocalTeam \cup {NoTeam}
  <1>1. job[j] \in Job /\ team[g] \in LocalTeam \cup {NoTeam}
    BY DEF TypeInv, TeamsTypeOK, Teams
  <1>2. /\ job[j].listed[g] \in Revision \cup {NotListed}
        /\ job[j].existing[g] \in LocalTeam \cup {NoTeam}
    BY <1>1 DEF Job, Teams
  <1>3. [team[g] EXCEPT !.active = FALSE] \in LocalTeam \cup {NoTeam}
    <2>1. CASE team[g] \in LocalTeam
      BY <2>1 DEF LocalTeam
    <2>2. CASE team[g] = NoTeam
      BY <2>2, NoTeamKept
    <2>3. QED
      BY <1>1, <2>1, <2>2
  <1>4. ASSUME job[j].listed[g] # NotListed
        PROVE  [active |-> TRUE, revision |-> job[j].listed[g]] \in LocalTeam
    BY <1>2, <1>4 DEF LocalTeam
  <1>5. QED
    BY <1>1, <1>3, <1>4 DEF Synced, Updated

LEMMA SyncTypes ==
  ASSUME TypeInv, NEW j \in SyncJob, SyncTeams(j)
  PROVE  TypeInv'
  <1>t. job \in [SyncJob -> Job]
    BY DEF TypeInv, TeamsTypeOK
  <1>1. CASE FetchGroups(j)
    <2> DEFINE listed == [g \in Group |-> IF g \in directory THEN revision[g] ELSE NotListed]
               new == [IdleJob EXCEPT !.step = "fetched", !.listed = listed]
    <2>1. listed \in [Group -> Revision \cup {NotListed}]
      BY RevisionsType
    <2>2. new \in Job
      BY <2>1 DEF IdleJob, Job, Teams
    <2>3. job' \in [SyncJob -> Job]
      BY <1>1, <1>t, <2>2 DEF FetchGroups
    <2>4. QED
      BY <1>1, <2>3 DEF FetchGroups, TypeInv, TeamsTypeOK, BegunIsSomebodys
  <1>2. CASE ReadTeams(j)
    <2>1. job' \in [SyncJob -> Job]
      BY <1>2, <1>t, RevisionsType DEF ReadTeams, Job
    <2>2. QED
      BY <1>2, <2>1 DEF ReadTeams, TypeInv, TeamsTypeOK, BegunIsSomebodys
  <1>3. CASE WriteTeams(j)
    <2>1. team' \in Teams
      BY <1>3, SyncedType, RevisionsType DEF WriteTeams, Teams
    <2>2. IdleJob \in Job
      BY DEF IdleJob, Job, Teams
    <2>3. job' \in [SyncJob -> Job]
      BY <1>3, <1>t, <2>2 DEF WriteTeams
    <2>4. shut' \in [Group -> Revision \cup {Provisional}]
      BY <1>3, RevisionsType DEF WriteTeams, TypeInv, TeamsTypeOK
    <2>5. QED
      BY <1>3, <2>1, <2>3, <2>4 DEF WriteTeams, TypeInv, TeamsTypeOK, BegunIsSomebodys
  <1>4. QED
    BY <1>1, <1>2, <1>3 DEF SyncTeams

LEMMA LoginTypes ==
  ASSUME TypeInv, NEW l \in Login,
         \/ \E u \in User, groups \in SUBSET (Group \cup Role) : AssignGroups(l, u, groups)
         \/ FindMissing(l) \/ AssignTeams(l) \/ AssignTeamsFails(l)
  PROVE  TypeInv'
  <1>t. /\ login \in [Login -> LoginState] /\ login[l] \in LoginState
        /\ account \in [User -> [roles : SUBSET Role, teams : SUBSET Group]]
        /\ last \in [User -> SUBSET (Group \cup Role)] /\ mixed \subseteq User
    BY DEF TypeInv, TeamsTypeOK
  <1>u. login[l].step # "idle" => login[l].user \in User
    BY DEF TypeInv, BegunIsSomebodys
  <1>none. NoLogin \in LoginState /\ NoLogin.step = "idle"
    BY DEF NoLogin, LoginState
  <1>1. ASSUME NEW new \in LoginState, login' = [login EXCEPT ![l] = new],
               new.step # "idle" => new.user \in User
        PROVE  login' \in [Login -> LoginState] /\ BegunIsSomebodys'
    BY <1>1, <1>t DEF BegunIsSomebodys, TypeInv
  <1>2. ASSUME NEW u \in User, NEW groups \in SUBSET (Group \cup Role), AssignGroups(l, u, groups)
        PROVE  TypeInv'
    <2> DEFINE new == [NoLogin EXCEPT !.step = "roles", !.user = u, !.groups = groups]
    <2>1. new \in LoginState /\ new.user \in User
      BY DEF NoLogin, LoginState
    <2>2. login' \in [Login -> LoginState] /\ BegunIsSomebodys'
      BY <1>1, <1>2, <2>1 DEF AssignGroups
    <2>3. account' \in [User -> [roles : SUBSET Role, teams : SUBSET Group]]
      BY <1>2, <1>t DEF AssignGroups, RolesBy
    <2>4. mixed' \subseteq User
      BY <1>2, <1>t DEF AssignGroups
    <2>5. QED
      BY <1>2, <2>2, <2>3, <2>4 DEF AssignGroups, TypeInv, TeamsTypeOK
  <1>3. CASE FindMissing(l)
    <2> DEFINE new == [login[l] EXCEPT !.step = "teams",
                                       !.missing = (login[l].groups \cap Group) \ Made(team)]
    <2>1. login' = [login EXCEPT ![l] = new] /\ login[l].step # "idle"
      BY <1>3, <1>t DEF FindMissing, LoginState
    <2>2. new \in LoginState /\ new.user \in User
      BY <1>t, <1>u, <2>1 DEF LoginState
    <2>3. login' \in [Login -> LoginState] /\ BegunIsSomebodys'
      BY <1>1, <2>1, <2>2
    <2>4. QED
      BY <1>3, <2>3 DEF FindMissing, TypeInv, TeamsTypeOK
  <1>4. CASE AssignTeams(l)
    <2>1. login' \in [Login -> LoginState] /\ BegunIsSomebodys'
      BY <1>1, <1>4, <1>none DEF AssignTeams
    <2>2. team' \in Teams
      BY <1>4, RevisionsType DEF AssignTeams, Teams, LocalTeam
    <2>3. /\ account' \in [User -> [roles : SUBSET Role, teams : SUBSET Group]]
          /\ last' \in [User -> SUBSET (Group \cup Role)]
      BY <1>4, <1>t, <1>u DEF AssignTeams, LoginState
    <2>4. QED
      BY <1>4, <2>1, <2>2, <2>3 DEF AssignTeams, TypeInv, TeamsTypeOK
  <1>5. CASE AssignTeamsFails(l)
    <2>1. login' \in [Login -> LoginState] /\ BegunIsSomebodys'
      BY <1>1, <1>5, <1>none DEF AssignTeamsFails
    <2>2. mixed' \subseteq User
      BY <1>5, <1>t, <1>u DEF AssignTeamsFails
    <2>3. QED
      BY <1>5, <2>1, <2>2 DEF AssignTeamsFails, TypeInv, TeamsTypeOK
  <1>6. QED
    BY <1>2, <1>3, <1>4, <1>5

LEMMA TypesKept ==
  ASSUME TypeInv, [TeamsNext]_teamsVars
  PROVE  TypeInv'
  <1>1. CASE UNCHANGED teamsVars
    BY <1>1 DEF teamsVars, TypeInv, TeamsTypeOK, BegunIsSomebodys
  <1>2. QED
    BY <1>1, DirectoryTypes, SyncTypes, LoginTypes DEF TeamsNext

\* Every variable keeps its type: the rows of teams and users, and what syncs
\* and logins have read.
THEOREM TeamsTypes == TeamsSpec => []TeamsTypeOK
  <1>1. TypeInv => TeamsTypeOK
    BY DEF TypeInv
  <1>2. QED
    BY <1>1, TypesInitially, TypesKept, PTL DEF TeamsSpec

---------------------------------------------------------------------------
(* Accounts and tokens                                                     *)

LogsIn(l, u) == login[l].step # "idle" /\ login[l].user = u

\* Of a user nothing went wrong with: no two logins at once,
OneLogin ==
  \A u \in User \ mixed : \A k, l \in Login : LogsIn(k, u) /\ LogsIn(l, u) => k = l

\* during a login the roles are those of the new token already,
RolesFirst ==
  \A u \in User \ mixed : \A l \in Login :
    LogsIn(l, u) => account[u].roles = login[l].groups \cap Role

\* and between logins the account is that of the last one.
AsTheLast ==
  \A u \in User \ mixed :
    (\A l \in Login : ~LogsIn(l, u)) =>
      account[u] = [roles |-> last[u] \cap Role, teams |-> last[u] \cap Group]

TokenInv == TypeInv /\ OneLogin /\ RolesFirst /\ AsTheLast

\* The change of groups and the syncs concern nobody's account.
LEMMA AccountsUntouched ==
  ASSUME TokenInv, UNCHANGED <<account, login, last, mixed>>
  PROVE  (OneLogin /\ RolesFirst /\ AsTheLast)'
  BY DEF TokenInv, OneLogin, RolesFirst, AsTheLast, LogsIn

LEMMA BeginsWithRoles ==
  ASSUME TokenInv, NEW l \in Login, NEW u \in User, NEW groups \in SUBSET (Group \cup Role),
         AssignGroups(l, u, groups)
  PROVE  (OneLogin /\ RolesFirst /\ AsTheLast)'
  <1>t. /\ login \in [Login -> LoginState]
        /\ account \in [User -> [roles : SUBSET Role, teams : SUBSET Group]]
    BY DEF TokenInv, TypeInv, TeamsTypeOK
  <1>1. login'[l].step = "roles" /\ login'[l].user = u /\ login'[l].groups = groups
    BY <1>t DEF AssignGroups, NoLogin
  <1>2. \A k \in Login \ {l} : login'[k] = login[k]
    BY <1>t DEF AssignGroups
  <1>3. /\ \A v \in User \ {u} : account'[v] = account[v]
        /\ account'[u].roles = groups \cap Role
    BY <1>t DEF AssignGroups, RolesBy
  <1>4. \A v \in User : \A k \in Login \ {l} : LogsIn(k, v)' <=> LogsIn(k, v)
    BY <1>2 DEF LogsIn
  <1>5. LogsIn(l, u)' /\ ~LogsIn(l, u) /\ \A v \in User \ {u} : ~LogsIn(l, v)' /\ ~LogsIn(l, v)
    BY <1>1 DEF LogsIn, AssignGroups
  <1>6. mixed \subseteq mixed' /\ (u \notin mixed' => \A k \in Login \ {l} : ~LogsIn(k, u))
    BY DEF AssignGroups, LogsIn
  <1>7. UNCHANGED last
    BY DEF AssignGroups
  <1>8. OneLogin'
    BY <1>4, <1>5, <1>6 DEF TokenInv, OneLogin
  <1>9. RolesFirst'
    BY <1>1, <1>2, <1>3, <1>4, <1>5, <1>6 DEF TokenInv, RolesFirst
  <1>10. AsTheLast'
    BY <1>3, <1>4, <1>5, <1>6, <1>7 DEF TokenInv, AsTheLast
  <1>11. QED
    BY <1>8, <1>9, <1>10

LEMMA GoesOnToTeams ==
  ASSUME TokenInv, NEW l \in Login, FindMissing(l)
  PROVE  (OneLogin /\ RolesFirst /\ AsTheLast)'
  <1>1. /\ login[l].step # "idle" /\ login'[l].step # "idle"
        /\ login'[l].user = login[l].user /\ login'[l].groups = login[l].groups
        /\ \A k \in Login \ {l} : login'[k] = login[k]
    BY DEF FindMissing, TokenInv, TypeInv, TeamsTypeOK, LoginState
  <1>2. /\ \A u \in User : \A k \in Login : LogsIn(k, u)' <=> LogsIn(k, u)
        /\ \A k \in Login : login'[k].groups = login[k].groups
    BY <1>1 DEF LogsIn
  <1>3. UNCHANGED <<account, last, mixed>>
    BY DEF FindMissing
  <1>4. QED
    BY <1>2, <1>3 DEF TokenInv, OneLogin, RolesFirst, AsTheLast

\* A login ends: the user's teams are set, or the user counts as mixed.
LEMMA EndsWithTeams ==
  ASSUME TokenInv, NEW l \in Login, AssignTeams(l) \/ AssignTeamsFails(l)
  PROVE  (OneLogin /\ RolesFirst /\ AsTheLast)'
  <1>u. login[l].step # "idle" /\ login[l].user \in User
    BY DEF AssignTeams, AssignTeamsFails, TokenInv, TypeInv, BegunIsSomebodys
  <1> PICK u \in User : u = login[l].user
    BY <1>u
  <1>t. /\ login \in [Login -> LoginState] /\ LogsIn(l, u)
        /\ account \in [User -> [roles : SUBSET Role, teams : SUBSET Group]]
        /\ last \in [User -> SUBSET (Group \cup Role)]
    BY <1>u DEF LogsIn, TokenInv, TypeInv, TeamsTypeOK
  <1>1. /\ login' = [login EXCEPT ![l] = NoLogin]
        /\ mixed \subseteq mixed'
    BY DEF AssignTeams, AssignTeamsFails
  <1>2. /\ \A v \in User : ~LogsIn(l, v)'
        /\ \A k \in Login \ {l} : login'[k] = login[k]
        /\ \A v \in User : \A k \in Login \ {l} : LogsIn(k, v)' <=> LogsIn(k, v)
    BY <1>t, <1>1 DEF LogsIn, NoLogin
  <1>3. \A v \in User \ {u} : /\ account'[v] = account[v] /\ last'[v] = last[v]
                             /\ ~LogsIn(l, v)
    BY <1>t DEF AssignTeams, AssignTeamsFails, LogsIn
  <1>4. ASSUME u \notin mixed'
        PROVE  /\ u \notin mixed /\ \A k \in Login : ~LogsIn(k, u)'
               /\ account'[u] = [roles |-> last'[u] \cap Role, teams |-> last'[u] \cap Group]
    <2>1. u \notin mixed /\ AssignTeams(l)
      BY <1>1, <1>4 DEF AssignTeamsFails
    <2>2. \A k \in Login \ {l} : ~LogsIn(k, u)
      BY <1>t, <2>1 DEF TokenInv, OneLogin
    <2>3. account[u].roles = login[l].groups \cap Role
      BY <1>t, <2>1 DEF TokenInv, RolesFirst
    <2>4. last'[u] = login[l].groups
      BY <1>t, <2>1 DEF AssignTeams
    <2>5. account'[u] = [account[u] EXCEPT !.teams = login[l].groups \cap Group]
      BY <1>t, <2>1 DEF AssignTeams
    <2>6. account[u] \in [roles : SUBSET Role, teams : SUBSET Group]
      BY <1>t
    <2>7. account'[u] = [roles |-> last'[u] \cap Role, teams |-> last'[u] \cap Group]
      BY <2>3, <2>4, <2>5, <2>6
    <2>8. QED
      BY <1>2, <2>1, <2>2, <2>7
  <1>5. OneLogin'
    BY <1>1, <1>2 DEF TokenInv, OneLogin
  <1>6. RolesFirst'
    <2> SUFFICES ASSUME NEW v \in User \ mixed', NEW k \in Login, LogsIn(k, v)'
                 PROVE  account'[v].roles = login'[k].groups \cap Role
      BY DEF RolesFirst
    <2>1. v # u
      BY <1>4
    <2>2. k # l /\ LogsIn(k, v) /\ login'[k] = login[k] /\ v \notin mixed
      BY <1>1, <1>2
    <2>3. QED
      BY <1>3, <2>1, <2>2 DEF TokenInv, RolesFirst
  <1>7. AsTheLast'
    <2> SUFFICES ASSUME NEW v \in User \ mixed', \A k \in Login : ~LogsIn(k, v)'
                 PROVE  account'[v] = [roles |-> last'[v] \cap Role, teams |-> last'[v] \cap Group]
      BY DEF AsTheLast
    <2>1. CASE v = u
      BY <1>4, <2>1
    <2>2. CASE v # u
      <3>1. v \notin mixed /\ \A k \in Login : ~LogsIn(k, v)
        BY <1>1, <1>2, <1>3, <2>2
      <3>2. QED
        BY <1>3, <2>2, <3>1 DEF TokenInv, AsTheLast
    <2>3. QED
      BY <2>1, <2>2
  <1>8. QED
    BY <1>5, <1>6, <1>7

LEMMA TokenKept ==
  ASSUME TokenInv, [TeamsNext]_teamsVars
  PROVE  TokenInv'
  <1>1. TypeInv'
    BY TypesKept DEF TokenInv
  <1>2. CASE \/ \E g \in Group, revised \in BOOLEAN : ChangeGroup(g, revised)
             \/ \E j \in SyncJob : SyncTeams(j)
             \/ UNCHANGED teamsVars
    <2>1. UNCHANGED <<account, login, last, mixed>>
      BY <1>2 DEF ChangeGroup, SyncTeams, FetchGroups, ReadTeams, WriteTeams, teamsVars
    <2>2. QED
      BY <1>1, <2>1, AccountsUntouched DEF TokenInv
  <1>3. QED
    BY <1>1, <1>2, BeginsWithRoles, GoesOnToTeams, EndsWithTeams DEF TeamsNext, TokenInv

\* Between logins the roles and teams of a user are those of the last token,
\* however logins of others, syncs and changes of the groups interleave with
\* them - unless a login of the user failed half-way or two of them crossed
\* (assign_groups_and_teams).
THEOREM AccountsAreAsTheToken == TeamsSpec => []OneToken
  <1>1. TeamsInit => TokenInv
    BY TypesInitially DEF TeamsInit, TokenInv, OneLogin, RolesFirst, AsTheLast, LogsIn, NoLogin
  <1>2. TokenInv => OneToken
    BY DEF TokenInv, AsTheLast, LogsIn, OneToken
  <1>3. QED
    BY <1>1, <1>2, TokenKept, PTL DEF TeamsSpec
=============================================================================
