------------------------------ MODULE MCServices ------------------------------
(***************************************************************************)
(* PrivateMedia, SearchIndex, BundleAPISync, TeamsAccess and the three     *)
(* models of a page's editing on small instances. They share no state, so  *)
(* a behaviour is one of just one of them, the area; the others rest.      *)
(***************************************************************************)
EXTENDS PrivateMedia, SearchIndex, BundleAPISync, TeamsAccess,
        ArticleCorrections, ReleaseCalendar, PageWorkflow

CONSTANTS Media, Search, Datasets, Teaming, Articles, Calendar, Reviewing

VARIABLE area

editingVars == <<articleVars, calendarVars, workflowVars>>
servicesVars == <<area, mediaVars, searchVars, syncVars, teamsVars, editingVars>>

\* An area that rests does so in one of its initial states.
SearchRests ==
  /\ status = [p \in SearchPage |-> "draft"]
  /\ above = [p \in SearchPage |-> Home]
  /\ slug = CHOOSE s \in [SearchPage -> Slug] : \A p, q \in SearchPage : s[p] = s[q] => p = q

ServicesInit ==
  /\ area \in {Media, Search, Datasets, Teaming, Articles, Calendar, Reviewing}
  /\ MediaInit /\ SearchInit /\ SyncInit /\ TeamsInit
  /\ ArticleInit /\ CalendarInit /\ WorkflowInit
  /\ area # Search => SearchRests
  /\ area # Teaming => directory = {}
  /\ area # Calendar => announced.date = CHOOSE d \in ReleaseDate : TRUE

\* Media, search, datasets and teams rest.
ServicesRest == UNCHANGED <<area, mediaVars, searchVars, syncVars, teamsVars>>

ServicesNext ==
  \/ area = Media /\ MediaNext /\ UNCHANGED <<area, searchVars, syncVars, teamsVars, editingVars>>
  \/ area = Search /\ SearchNext /\ UNCHANGED <<area, mediaVars, syncVars, teamsVars, editingVars>>
  \/ area = Datasets /\ SyncNext /\ UNCHANGED <<area, mediaVars, searchVars, teamsVars, editingVars>>
  \/ area = Teaming /\ TeamsNext /\ UNCHANGED <<area, mediaVars, searchVars, syncVars, editingVars>>
  \/ area = Articles /\ ArticleNext /\ ServicesRest /\ UNCHANGED <<calendarVars, workflowVars>>
  \/ area = Calendar /\ CalendarNext /\ ServicesRest /\ UNCHANGED <<articleVars, workflowVars>>
  \/ area = Reviewing /\ WorkflowNext /\ ServicesRest /\ UNCHANGED <<articleVars, calendarVars>>

\* MediaFairness asks nothing of an area where there is no media; sync_teams
\* would always be due.
ServicesSpec ==
  /\ ServicesInit
  /\ [][ServicesNext]_servicesVars
  /\ MediaFairness
  /\ \A j \in SyncJob : WF_teamsVars(area = Teaming /\ SyncTeams(j))
=============================================================================
