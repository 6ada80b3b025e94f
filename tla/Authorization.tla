---------------------------- MODULE Authorization ----------------------------
(***************************************************************************)
(* Who may see and touch what: the guards of the routes, which resolve a   *)
(* row to its project, and the lists, which filter rows by the projects of *)
(* the caller's teams (internal/service/authz_service.go,                  *)
(* internal/api/v1/guards.go).  The two are separate queries and must      *)
(* agree.                                                                  *)
(*                                                                         *)
(* w holds the rows of the database: live, the projects that are not       *)
(* deleted; org and team of each project; member, pairs of a user and a    *)
(* team; there, the other rows that are not deleted; and what these refer  *)
(* to.  c is the caller that the token or the API key stands for.          *)
(***************************************************************************)

IsPrivileged(c) == c.role = "admin"
RequireRole(c, roles) == c.role \in roles

ListTeamIDsByUser(w, u) == {m[2] : m \in {n \in w.member : n[1] = u}}
ListIDsByTeams(w, org, teams) == {p \in w.live : w.org[p] = org /\ w.team[p] \in teams}

(* AccessibleProjectIDs: administrators are not filtered.                  *)
Shows(w, c, p) ==
  IsPrivileged(c) \/ p \in ListIDsByTeams(w, c.org, ListTeamIDsByUser(w, c.user))

CanAccessProject(w, c, p) ==
  /\ p \in w.live /\ w.org[p] = c.org
  /\ IsPrivileged(c) \/ w.team[p] \in ListTeamIDsByUser(w, c.user)

(* The guards of applications, databases, pages, workers and cron jobs.    *)
App(w, c, x) == x \in w.there /\ CanAccessProject(w, c, w.project[x])
Database(w, c, x) == App(w, c, x)
Page(w, c, x) == App(w, c, x)
Worker(w, c, x) == App(w, c, x)
CronJob(w, c, x) == App(w, c, x)

(* Deployments and domains are reached by their application.               *)
Deployment(w, c, d) == d \in w.there /\ App(w, c, w.app[d])
Domain(w, c, d) == Deployment(w, c, d)

(* The lists; that of the deployments goes by a copy of the project.       *)
Listed(w, c, x) == x \in w.there /\ Shows(w, c, w.project[x])

(* A member is shown exactly the rows that the guards let him at.          *)
ListsAgree(w, c, x) == c.role = "member" => (Listed(w, c, x) <=> App(w, c, x))

(* An administrator is shown them too, and besides only rows of a deleted  *)
(* project, or of another organization.                                    *)
AdminsSeeMore(w, c, x) ==
  LET p == w.project[x] IN
  IsPrivileged(c) => (App(w, c, x) <=> Listed(w, c, x) /\ p \in w.live /\ w.org[p] = c.org)

(* A deployment, where the copy is right, may be touched only if it and    *)
(* its application are listed; and, by a member, whenever they are.        *)
DeploymentsFollow(w, c, d) ==
  w.project[d] = w.project[w.app[d]] =>
    /\ Deployment(w, c, d) => Listed(w, c, d) /\ Listed(w, c, w.app[d])
    /\ c.role = "member" /\ Listed(w, c, d) /\ Listed(w, c, w.app[d]) => Deployment(w, c, d)
=============================================================================
