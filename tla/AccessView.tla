------------------------------ MODULE AccessView ------------------------------
(***************************************************************************)
(* What the dashboard says about who reaches what: the grid of the access  *)
(* page, its list of grants and the two dots beside each secret, all       *)
(* computed in the browser from the grants the core lists for a project    *)
(* (store/grants.go, web/components/access-grid.tsx, access-matrix.tsx).   *)
(* The core decides by another rule, in another language (Authz); nothing  *)
(* but care keeps the two together.                                        *)
(***************************************************************************)
EXTENDS AccessControl

\* Not revoked; expired ones, and those of members who left, are listed too.
ListForProject(project) == {g \in GrantRows : g.project \in {project, Nil} /\ ~g.revoked}

\* Mutant: grants on the whole project are left out of the grids.
ByEnvironment(g, e) == g.environment = e

\* A project grant covers every environment.
Applicable(g, e) == g.environment \in {Nil, e}

\* The cells of AccessGrid, and the dots of the secrets table.
Reaches(e, s, x) ==
  UNION {g.capabilities \cap SecretPlane :
           g \in {h \in ListForProject(ProjectOf[e]) :
                    Applicable(h, e) /\ h.subject = s /\ h.secret \in {Nil, x}}}

\* AccessMatrix: the group a grant is read and revoked in.
GroupOf(g) == IF g.environment = Nil THEN "All environments" ELSE g.environment

Groups(project) ==
  {"All environments"} \cup {e \in Environments : ProjectOf[e] = project}

-----------------------------------------------------------------------------
(* Properties *)

Lapsed(g) == ~g.revoked /\ g.expires <= now

\* Whatever the core would let a subject do with a value, the grid shows, and
\* the grant that allows it stands in a group of the same page; what the grid
\* shows beyond that comes from grants that have lapsed and no other
\* (the comment on ListForProject: "both answers come from one place").
GridShowsEveryReach ==
  \A s \in Subjects, x \in Secrets, c \in SecretPlane :
    LET e       == EnvironmentOf[x]
        allowed == MayUse(Scoped(s, Nil), c, x)
        covers  == {g \in ListForProject(ProjectOf[e]) :
                      g.subject = s /\ c \in g.capabilities /\ grantCovers(g, Whereabouts(x))}
    IN
    /\ allowed => c \in Reaches(e, s, x) /\ \E g \in covers : GroupOf(g) \in Groups(ProjectOf[e])
    /\ c \in Reaches(e, s, x) /\ ~allowed => \A g \in covers : Lapsed(g)
    /\ c \in Reaches(e, s, x) => covers # {}
=============================================================================
