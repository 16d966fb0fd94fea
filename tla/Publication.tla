---------------------------- MODULE Publication ----------------------------
(***************************************************************************)
(* What the publication pipeline promises about one version, whatever      *)
(* runs were started, cut short or repeated to get there: its packages     *)
(* are published once each, all from one commit, the launcher after every  *)
(* platform package; and the hosted release becomes public once, after     *)
(* every package can be installed, with the contents of that same commit.  *)
(* PublishPipeline implements it.                                          *)
(***************************************************************************)
CONSTANTS
  Packages,  \* the packages of the version
  Root,      \* the launcher, which depends on all the others
  Commits,   \* what the version may be built from
  None       \* nothing published

VARIABLES
  npm,      \* the commit each package was published from, or None
  visible,  \* the packages everybody can install
  hosted    \* the commit of the public hosted release, or None

vars == <<npm, visible, hosted>>

Init ==
  /\ npm = [p \in Packages |-> None]
  /\ visible = {}
  /\ hosted = None

Submit(p, c) ==
  /\ npm[p] = None
  /\ \A q \in Packages : npm[q] \in {None, c}
  /\ p = Root => \A q \in Packages \ {Root} : npm[q] = c
  /\ npm' = [npm EXCEPT ![p] = c]
  /\ UNCHANGED <<visible, hosted>>

Appear(p) ==
  /\ npm[p] # None /\ p \notin visible
  /\ visible' = visible \union {p}
  /\ UNCHANGED <<npm, hosted>>

Finalize(c) ==
  /\ hosted = None
  /\ visible = Packages /\ \A p \in Packages : npm[p] = c
  /\ hosted' = c
  /\ UNCHANGED <<npm, visible>>

Next ==
  \/ \E p \in Packages, c \in Commits : Submit(p, c)
  \/ \E p \in Packages : Appear(p)
  \/ \E c \in Commits : Finalize(c)

Spec == Init /\ [][Next]_vars
=============================================================================
