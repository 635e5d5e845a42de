---------------------------- MODULE CurrentLists ----------------------------
(***************************************************************************)
(* What one backend promises the pages that show its recommendations,      *)
(* without a cache, revisions or ETags: an answer is the list as it was    *)
(* at some moment between the newest change the backend knew of when it    *)
(* was asked and now.  Changes become known after they are made, and those *)
(* known stay so.  A page shows what it was last answered.                 *)
(***************************************************************************)
EXTENDS Naturals

CONSTANTS Client, Key, NoList

VARIABLES
  changes,   \* number of changes made to the library
  known,     \* the newest change that answers must contain
  asked,     \* the requests that wait for their answer
  page       \* page[c][k]: the list shown, by its newest change, or NoList

listVars == <<changes, known, asked, page>>

ListsInit ==
  /\ changes = 0
  /\ known = 0
  /\ asked = {}
  /\ page = [c \in Client |-> [k \in Key |-> NoList]]

Change ==
  /\ changes' = changes + 1
  /\ UNCHANGED <<known, asked, page>>

Learn(v) ==
  /\ v \in known .. changes
  /\ known' = v
  /\ UNCHANGED <<changes, asked, page>>

Ask(c, k) ==
  /\ \A r \in asked : r.client # c
  /\ asked' = asked \cup {[client |-> c, key |-> k, since |-> known]}
  /\ UNCHANGED <<changes, known, page>>

Answer(r, v) ==
  /\ v \in r.since .. changes
  /\ asked' = asked \ {r}
  /\ page' = [page EXCEPT ![r.client][r.key] = v]
  /\ UNCHANGED <<changes, known>>

ListsNext ==
  \/ Change
  \/ \E v \in known .. changes : Learn(v)
  \/ \E c \in Client, k \in Key : Ask(c, k)
  \/ \E r \in asked : \E v \in r.since .. changes : Answer(r, v)

ListsSpec == ListsInit /\ [][ListsNext]_listVars

=============================================================================
