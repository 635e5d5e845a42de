----------------------------- MODULE MCLibrary -----------------------------
(***************************************************************************)
(* For TLC: what the providers tell of a library, what becomes of it in    *)
(* the catalogue, and what is recommended.  The three share no state: each *)
(* moves while the others rest.                                            *)
(***************************************************************************)
EXTENDS ProviderLibraries, Enrichment, Recommendations, TLC

LibraryRests == library = "epic" /\ owned = {} /\ LibInit
CatalogueRests == softTitle = FALSE /\ CatInit

LibraryInit ==
  /\ LibInit /\ CatInit /\ RecInit
  /\ LibraryRests \/ CatalogueRests

LibraryNext ==
  \/ CatalogueRests /\ RecInit /\ LibNext /\ UNCHANGED <<catVars, recVars>>
  \/ LibraryRests /\ RecInit /\ CatNext /\ UNCHANGED <<libVars, recVars>>
  \/ LibraryRests /\ CatalogueRests /\ RecNext /\ UNCHANGED <<libVars, catVars>>

LibraryVars == <<libVars, catVars, recVars>>

(* Only the provider libraries need fairness.                              *)
LibraryFairness ==
  /\ WF_LibraryVars((ReadLibrary \/ RequestFails) /\ UNCHANGED <<catVars, recVars>>)
  /\ WF_LibraryVars(FinishSync /\ UNCHANGED <<catVars, recVars>>)

LibrarySpec == LibraryInit /\ [][LibraryNext]_LibraryVars /\ LibraryFairness

-----------------------------------------------------------------------------
CONSTANTS ann, bob, cy, g1, g2, steam, ea

MCIgdbAnswer ==
  {[text |-> TRUE, date |-> TRUE, genres |-> {"play"}, single |-> FALSE, multi |-> TRUE, count |-> 2],
   [text |-> FALSE, date |-> FALSE, genres |-> {}, single |-> TRUE, multi |-> FALSE, count |-> 0],
   [text |-> FALSE, date |-> FALSE, genres |-> {}, single |-> FALSE, multi |-> TRUE, count |-> 0],
   [text |-> FALSE, date |-> FALSE, genres |-> {}, single |-> FALSE, multi |-> TRUE, count |-> 1],
   [text |-> FALSE, date |-> FALSE, genres |-> {}, single |-> FALSE, multi |-> FALSE, count |-> 0]}

MCRawgAnswer ==
  {[text |-> TRUE, date |-> "unreadable", genres |-> {"software"}, tags |-> {"hotseat"}],
   [text |-> FALSE, date |-> "rawg", genres |-> {}, tags |-> {"multi", "single"}]}

MCStoreAnswer ==
  [date : {TRUE}, genres : {{}, {"play"}, {"software"}}, single : {TRUE}, multi : {FALSE},
   type : {"game", "dlc"}]

MCImport ==
  {[text |-> TRUE, date |-> TRUE, genres |-> {"software"}, trusted |-> FALSE, count |-> 0,
    single |-> FALSE, multi |-> TRUE, hotseat |-> TRUE],
   [text |-> TRUE, date |-> FALSE, genres |-> {}, trusted |-> TRUE, count |-> 1,
    single |-> TRUE, multi |-> FALSE, hotseat |-> FALSE]}

MCMayUse == ann :> {steam, ea} @@ bob :> {steam} @@ cy :> {}

MCMayConfirm ==
  {[person |-> cy, game |-> g1, platform |-> steam],
   [person |-> cy, game |-> g2, platform |-> ea],
   [person |-> bob, game |-> g1, platform |-> steam]}

MCAbout ==
  g1 :> [isGame |-> TRUE, free |-> TRUE, multi |-> TRUE, lan |-> TRUE,
         online |-> FALSE, local |-> FALSE, shared |-> TRUE, known |-> TRUE, min |-> 2, max |-> 2,
         platforms |-> {steam}, title |-> 1]
  @@ g2 :> [isGame |-> TRUE, free |-> FALSE, multi |-> FALSE, lan |-> TRUE,
         online |-> TRUE, local |-> FALSE, shared |-> FALSE, known |-> FALSE, min |-> 1, max |-> 2,
         platforms |-> {ea}, title |-> 2]

MCMinutes ==
  ann :> (g1 :> 1 @@ g2 :> 2) @@ bob :> (g1 :> 2 @@ g2 :> 1) @@ cy :> (g1 :> 0 @@ g2 :> 0)

=============================================================================
