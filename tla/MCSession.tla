------------------------------- MODULE MCSession -------------------------------
(* What surrounds the desk: launches of the program, the rollout evaluator,  *)
(* the operator's console, and the browser's page.  They share nothing that  *)
(* is modelled here, so a behaviour is of one of them.                       *)
EXTENDS Startup, Ranking, Console, WebDesk

\* A cup with two events and a second cup whose name begins alike.
MCHomeOf == ("melee" :> "cup") @@ ("rivals 2" :> "cup") @@ ("doubles" :> "cup2") @@ ("synth1" :> "synth") @@ ("your-main-event" :> "your")
MCGameOf == ("melee" :> "ssbm") @@ ("rivals 2" :> "rivals") @@ ("doubles" :> "ssbm") @@ ("synth1" :> None) @@ ("your-main-event" :> None)
MCKeysIn == ("ssbm" :> <<"melee", "smash">>) @@ ("rivals" :> <<"rivals">>)
MCBuiltin == ("smash" :> <<"switch", "pc">>) @@ ("rivals" :> <<"pc">>)
MCTypeNames == <<"default", "pc", "switch">>
MCCaptured == <<"doubles", "melee", "rivals 2">>
MCSynthetic == <<"synth1">>
MCServes == ("cup" :> <<"melee", "rivals 2">>) @@ ("cup2" :> <<"doubles">>)
MCFirstConfigs ==
    {[s \in {"cup", "cup2", Found} |-> IF s = Found THEN None ELSE Generated(s, MCServes[s], MCBuiltin)]}
MCMappings == {"melee" :> <<>>}
MCAbbreviates == ("cup" :> {"cup", "cup2"}) @@ ("cup2" :> {"cup2"})
NoFlags == [setups |-> None, noise |-> None, explicit |-> FALSE, advisor |-> FALSE, only |-> FALSE]
MCOptions ==
    {NoFlags, [NoFlags EXCEPT !.setups = [bare |-> None, parts |-> <<<<"pc", 1>>>>], !.advisor = TRUE]}

\* Two sets for station 12, one of them of a best of three.
MCBoutEvent == ("ma" :> "melee") @@ ("mb" :> "rivals")
MCCast == ("melee" :> << <<"c", "a">> >>) @@ ("rivals" :> << >>)
MCBestOf == ("ma" :> 3) @@ ("mb" :> Nil)
MCFirstSides == ("ma" :> <<"p">>) @@ ("mb" :> <<"r">>)
MCRearranged == ("ma" :> <<"p", "q">>) @@ ("mb" :> <<"r">>)

VARIABLE part

Init ==
    /\ part \in {"launches", "ranking", "console", "web"}
    /\ StartupInit /\ RankingInit /\ ConsoleInit /\ WebInit
    \* the parts that stand still start in one of their states
    /\ part # "console" => armed = FALSE
    /\ part # "web" => docs = [k \in DocKeys |-> Missing]

Launching == part = "launches" /\ StartupNext /\ UNCHANGED <<part, rankVars, consoleVars, webVars>>
RankingRuns == part = "ranking" /\ RankingNext /\ UNCHANGED <<part, launchVars, consoleVars, webVars>>
AtConsole == part = "console" /\ ConsoleNext /\ UNCHANGED <<part, launchVars, rankVars, webVars>>
InBrowser == part = "web" /\ WebNext /\ UNCHANGED <<part, launchVars, rankVars, consoleVars>>

Next == Launching \/ RankingRuns \/ AtConsole \/ InBrowser
Spec == Init /\ [][Next]_<<part, launchVars, rankVars, consoleVars, webVars>>
=============================================================================
