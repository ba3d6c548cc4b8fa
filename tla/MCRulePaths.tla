---- MODULE MCRulePaths ----
(***************************************************************************)
(* A small alphabet for RulePaths, with names of which one continues       *)
(* another and two drives of which one has a longer device name.           *)
(***************************************************************************)
EXTENDS RulePaths, TLC

MCUpcased == [c \in {"\\", "*", "?", ":", "A", "B", "C", "D", "E", "R", "V"} |-> c]
             @@ "a" :> "A" @@ "r" :> "R" @@ "d" :> "D" @@ "c" :> "C"

S == <<"V">>
MCRoot == <<S, <<"R">>>>
MCTypeNames == "Deny" :> <<"D">> @@ "ReadOnly" :> <<"B", "A">>
MCDevices == "C" :> <<S, <<"V">>>> @@ "D" :> <<S, <<"V", "V">>>>

\* Below the rules key, at it, above it and beside it.
MCKeyPaths ==
    {<<S>>, MCRoot, <<S, <<"R">>, <<"D">>>>, <<S, <<"r">>, <<"d">>, <<"a">>>>,
     <<S, <<"R">>, <<"B", "a">>, <<"A">>>>, <<S, <<"R">>, <<"D">>, <<"*", "a">>>>,
     <<S, <<"R">>, <<"A">>, <<"A">>>>, <<S, <<"R">>, <<"D">>, <<"A">>, <<"B">>>>,
     <<S, <<"R", "A">>>>, <<S, <<"R", "D">>, <<"A">>>>, <<S, <<"R", "A", "D">>, <<"A">>>>,
     <<S, <<"R", "A">>, <<"D">>, <<"A">>>>, <<S, <<"R", "A", "D">>>>,
     <<S, <<"A">>, <<"D">>, <<"A">>>>, <<S, <<"R">>, <<"D">>, <<"a", "?">>>>}

MCWritten ==
    [drive : {"C", "c", "D", "E", "*"}, folder : BOOLEAN,
     names : {<< >>, <<<<"a">>>>, <<<<"A">>, <<"B">>>>, <<<<"A", "A">>>>,
              <<<<"a", "*">>>>, <<<<"?">>, <<"*">>>>}]

MCImages == {<<<<"V">>, <<"A">>>>, <<<<"V">>, <<"A">>, <<"B", "a">>>>, <<<<"V">>, <<"a", "A">>>>,
             <<<<"V">>, <<"a">>, <<"B">>>>}

\* The last stands for the root directory of a volume.
MCNewNames ==
    {<< >>, <<<<"A">>>>, <<<<"A", "A">>>>, <<<<"A">>, <<"B">>>>, <<<<"a">>, <<"B">>>>,
     <<<<"A">>, <<"B">>, <<"A">>>>, <<<<"B">>, <<"A">>>>, <<<<"A", "B">>>>, <<<< >>>>}

MCDirectories == {<<S, <<"V">>>>, <<S, <<"V">>, <<"A">>>>}

MCFiles ==
    {MCDevices[d] \o names : d \in DOMAIN MCDevices, names \in MCNewNames} \union {<<S>>}
====
