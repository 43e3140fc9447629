--------------------------- MODULE MCCommandLine ---------------------------
EXTENDS CommandLine

MCFiles == {"doc", "key"}
MCContents == {1, 2}
MCPrivate == {"key"}
MCIgnored == {}
MCPolicies == {{}, {"doc"}}    \* narrowed to nothing, and moved to another path

(* One document with four separate roots, one with a nested pair and one   *)
(* with a pair that is equal.                                              *)
MCDestinations ==
    LET with(ref, loc, priv, wip) ==
            [r \in Roots |-> CASE r = "reference" -> ref [] r = "local-changes" -> loc
                               [] r = "private" -> priv [] r = "work-in-progress" -> wip]
    IN  {with(<<"a">>, <<"b">>, <<"c">>, <<"d">>),
         with(<<"a">>, <<"b">>, <<"b", "c">>, <<"d">>),
         with(<<"a">>, <<"b">>, <<"c">>, <<"c">>)}

MCCosts == {-1, 0, 1, 2}

MCRecipes ==
    [command : Spellings,
     arguments : {{}, {"plain"}, {"plain", "path-out"}, {"value-out"}, {"attached-out", "clustered"},
                  {"loads-code"}, {"nul"}},
     loads : {TRUE}, inputs : {"inside"}]
      \cup [command : Spellings, arguments : {{"plain"}}, loads : {TRUE}, inputs : {"outside"}]
      \cup [command : {"pytest"}, arguments : {{}}, loads : {FALSE}, inputs : {"inside"}]

MCTaskPolicies ==
    [allowed_commands : {{}, {"./build.sh"}, {"pytest"}},
     allowed_arguments : {<<>>, [s \in {"build.sh"} |-> {"plain", "path-out", "clustered"}],
                          [s \in {"./build.sh"} |-> {"plain"}],
                          [s \in {"build.sh"} |-> {}],
                          [s \in {"pytest"} |-> {"loads-code"}]},
     sandbox : {"auto", "systemd-run", "none"}, sandbox_required : BOOLEAN,
     retention : {"keep", "delete-on-success", "delete"}]

MCMachines == [bwrap : BOOLEAN, systemd_run : BOOLEAN, base : {"/srv", "/home"}]
============================================================================
