------------------------------- MODULE MCTools -------------------------------
(* Small instance of Tools. *)
EXTENDS Tools

CONSTANTS fixture, copy, other

MCTexts == {<<"old", "old">>}

Put(type, path) == [Plain(type, path) EXCEPT !.text = "new"]

\* One request that should succeed and one that should not.
MCScenario ==
    <<[action |-> [Put("insert_line", copy) EXCEPT !.line = 1], expected |-> TRUE],
      [action |-> [Plain("delete_line", copy) EXCEPT !.line = 3], expected |-> FALSE]>>

MCPrompts ==
    {Put("replace_text", fixture), Put("append_text", copy),
     [Put("insert_line", fixture) EXCEPT !.line = 2],
     [Put("create_file", fixture) EXCEPT !.overwrite = TRUE], Plain("delete_file", fixture),
     [Plain("move_file", fixture) EXCEPT !.to = other],
     Plain("create_directory", other), Plain("list_directory", other)}

MCFiles == <<[ext |-> "ts", under |-> "src"], [ext |-> "go", under |-> "tools"],
             [ext |-> "md", under |-> ""]>>
MCContents == <<{{}, {"secret"}, {"branchy", "raw template"}}, {{}, {"tangled"}, {"child_process"}},
                {{"all concepts"}, {}}>>

\* As in run-all.mjs.
MCChecks == <<"file-lines", "code-smells", "eslint", "ruff", "security", "complexity",
              "performance-memory", "go-funcs", "go-lint", "pdo-pep-templating",
              "dependency-audit", "server-readiness", "wcag-colors">>
MCIgnoreRules == {[check |-> "complexity", file |-> 2, trait |-> "tangled"]}

MCUpdates == {<<"news">>, <<"$&">>, <<"news", "end">>}
=============================================================================
