---------------------------- MODULE MCAccessPolicy ----------------------------
(* Two workspaces, three kinds of path, and one call for each branch of the policy. *)
EXTENDS AccessPolicy

MCCall(t, f, a, b) == [tool |-> t, form |-> f, aim |-> a, body |-> b]
MCHome == [r1 |-> "w1", r2 |-> "w2"]
MCGuarded == [a |-> "plain", env |-> "sensitive", keys |-> "protected"]
MCCalls ==
    {MCCall(c[1], c[2], c[3], 1) : c \in
        {<<"file.write", "none", "a">>, <<"file.write", "none", "env">>, <<"file.edit", "none", "a">>,
         <<"file.read", "none", "keys">>, <<"file.delete", "none", "a">>, <<"shell", "ls", "env">>,
         <<"shell", "build", "a">>, <<"shell", "curl", "a">>, <<"shell", "push", "a">>,
         <<"shell", "osascript", "env">>, <<"web.search", "none", "a">>, <<"web.fetch", "query", "a">>,
         <<"web.fetch", "login", "a">>, <<"web.fetch", "plain", "a">>, <<"click", "none", "a">>}}
===============================================================================
