--------------------------- MODULE MC_PluginTasks ---------------------------
(* Small instances of PluginTasks: one plugin, in a version whose task wants  *)
(* to be alone and one with a lock mode the sdk does not know, or in one      *)
(* whose task runs beside others; users with a right to run it, with a wrong  *)
(* or an empty password, and on other paths.                                  *)
EXTENDS PluginTasks, TLC

CONSTANTS r1, r2

Int == [Text EXCEPT !.same = {}, !.takes = {"null", "bool", "number"}]
Port == [Int EXCEPT !.defined = TRUE]
Chan == [Text EXCEPT !.kind = "other", !.same = {}, !.takes = {}]

Shared == [context |-> TRUE, params |-> <<Text, Int>>, options |-> None,
           returns |-> {"value"}, lock |-> "none"]
Exclusive == [context |-> FALSE, params |-> <<Text>>,
              options |-> "size" :> Int @@ "port" :> Port,
              returns |-> {"error"}, lock |-> "exclusive"]
Other == [Shared EXCEPT !.lock = "unknown"]
Entry(task) == [name |-> "do", task |-> task]

\* The first registers the name twice; the last three are not served.
MCPrograms ==
    {<<Entry(Shared), Entry(Exclusive)>>, <<Entry(Other)>>, <<>>,
     <<Entry([Shared EXCEPT !.returns = {"other"}])>>,
     <<Entry(Exclusive), Entry([Shared EXCEPT !.params = <<Text, Chan>>])>>}
MCOneProgram == {<<Entry(Shared)>>}

MCHtpasswd == << <<"user", "secret">>, <<"guest", "">>, <<"comment">>,
                 <<"user", "password">> >>
MCRolesOf == "user" :> {"operator", "gone"}
MCPermissions == "operator" :> [endpoints |-> {<<"*", "list">>},
                                tasks |-> {<<"p", "do">>, <<"all">>}]

User(user, password) ==
    [user |-> user, password |-> password, method |-> "POST",
     path |-> <<"v1", "task", "exec">>]
Operator == User("user", "password")
Users == {Operator, User("user", "secret"), User("guest", ""),
          [Operator EXCEPT !.method = "GET"],
          [Operator EXCEPT !.method = "GET", !.path = <<"v1", "nodes", "list">>],
          [Operator EXCEPT !.path = <<"task", "exec">>],
          [Operator EXCEPT !.path = <<"v1", "task", "exec", "list">>]}

Nothing == [args |-> <<>>, options |-> None]
Post(user, parts, input) ==
    [from |-> user, parts |-> parts, input |-> input, lockMode |-> "unspecified"]
MCPosts ==
    {Post(u, n, Nothing) : u \in Users,
                           n \in {<<"plugins", "sync">>, <<"p", "do", "sync">>}}
    \cup {Post(Operator, <<"p", "do">>, [args |-> <<"text">>,
                                          options |-> "size" :> "number"])}

Word(key, value) == [key |-> key, value |-> value]
Run(parts, words, lockMode) ==
    [flags |-> {}, target |-> "all", parts |-> parts, words |-> words,
     lockMode |-> lockMode]
MCCommands ==
    {Run(<<"plugins", "sync">>, <<>>, "default"),
     Run(<<"health:instant-ping">>, <<>>, "default"),
     Run(<<"p", "do">>, <<Word("size", "text"), Word(None, "text")>>, "default")}

NoPosts == {}
MCAlone ==
    {Run(<<"p", "do">>, <<Word(None, "text"), Word(None, "text")>>, "exclusive")}

MCSymmetry == Permutations(Requests)
=============================================================================
