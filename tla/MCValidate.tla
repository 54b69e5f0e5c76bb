----------------------------- MODULE MCValidate -----------------------------
(***************************************************************************)
(* Validate for TLC.  The validators look at disjoint parts of a template, *)
(* so the templates are taken in three families, each varying the part one *)
(* group of validators reads and holding the rest at a plain container     *)
(* task: tasks (markers, fields, queue, timeout, condition), mounts, and   *)
(* permissions.                                                            *)
(***************************************************************************)
EXTENDS Validate

MCUsers        == {<<"alice">>}
MCRoles        == {<<"admin">>}
MCDurations    == {<<"5s">>, <<"0s">>}    \* time.ParseDuration takes zero, too
MCValidExprs   == {<<"true">>}
MCPatternChars == {"/", ".", "tork", "data", "output"}

Plain ==
    [markers |-> {}, carries |-> {"Image"}, queue |-> <<>>, timeout |-> <<>>,
     if |-> <<>>, mounts |-> <<>>]

JobOf(kind, task, permissions) ==
    [kind |-> kind, task |-> task, permissions |-> permissions]

MCTasks ==
    [markers : SUBSET Markers,
     carries : SUBSET {"Image", "Entrypoint", "Retry"},
     queue   : {<<>>, <<"default">>, <<"x-", "w1">>, <<"pending">>, <<"scheduled">>},
     timeout : {<<>>, <<"5s">>, <<"0s">>, <<"soon">>},
     if      : {<<>>, <<"true">>, <<"{{">>},
     mounts  : {<<>>}]

MCPaths ==
    {<<>>, <<"/", "data">>, <<"/", ":">>, <<"/", "tork">>,
     <<"/", "tork", "/">>, <<"/", "tork", "/", "output">>}

MCMounts == [type : MountTypes, source : MCPaths, target : MCPaths]

MCPrincipals == {<<>>, <<"alice">>, <<"admin">>, <<"nobody">>}

MCPermissions == [role : MCPrincipals, user : MCPrincipals]

MCJobs ==
    {JobOf(k, t, <<>>) : k \in Kinds, t \in MCTasks}
    \cup {JobOf(k, [Plain EXCEPT !.mounts = <<m>>, !.markers = c], <<>>) :
            k \in Kinds, m \in MCMounts, c \in {{}, {"Each"}}}
    \cup {JobOf(k, Plain, <<p, q>>) :
            k \in Kinds, p \in MCPermissions, q \in {[role |-> <<"admin">>, user |-> <<>>]}}

=============================================================================
