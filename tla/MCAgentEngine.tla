---------------------------- MODULE MCAgentEngine ----------------------------
\* A graph with a Start whose tool gives no estimate, a Decision, a Task that
\* leads back to it and could go round for ever, a Start without a tool that
\* leads nowhere, a Task without a tool, and an End.
EXTENDS AgentEngine

MCNodeType == ("start" :> "Start" @@ "choose" :> "Decision" @@ "work" :> "Task"
               @@ "last" :> "Start" @@ "bare" :> "Task" @@ "end" :> "End")
MCEdges == {<<"start", "choose">>, <<"choose", "work">>, <<"work", "choose">>,
            <<"choose", "last">>, <<"choose", "bare">>, <<"choose", "end">>}
MCHandler == {"start", "work"}
MCEstimates == ("start" :> 0 @@ "work" :> 2)
MCLimits == ("run" :> 2 @@ "replay" :> 1 @@ "restart" :> 1
             @@ "append_error" :> 1 @@ "memtable_full" :> 1 @@ "client_write" :> 1
             @@ "timeout" :> 1)
=============================================================================
