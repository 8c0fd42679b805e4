----------------------------- MODULE MCServices -----------------------------
(***************************************************************************)
(* Components that share no state, side by side: a behaviour of this       *)
(* module is one of the component it has chosen, and the others keep their *)
(* initial states.                                                         *)
(***************************************************************************)
EXTENDS NotificationOutbox, LogStream, FlowOperation, FlowReply, PluginHost,
        PluginCatalog, ProxyBreaker, BackgroundJob, ClientRegistry, AccountChange,
        TaskConfigs, BackupRestore, MonitorMessages, RunHistory, BotConversation, TLC

CONSTANTS a1, a2, b1, n1, n2, n3, c1  \* outbox: two calls of one notice, one of each other
VARIABLE component
allVars == <<component, vars, logVars, flowVars, replyVars, hostVars, catalogVars,
             proxyVars, jobVars, clientVars, changeVars, tasksVars, backupVars, messageVars,
             historyVars, talkVars>>

MCNoticeOf == a1 :> n1 @@ a2 :> n1 @@ b1 :> n2 @@ c1 :> n3
MCProcessOf == [c \in Probes |-> IF c > 2 THEN "q" ELSE "p"]
MCScript == <<"send", "click", "solve">>
Symmetry == Permutations({a1, a2})

Unless(c, v) == IF component = c THEN TRUE ELSE UNCHANGED v
Steps(c) ==
  /\ component = c /\ UNCHANGED component
  /\ Unless("outbox", vars) /\ Unless("log", logVars) /\ Unless("flow", flowVars)
  /\ Unless("reply", replyVars) /\ Unless("host", hostVars)
  /\ Unless("catalog", catalogVars) /\ Unless("proxy", proxyVars)
  /\ Unless("job", jobVars) /\ Unless("client", clientVars)
  /\ Unless("change", changeVars) /\ Unless("tasks", tasksVars)
  /\ Unless("backup", backupVars) /\ Unless("messages", messageVars)
  /\ Unless("history", historyVars) /\ Unless("talk", talkVars)

\* A component that is not chosen has one initial state.
ServicesInit ==
  /\ component \in {"outbox", "log", "flow", "reply", "host", "catalog", "proxy", "job",
                    "client", "change", "tasks", "backup", "messages", "history", "talk"}
  /\ Init /\ LogInit /\ FlowInit /\ ReplyInit /\ HostInit /\ CatalogInit /\ ProxyInit
  /\ JobInit /\ ClientInit /\ ChangeInit /\ TasksInit /\ BackupInit
  /\ MessagesInit /\ HistoryInit /\ TalkInit
  /\ component # "log" => known
  /\ component # "reply" => action = "send"
  /\ component # "proxy" => shared = NoEntry
  /\ component # "change" => operation = "rename"
  /\ component # "tasks" => starred = {"a"}
  /\ component # "backup" => renames
  /\ component # "talk" => chat = <<>>

ServicesNext ==
  \/ Steps("outbox") /\ Next
  \/ Steps("log") /\ LogNext
  \/ Steps("flow") /\ FlowNext
  \/ Steps("reply") /\ ReplyNext
  \/ Steps("host") /\ HostNext
  \/ Steps("catalog") /\ CatalogNext
  \/ Steps("proxy") /\ ProxyNext
  \/ Steps("job") /\ JobNext
  \/ Steps("client") /\ ClientNext
  \/ Steps("change") /\ ChangeNext
  \/ Steps("tasks") /\ TasksNext
  \/ Steps("backup") /\ BackupNext
  \/ Steps("messages") /\ MessagesNext
  \/ Steps("history") /\ HistoryNext
  \/ Steps("talk") /\ TalkNext

ServicesSpec == ServicesInit /\ [][ServicesNext]_allVars

\* The type invariant of the component that runs.
ServicesTyped ==
  /\ component = "outbox" => TypeOK
  /\ component = "log" => LogTypeOK
  /\ component = "flow" => FlowTypeOK
  /\ component = "reply" => ReplyTypeOK
  /\ component = "host" => HostTypeOK
  /\ component = "catalog" => CatalogTypeOK
  /\ component = "proxy" => ProxyTypeOK
  /\ component = "job" => JobTypeOK
  /\ component = "client" => ClientTypeOK
  /\ component = "change" => ChangeTypeOK
  /\ component = "tasks" => TasksTypeOK
  /\ component = "backup" => BackupTypeOK
  /\ component = "messages" => MessagesTypeOK
  /\ component = "history" => HistoryTypeOK
  /\ component = "talk" => TalkTypeOK
=============================================================================
