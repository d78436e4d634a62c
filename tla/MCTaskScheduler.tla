--------------------------- MODULE MCTaskScheduler ---------------------------
(* Small instances of TaskScheduler for TLC. *)
EXTENDS TaskScheduler

PlainConfigs == [strategy : Strategies, priorities : {FALSE}]

\* Priorities matter to the order of the queue: Expand fills it, DropOldest takes
\* from its front.
SubmitConfigs == PlainConfigs
                   \cup [strategy : {"Expand", "DropOldest"}, priorities : {TRUE}]
BlockOnly    == {[strategy |-> "Block", priorities |-> FALSE]}

\* Two single submissions: after an idle exit both may restart the loop.
SingleClients == {"s1", "s2"}
SingleJobs    == {"j1", "j2"}
SinglePlan    == [c \in SingleClients |-> IF c = "s1" THEN <<"j1">> ELSE <<"j2">>]
SingleBatch   == [c \in SingleClients |-> FALSE]
SingleId      == [j \in SingleJobs |-> j]
SinglePrio    == [j \in SingleJobs |-> 1]
\* One single submission and one batch.
PairClients == {"s1", "b"}
PairJobs    == {"j1", "x", "y"}
PairPlan    == [c \in PairClients |-> IF c = "b" THEN <<"x", "y">> ELSE <<"j1">>]
PairBatch   == [c \in PairClients |-> c = "b"]
PairId      == [j \in PairJobs |-> j]
PairPrio    == [j \in PairJobs |-> IF j = "j1" THEN 2 ELSE 1]
=============================================================================
