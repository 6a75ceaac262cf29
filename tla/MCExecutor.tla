----------------------------- MODULE MCExecutor -----------------------------
(* The small instances of Executor and ExecutorH4 that TLC checks. *)
EXTENDS ExecutorDesk

FixedKind == [s \in Strategies |-> "fixed"]
DailyKind == [s \in Strategies |-> "daily"]
H4Kind == [s \in Strategies |-> "h4"]

Setting(on, strategies, vol, cap) ==
    [enabled |-> on, strategies |-> strategies, volume |-> vol, cap |-> cap]

OneConfig == {Setting(TRUE, Strategies, 1, 1)}

\* A restart may find a smaller volume and cap, or trading switched off.
Resized == {Setting(TRUE, Strategies, 2, 2), Setting(TRUE, Strategies, 1, 1),
            Setting(FALSE, Strategies, 1, 1)}

\* A restart may find the strategy taken off EXECUTOR_STRATEGIES, or trading switched off.
Removed == {Setting(TRUE, Strategies, 1, 1), Setting(TRUE, {}, 1, 1),
            Setting(FALSE, Strategies, 1, 1)}

=============================================================================
