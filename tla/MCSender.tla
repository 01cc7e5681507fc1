------------------------------- MODULE MCSender -------------------------------
(***************************************************************************)
(* Instances of Sender: the settings of the timers and of --wait.           *)
(***************************************************************************)
EXTENDS Sender

Setting(wait, value, interval, timeout) ==
    [wait |-> wait, value |-> value, interval |-> interval, timeout |-> timeout]

\* Every combination of usual times, zero, and a negative interval; --wait never
\* leaves an initial value of zero (CommandLine!SettingsSound).
AllOptions ==
    {o \in {Setting(w, v, i, t) : w \in BOOLEAN, v \in {0, 5}, i \in {-1, 0, 5},
                                 t \in {0, 2}} : o.wait => o.value > 0}

\* --wait, and the default times.
WaitOptions == {Setting(TRUE, 1, 5, 2)}
=============================================================================
