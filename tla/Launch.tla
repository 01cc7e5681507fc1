-------------------------------- MODULE Launch --------------------------------
(***************************************************************************)
(* main.c: from the command line to the running threads.  init_args parses  *)
(* the words (CommandLine), start creates the device and the sockets        *)
(* (Startup).  The group between the two is in Discovery.                   *)
(***************************************************************************)
EXTENDS CommandLine

VARIABLES step, fds, tun_fd, mdc_fd, ip6_fd, bif, up, rt, device, bound

S == INSTANCE Startup

start_vars == <<step, fds, tun_fd, mdc_fd, ip6_fd, bif, up, rt, device, bound>>

LaunchInit == Init /\ S!Init

init_args == Parse /\ UNCHANGED start_vars

\* The loop of main over the receivers calls join, and follows the pointer behind
\* the last one, which was never set.
join_wild ==
    /\ stage = "done" /\ args.paddr.end = "wild"
    /\ stage' = "error"
    /\ UNCHANGED <<args, argv, since, gap, nopts, asked, start_vars>>

\* start is given what it needs of the arguments, here the place of the names.
\* The rest is forgotten, so that all command lines lead to one start.
start ==
    /\ stage = "done" /\ args.paddr.end = "NULL"
    /\ S!start
    /\ stage' = "started"
    /\ args' = set_default_args /\ argv' = << >>
    /\ nopts' = 0 /\ asked' = [keys |-> {}, argv |-> << >>]
    /\ UNCHANGED since

init_fds == S!init_fds /\ UNCHANGED vars

\* The threads run, or the process has ended.
Over ==
    /\ stage = "error" \/ step \in {"running", "failed"}
    /\ UNCHANGED <<vars, start_vars>>

LaunchNext == init_args \/ join_wild \/ start \/ init_fds \/ Over

Spec == LaunchInit /\ [][LaunchNext]_<<vars, start_vars>>
-----------------------------------------------------------------------------
\* Properties.

\* Startup!ThreadsReady: the threads start with three descriptors that are what they
\* are taken for, above 0, both sockets bound, to the interface of the command line
\* if strncpy has not erased its name, and the device up and with its route.
ThreadsReady == S!ThreadsReady

\* Startup!FailureCloses: a start up that fails closes what it has opened.
FailureCloses == S!FailureCloses
=============================================================================
