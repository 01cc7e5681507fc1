-------------------------------- MODULE Startup --------------------------------
(***************************************************************************)
(* From main to the threads: core.c (start, init_fds) and tun.c.  Every     *)
(* system call may fail.  The process has one thread here, so a function    *)
(* with its system calls is one step.                                       *)
(*                                                                          *)
(* Descriptors are numbers, and a new one is the lowest that is free: 0, 1  *)
(* and 2 are, if the sender was started without them.  tifname and bifname  *)
(* point into the command line, gap bytes from each other (CommandLine).    *)
(***************************************************************************)
EXTENDS Integers, FiniteSets

IFNAMSIZ == 16

VARIABLES step,      \* the function that comes next
          fds,       \* what the open descriptors are for
          tun_fd, mdc_fd, ip6_fd,
          gap, bif,  \* where the interface's name is, and what is there
          up, rt,    \* whether the TUN device is up, and has its route
          device,    \* the interface that each socket is bound to
          bound      \* the sockets that are bound to an address

tun_vars == <<up, rt>>
sock_vars == <<mdc_fd, ip6_fd, device, bound>>
vars == <<step, fds, tun_fd, gap, bif, tun_vars, sock_vars>>

Sockets == {"mdc", "ip6"}
Fd == 0 .. 6
Unset == -1         \* a variable of start that was never assigned

Init ==
    /\ step = "main"
    /\ fds = << >>
    /\ tun_fd = Unset /\ mdc_fd = Unset /\ ip6_fd = Unset
    /\ bif = "given"
    /\ up = FALSE /\ rt = FALSE
    /\ device = [x \in Sockets |-> "any"] /\ bound = {}

-----------------------------------------------------------------------------
\* start, with the standard descriptors the process has; nothing has used them.
start ==
    /\ step = "main"
    /\ step' = "get_mtu"
    /\ \E S \in SUBSET (0 .. 2) : fds' = [fd \in S |-> "stdio"]
    /\ UNCHANGED <<tun_fd, gap, bif, tun_vars, sock_vars>>

\* Descriptors: open and socket, and close.
NewFd == CHOOSE fd \in Fd \ DOMAIN fds : \A x \in Fd \ DOMAIN fds : fd <= x
Open(what) == [fd \in DOMAIN fds \cup {NewFd} |-> IF fd = NewFd THEN what ELSE fds[fd]]
Close(S) == [fd \in DOMAIN fds \ S |-> fds[fd]]

\* An error leads out of init_fds and start, and S is closed on the way.
Fail(S) ==
    /\ step' = "failed"
    /\ fds' = Close(S)
    /\ UNCHANGED <<tun_fd, gap, bif, tun_vars, sock_vars>>

\* Definitions named after another one, with a suffix, are that definition with a
\* slip a programmer could make; no specification uses them.
get_mtu_closing ==
    /\ step = "get_mtu"
    /\ step' = "tun_alloc"
    /\ UNCHANGED <<fds, tun_fd, gap, bif, tun_vars, sock_vars>>

\* The socket is used for one ioctl, and stays open.
get_mtu ==
    /\ step = "get_mtu"
    /\ \/ /\ fds' = Open("mtu")
          /\ step' \in {"tun_alloc", "failed"}
          /\ UNCHANGED <<tun_fd, gap, bif, tun_vars, sock_vars>>
       \/ Fail({})

\* strncpy fills all IFNAMSIZ bytes, with zeros behind the name.
Overwrites == 0 < gap /\ gap < IFNAMSIZ

\* tun_alloc writes the name of the device back to tifname.
tun_alloc ==
    /\ step = "tun_alloc"
    /\ \/ /\ fds' = Open("tun")
          /\ tun_fd' = NewFd
          /\ bif' = IF Overwrites THEN "empty" ELSE bif
          /\ step' = "tun_up"
          /\ UNCHANGED <<gap, tun_vars, sock_vars>>
       \/ Fail({})

\* Only the result of SIOCSIFMTU is looked at.
tun_up ==
    /\ step = "tun_up"
    /\ \/ /\ up' \in BOOLEAN
          /\ step' = "tun_setroute"
          /\ UNCHANGED <<fds, tun_fd, gap, bif, rt, sock_vars>>
       \/ Fail({tun_fd})

\* The kernel takes no route over a device that is down.  init_fds goes on with
\* a positive descriptor; with 0 it returns 0, which start takes for success.
tun_setroute ==
    /\ step = "tun_setroute"
    /\ \/ /\ up
          /\ rt' = TRUE
          /\ step' = IF tun_fd < 1 THEN "running" ELSE "mdc"
          /\ UNCHANGED <<fds, tun_fd, gap, bif, up, sock_vars>>
       \/ Fail({tun_fd})

-----------------------------------------------------------------------------
\* init_fds: the raw sockets.

socket_mdc ==
    /\ step = "mdc"
    /\ \/ /\ fds' = Open("mdc")
          /\ mdc_fd' = NewFd
          /\ step' = "ip6"
          /\ UNCHANGED <<tun_fd, gap, bif, tun_vars, ip6_fd, device, bound>>
       \/ Fail({tun_fd})

\* close_mdc, close_tun.
close_mdc_only == {mdc_fd}
close_mdc == {mdc_fd, tun_fd}

socket_ip6 ==
    /\ step = "ip6"
    /\ \/ /\ fds' = Open("ip6")
          /\ ip6_fd' = NewFd
          /\ step' = "device"
          /\ UNCHANGED <<tun_fd, gap, bif, tun_vars, mdc_fd, device, bound>>
       \/ Fail(close_mdc)

\* SO_BINDTODEVICE for both sockets.  The empty name binds to no device.
setsockopt ==
    /\ step = "device"
    /\ \/ /\ device' = [x \in Sockets |-> IF bif = "given" THEN "given" ELSE "any"]
          /\ step' = "bind"
          /\ UNCHANGED <<fds, tun_fd, gap, bif, tun_vars, mdc_fd, ip6_fd, bound>>
       \/ Fail({ip6_fd} \cup close_mdc)

bind ==
    /\ step = "bind"
    /\ \/ /\ bound' = Sockets
          /\ step' = "running"
          /\ UNCHANGED <<fds, tun_fd, gap, bif, tun_vars, mdc_fd, ip6_fd, device>>
       \/ Fail({ip6_fd} \cup close_mdc)

init_fds ==
    \/ get_mtu \/ tun_alloc \/ tun_up \/ tun_setroute
    \/ socket_mdc \/ socket_ip6 \/ setsockopt \/ bind
-----------------------------------------------------------------------------
\* Properties.

\* The threads start with three descriptors that are what they are taken for,
\* above 0 (tx_uni and tx_mdc refuse others), both sockets bound, the device up
\* and with its route, whatever failed or was closed before.  That the TUN device
\* never gets descriptor 0 is the merit of the socket get_mtu leaves open.
\* argp.c, interface: "Specify interface to use."  The sockets use it, unless its
\* name begins within IFNAMSIZ bytes behind that of the device ("-t tun9 -i eth0").
ThreadsReady ==
    step = "running" =>
        /\ {tun_fd, mdc_fd, ip6_fd} \subseteq DOMAIN fds \ {0}
        /\ fds[tun_fd] = "tun" /\ fds[mdc_fd] = "mdc" /\ fds[ip6_fd] = "ip6"
        /\ up /\ rt /\ bound = Sockets
        /\ gap = IFNAMSIZ => \A x \in Sockets : device[x] = "given"

\* When start up fails halfway, init_fds has closed the device and the sockets
\* it had opened.
FailureCloses ==
    step = "failed" => \A fd \in DOMAIN fds : fds[fd] \in {"stdio", "mtu"}
=============================================================================
