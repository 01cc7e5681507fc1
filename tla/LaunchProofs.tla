----------------------------- MODULE LaunchProofs -----------------------------
(***************************************************************************)
(* What main gives its parts, for all words and any number of them: sound   *)
(* settings, and descriptors that are what the threads take them for.       *)
(***************************************************************************)
EXTENDS Launch, SequenceTheorems, TLAPS

-----------------------------------------------------------------------------
\* Start up.  The inductive invariant says what every descriptor is for.

\* The steps behind the opening of the device and of the sockets.
TunOpen == {"tun_up", "tun_setroute", "mdc", "ip6", "device", "bind", "running"}
MdcOpen == {"ip6", "device", "bind", "running"}
Ip6Open == {"device", "bind", "running"}

Steps == {"main", "get_mtu", "tun_alloc", "failed"} \cup TunOpen

Stdio(fd) == fd \in 0 .. 2 /\ fds[fd] = "stdio"

\* There is one descriptor for each purpose; m is the one get_mtu leaves open.
Owned(fd, m) ==
    \/ Stdio(fd)
    \/ fd = m /\ fds[fd] = "mtu"
    \/ fd = tun_fd /\ fds[fd] = "tun" /\ step \in TunOpen
    \/ fd = mdc_fd /\ fds[fd] = "mdc" /\ step \in MdcOpen
    \/ fd = ip6_fd /\ fds[fd] = "ip6" /\ step \in Ip6Open

\* Descriptor 0 is taken once get_mtu has its socket.
Descriptors ==
    /\ DOMAIN fds \subseteq S!Fd
    /\ step = "get_mtu" => \A fd \in DOMAIN fds : Stdio(fd)
    /\ step \in {"tun_alloc"} \cup TunOpen =>
          /\ 0 \in DOMAIN fds /\ fds[0] \in {"stdio", "mtu"}
          /\ \E m \in S!Fd : \A fd \in DOMAIN fds : Owned(fd, m)
    /\ step \in TunOpen => tun_fd \in DOMAIN fds /\ fds[tun_fd] = "tun"
    /\ step \in MdcOpen => mdc_fd \in DOMAIN fds /\ fds[mdc_fd] = "mdc"
    /\ step \in Ip6Open => ip6_fd \in DOMAIN fds /\ fds[ip6_fd] = "ip6"
    /\ S!FailureCloses

\* What the later steps rely on.
Device ==
    /\ step \in {"mdc"} \cup MdcOpen => up /\ rt
    /\ step \in {"main", "get_mtu", "tun_alloc"} \/ gap = IFNAMSIZ => bif = "given"
    /\ step \in {"bind", "running"} /\ gap = IFNAMSIZ =>
          \A x \in S!Sockets : device[x] = "given"
    /\ step = "running" => bound = S!Sockets

\* start comes after the command line.
Order ==
    /\ step \in Steps
    /\ step = "main" <=> stage # "started"

StartInv == Order /\ Descriptors /\ Device

USE DEF TunOpen, MdcOpen, Ip6Open

LEMMA InitStart == LaunchInit => StartInv
  BY DEF LaunchInit, S!Init, Init, StartInv, Order, Descriptors, Device, Steps, S!FailureCloses

\* The lowest free descriptor, as long as one is free.
LEMMA NewFdLowest ==
    ASSUME NEW f \in S!Fd, f \notin DOMAIN fds
    PROVE  /\ S!NewFd \in S!Fd /\ S!NewFd \notin DOMAIN fds
           /\ \A x \in S!Fd : x \in DOMAIN fds \/ S!NewFd <= x
<1> DEFINE D == DOMAIN fds
           Low(fd) == fd \notin D /\ \A x \in S!Fd : x \in D \/ fd <= x
<1>1. \E fd \in S!Fd : Low(fd)
  <2> HIDE DEF D
  <2>1. S!Fd = {0, 1, 2, 3, 4, 5, 6}
    BY DEF S!Fd
  <2>2. CASE 0 \notin D
    BY <2>1, <2>2
  <2>3. CASE 0 \in D /\ 1 \notin D
    BY <2>1, <2>3
  <2>4. CASE {0, 1} \subseteq D /\ 2 \notin D
    BY <2>1, <2>4
  <2>5. CASE {0, 1, 2} \subseteq D /\ 3 \notin D
    BY <2>1, <2>5
  <2>6. CASE {0, 1, 2, 3} \subseteq D /\ 4 \notin D
    BY <2>1, <2>6
  <2>7. CASE {0, 1, 2, 3, 4} \subseteq D /\ 5 \notin D
    BY <2>1, <2>7
  <2>8. CASE {0, 1, 2, 3, 4, 5} \subseteq D /\ 6 \notin D
    BY <2>1, <2>8
  <2>9. f \notin D
    BY DEF D
  <2> QED
    BY <2>1, <2>2, <2>3, <2>4, <2>5, <2>6, <2>7, <2>8, <2>9
<1>2. PICK g \in S!Fd \ DOMAIN fds : \A x \in S!Fd \ DOMAIN fds : g <= x
  BY <1>1
<1> QED
  BY <1>2 DEF S!NewFd

\* What open and socket do.
LEMMA Opens ==
    ASSUME NEW what, NEW f \in S!Fd, f \notin DOMAIN fds,
           DOMAIN fds \subseteq S!Fd, fds' = S!Open(what)
    PROVE  /\ S!NewFd \in S!Fd /\ S!NewFd \notin DOMAIN fds
           /\ DOMAIN fds' = DOMAIN fds \cup {S!NewFd}
           /\ DOMAIN fds' \subseteq S!Fd
           /\ fds'[S!NewFd] = what
           /\ \A fd \in DOMAIN fds : fds'[fd] = fds[fd]
           /\ 0 \in DOMAIN fds \/ S!NewFd = 0
<1>1. /\ S!NewFd \in S!Fd /\ S!NewFd \notin DOMAIN fds
      /\ \A x \in S!Fd : x \in DOMAIN fds \/ S!NewFd <= x
  BY NewFdLowest
<1>2. 0 \in DOMAIN fds \/ S!NewFd = 0
  BY <1>1 DEF S!Fd
<1>3. fds' = [fd \in DOMAIN fds \cup {S!NewFd} |-> IF fd = S!NewFd THEN what ELSE fds[fd]]
  BY DEF S!Open
<1> QED
  BY <1>1, <1>2, <1>3

\* An error that closes all that was opened since get_mtu keeps the invariant.
LEMMA FailStart ==
    ASSUME StartInv, NEW C, S!Fail(C), step # "main", UNCHANGED stage,
           \A fd \in DOMAIN fds \ C : fds[fd] \in {"stdio", "mtu"}
    PROVE  StartInv'
<1>1. /\ DOMAIN fds' = DOMAIN fds \ C
      /\ \A fd \in DOMAIN fds \ C : fds'[fd] = fds[fd]
      /\ step' = "failed"
      /\ UNCHANGED <<gap, bif>>
  BY DEF S!Fail, S!Close
<1> QED
  BY <1>1 DEF StartInv, Order, Descriptors, Device, Steps, S!FailureCloses

\* The functions of start up that open something need a free descriptor: three are
\* for input and output, and fewer than four are in use for other things.
LEMMA FreeFd ==
    ASSUME Descriptors, step \in {"get_mtu", "tun_alloc", "mdc", "ip6"}
    PROVE  \E f \in S!Fd : f \notin DOMAIN fds
<1>1. S!Fd = 0 .. 6
  BY DEF S!Fd
<1>2. CASE step = "get_mtu"
  BY <1>1, <1>2 DEF Descriptors, Stdio
<1>3. CASE step \in {"tun_alloc", "mdc", "ip6"}
  <2>1. PICK m \in S!Fd : \A fd \in DOMAIN fds : Owned(fd, m)
    BY <1>3 DEF Descriptors
  <2>2. \A fd \in DOMAIN fds : fd \in 0 .. 2 \/ fd \in {m, tun_fd, mdc_fd}
    BY <1>3, <2>1 DEF Owned, Stdio
  <2>3. 3 \in S!Fd /\ 4 \in S!Fd /\ 5 \in S!Fd /\ 6 \in S!Fd
    BY <1>1
  <2> QED
    BY <2>2, <2>3
<1> QED
  BY <1>2, <1>3

\* get_mtu
LEMMA MtuStart ==
    ASSUME StartInv, S!get_mtu, UNCHANGED stage
    PROVE  StartInv'
<1>0. step = "get_mtu" /\ \A fd \in DOMAIN fds : Stdio(fd)
  BY DEF S!get_mtu, StartInv, Descriptors
<1>1. CASE S!Fail({})
  BY <1>0, <1>1, FailStart DEF Stdio
<1>2. CASE fds' = S!Open("mtu") /\ step' \in {"tun_alloc", "failed"} /\ UNCHANGED <<gap, bif>>
  <2>1. PICK f \in S!Fd : f \notin DOMAIN fds
    BY <1>0, FreeFd DEF StartInv
  <2>2. /\ S!NewFd \in S!Fd /\ S!NewFd \notin DOMAIN fds
        /\ DOMAIN fds' = DOMAIN fds \cup {S!NewFd}
        /\ DOMAIN fds' \subseteq S!Fd
        /\ fds'[S!NewFd] = "mtu"
        /\ \A fd \in DOMAIN fds : fds'[fd] = fds[fd]
        /\ 0 \in DOMAIN fds \/ S!NewFd = 0
    BY <1>2, <2>1, Opens DEF StartInv, Descriptors
  <2>3. PICK m \in S!Fd : m = S!NewFd
    BY <2>2
  <2>4. \A fd \in DOMAIN fds' : Stdio(fd)' \/ (fd = m /\ fds'[fd] = "mtu")
    BY <1>0, <2>2, <2>3 DEF Stdio
  <2>5. 0 \in DOMAIN fds' /\ fds'[0] \in {"stdio", "mtu"}
    BY <2>2, <2>4 DEF Stdio
  <2>6. \A fd \in DOMAIN fds' : Owned(fd, m)'
    BY <2>4 DEF Owned
  <2>7. Descriptors'
    BY <1>2, <2>2, <2>4, <2>5, <2>6, <2>3 DEF Descriptors, S!FailureCloses, Stdio
  <2> QED
    BY <1>0, <1>2, <2>7 DEF StartInv, Order, Device, Steps
<1> QED
  BY <1>1, <1>2 DEF S!get_mtu

\* tun_alloc
LEMMA TunStart ==
    ASSUME StartInv, S!tun_alloc, UNCHANGED stage
    PROVE  StartInv'
<1>0. step = "tun_alloc"
  BY DEF S!tun_alloc
<1>1. PICK m \in S!Fd : \A fd \in DOMAIN fds : Owned(fd, m)
  BY <1>0 DEF StartInv, Descriptors
<1>2. CASE S!Fail({})
  <2>1. \A fd \in DOMAIN fds \ {} : fds[fd] \in {"stdio", "mtu"}
    BY <1>0, <1>1 DEF Owned, Stdio, S!close_mdc
  <2> QED
    BY <1>0, <1>2, <2>1, FailStart
<1>3. CASE ~S!Fail({})
  <2>1. /\ fds' = S!Open("tun") /\ tun_fd' = S!NewFd /\ step' = "tun_up"
        /\ gap = IFNAMSIZ => bif' = bif
        /\ UNCHANGED <<gap, up, rt, device, bound>>
    BY <1>3 DEF S!tun_alloc, S!tun_vars, S!sock_vars, S!Overwrites,
                S!IFNAMSIZ, IFNAMSIZ
  <2>2. PICK f \in S!Fd : f \notin DOMAIN fds
    BY <1>0, FreeFd DEF StartInv
  <2>3. /\ tun_fd' \in S!Fd /\ tun_fd' \notin DOMAIN fds
        /\ DOMAIN fds' = DOMAIN fds \cup {tun_fd'}
        /\ DOMAIN fds' \subseteq S!Fd
        /\ fds'[tun_fd'] = "tun"
        /\ \A fd \in DOMAIN fds : fds'[fd] = fds[fd]
    BY <2>1, <2>2, Opens DEF StartInv, Descriptors
  <2>4. \A fd \in DOMAIN fds' : Owned(fd, m)'
    BY <1>0, <1>1, <2>1, <2>3 DEF Owned, Stdio
  <2>5. Descriptors'
    BY <1>0, <2>1, <2>3, <2>4 DEF StartInv, Descriptors, S!FailureCloses
  <2>6. Order' /\ Device'
    BY <1>0, <2>1 DEF StartInv, Order, Device, Steps
  <2> QED
    BY <2>5, <2>6 DEF StartInv
<1> QED
  BY <1>2, <1>3

\* The socket for MEADcast
LEMMA MdcStart ==
    ASSUME StartInv, S!socket_mdc, UNCHANGED stage
    PROVE  StartInv'
<1>0. step = "mdc"
  BY DEF S!socket_mdc
<1>1. PICK m \in S!Fd : \A fd \in DOMAIN fds : Owned(fd, m)
  BY <1>0 DEF StartInv, Descriptors
<1>2. CASE S!Fail({tun_fd})
  <2>1. \A fd \in DOMAIN fds \ {tun_fd} : fds[fd] \in {"stdio", "mtu"}
    BY <1>0, <1>1 DEF Owned, Stdio, S!close_mdc
  <2> QED
    BY <1>0, <1>2, <2>1, FailStart
<1>3. CASE ~S!Fail({tun_fd})
  <2>1. /\ fds' = S!Open("mdc") /\ mdc_fd' = S!NewFd /\ step' = "ip6"
        /\ UNCHANGED <<tun_fd, gap, bif, up, rt, device, bound>>
    BY <1>3 DEF S!socket_mdc, S!tun_vars, S!sock_vars
  <2>2. PICK f \in S!Fd : f \notin DOMAIN fds
    BY <1>0, FreeFd DEF StartInv
  <2>3. /\ mdc_fd' \in S!Fd /\ mdc_fd' \notin DOMAIN fds
        /\ DOMAIN fds' = DOMAIN fds \cup {mdc_fd'}
        /\ DOMAIN fds' \subseteq S!Fd
        /\ fds'[mdc_fd'] = "mdc"
        /\ \A fd \in DOMAIN fds : fds'[fd] = fds[fd]
    BY <2>1, <2>2, Opens DEF StartInv, Descriptors
  <2>4. \A fd \in DOMAIN fds' : Owned(fd, m)'
    BY <1>0, <1>1, <2>1, <2>3 DEF Owned, Stdio
  <2>5. Descriptors'
    BY <1>0, <2>1, <2>3, <2>4 DEF StartInv, Descriptors, S!FailureCloses
  <2>6. Order' /\ Device'
    BY <1>0, <2>1 DEF StartInv, Order, Device, Steps
  <2> QED
    BY <2>5, <2>6 DEF StartInv
<1> QED
  BY <1>2, <1>3

\* The socket for IP
LEMMA Ip6Start ==
    ASSUME StartInv, S!socket_ip6, UNCHANGED stage
    PROVE  StartInv'
<1>0. step = "ip6"
  BY DEF S!socket_ip6
<1>1. PICK m \in S!Fd : \A fd \in DOMAIN fds : Owned(fd, m)
  BY <1>0 DEF StartInv, Descriptors
<1>2. CASE S!Fail(S!close_mdc)
  <2>1. \A fd \in DOMAIN fds \ S!close_mdc : fds[fd] \in {"stdio", "mtu"}
    BY <1>0, <1>1 DEF Owned, Stdio, S!close_mdc
  <2> QED
    BY <1>0, <1>2, <2>1, FailStart
<1>3. CASE ~S!Fail(S!close_mdc)
  <2>1. /\ fds' = S!Open("ip6") /\ ip6_fd' = S!NewFd /\ step' = "device"
        /\ UNCHANGED <<tun_fd, mdc_fd, gap, bif, up, rt, device, bound>>
    BY <1>3 DEF S!socket_ip6, S!tun_vars, S!sock_vars
  <2>2. PICK f \in S!Fd : f \notin DOMAIN fds
    BY <1>0, FreeFd DEF StartInv
  <2>3. /\ ip6_fd' \in S!Fd /\ ip6_fd' \notin DOMAIN fds
        /\ DOMAIN fds' = DOMAIN fds \cup {ip6_fd'}
        /\ DOMAIN fds' \subseteq S!Fd
        /\ fds'[ip6_fd'] = "ip6"
        /\ \A fd \in DOMAIN fds : fds'[fd] = fds[fd]
    BY <2>1, <2>2, Opens DEF StartInv, Descriptors
  <2>4. \A fd \in DOMAIN fds' : Owned(fd, m)'
    BY <1>0, <1>1, <2>1, <2>3 DEF Owned, Stdio
  <2>5. Descriptors'
    BY <1>0, <2>1, <2>3, <2>4 DEF StartInv, Descriptors, S!FailureCloses
  <2>6. Order' /\ Device'
    BY <1>0, <2>1 DEF StartInv, Order, Device, Steps
  <2> QED
    BY <2>5, <2>6 DEF StartInv
<1> QED
  BY <1>2, <1>3

\* The steps that open nothing
LEMMA SetStart ==
    ASSUME StartInv, S!tun_up \/ S!tun_setroute \/ S!setsockopt \/ S!bind, UNCHANGED stage
    PROVE  StartInv'
<1> DEFINE C == IF step \in Ip6Open THEN {ip6_fd, mdc_fd, tun_fd} ELSE {tun_fd}
<1>0. step \in {"tun_up", "tun_setroute", "device", "bind"}
  BY DEF S!tun_up, S!tun_setroute, S!setsockopt, S!bind
<1>1. PICK m \in S!Fd : \A fd \in DOMAIN fds : Owned(fd, m)
  BY <1>0 DEF StartInv, Descriptors
<1>2. CASE S!Fail(C)
  <2>1. \A fd \in DOMAIN fds \ C : fds[fd] \in {"stdio", "mtu"}
    BY <1>0, <1>1 DEF Owned, Stdio
  <2> QED
    BY <1>0, <1>2, <2>1, FailStart
<1>3. CASE ~S!Fail(C)
  <2>1. {ip6_fd} \cup S!close_mdc = {ip6_fd, mdc_fd, tun_fd}
    BY DEF S!close_mdc
  <2>2. tun_fd \in S!Fd /\ tun_fd # 0
    BY <1>0 DEF StartInv, Descriptors
  <2>3. /\ UNCHANGED <<fds, tun_fd, mdc_fd, ip6_fd, gap, bif>>
        /\ \/ step = "tun_up" /\ step' = "tun_setroute"
           \/ step = "tun_setroute" /\ step' = "mdc" /\ up' /\ rt'
           \/ /\ step = "device" /\ step' = "bind" /\ UNCHANGED <<up, rt>>
              /\ bif = "given" => \A x \in S!Sockets : device'[x] = "given"
           \/ /\ step = "bind" /\ step' = "running" /\ UNCHANGED <<up, rt, device>>
              /\ bound' = S!Sockets
    BY <1>3, <2>1, <2>2
    DEF S!tun_up, S!tun_setroute, S!setsockopt, S!bind, S!tun_vars, S!sock_vars, S!Fd
  <2>4. \A fd \in DOMAIN fds : Owned(fd, m)'
    BY <1>1, <2>3 DEF Owned, Stdio
  <2>5. Descriptors'
    BY <2>3, <2>4 DEF StartInv, Descriptors, S!FailureCloses
  <2>6. Order' /\ Device'
    BY <2>3 DEF StartInv, Order, Device, Steps
  <2> QED
    BY <2>5, <2>6 DEF StartInv
<1> QED
  BY <1>2, <1>3

\* Together
LEMMA NextStart == StartInv /\ [LaunchNext]_<<vars, start_vars>> => StartInv'
<1> SUFFICES ASSUME StartInv, [LaunchNext]_<<vars, start_vars>> PROVE StartInv'
  OBVIOUS
<1>1. CASE UNCHANGED <<vars, start_vars>>
  BY <1>1 DEF vars, start_vars, StartInv, Order, Descriptors, Device, Owned, Stdio,
              S!FailureCloses
<1>2. CASE init_args \/ join_wild
  <2>1. /\ stage # "started" /\ stage' # "started"
        /\ UNCHANGED start_vars
    BY <1>2 DEF init_args, Parse, parse_opt, parse_flag, OptionsDone, _parse_peer,
                _parse_peer_fails, PeerPort, ParseEnd, join_wild
  <2> QED
    BY <2>1 DEF start_vars, StartInv, Order, Descriptors, Device, S!FailureCloses
<1>3. CASE start
  <2>1. /\ step' = "get_mtu" /\ stage' = "started" /\ UNCHANGED <<gap, bif>>
        /\ \E D \in SUBSET (0 .. 2) : fds' = [fd \in D |-> "stdio"]
        /\ bif = "given"
    BY <1>3 DEF start, S!start, StartInv, Order, Device
  <2> QED
    BY <2>1 DEF StartInv, Order, Descriptors, Device, Stdio, Steps, S!Fd, S!FailureCloses
<1>4. CASE init_fds
  BY <1>4, MtuStart, TunStart, MdcStart, Ip6Start, SetStart DEF init_fds, S!init_fds, vars
<1> QED
  BY <1>1, <1>2, <1>3, <1>4 DEF LaunchNext, Over

LEMMA SpecStart == Spec => []StartInv
  BY InitStart, NextStart, PTL DEF Spec

\* The threads never start with a descriptor that was closed, mistaken or 0, an
\* unbound socket or a device without its route, whatever descriptors the process
\* was started with and whichever calls failed.
THEOREM ThreadsStartReady == Spec => []ThreadsReady
<1>1. StartInv => ThreadsReady
  BY DEF StartInv, Descriptors, Device, ThreadsReady, S!ThreadsReady, S!IFNAMSIZ, IFNAMSIZ
<1> QED
  BY <1>1, SpecStart, PTL

\* Every error path of init_fds closes the device and the sockets opened before it.
THEOREM FailuresClose == Spec => []FailureCloses
<1>1. StartInv => FailureCloses
  BY DEF StartInv, Descriptors, FailureCloses
<1> QED
  BY <1>1, SpecStart, PTL

-----------------------------------------------------------------------------
\* The command line.

Arguments ==
    [tifname : Int, bifname : Int, bport : Int, pport : Int,
     paddr : [list : Seq(ArgWords), end : {"NULL", "wild"}],
     interval : Int, delay_sec : Int, delay_nsec : Int, timeout : Int, wait : BOOLEAN,
     max_addrs : Int, ok_addrs : Int, min_leafs : Int, min_routers : Int,
     split_nodes : BOOLEAN, merge_range : Int]

\* The bounds hold from the defaults on, and every accepted word respects them.
Bounds ==
    /\ args.max_addrs >= 2 /\ args.merge_range >= 0
    /\ args.min_leafs >= 1 /\ args.min_routers >= 1
    /\ args.wait => args.delay_nsec = 1
    /\ args.ok_addrs = 0 \/ args.ok_addrs >= 2
    /\ "ok" \notin asked.keys => args.ok_addrs = 0

\* The receivers so far and the words to come are the words of the command line.
Receivers ==
    LET list == args.paddr.list
    IN  /\ Len(asked.argv) = Len(list) + Len(argv)
        /\ \A k \in 1 .. Len(list) : list[k] = asked.argv[k]
        /\ \A k \in 1 .. Len(argv) : argv[k] = asked.argv[Len(list) + k]

\* After the last word, which is the port.
PortParsed ==
    /\ argv = << >>
    /\ args.pport \in Ports
    /\ args.paddr.list = SubSeq(asked.argv, 1, Len(asked.argv) - 1)

ArgsType ==
    /\ args \in Arguments
    /\ argv \in Seq(ArgWords)
    /\ asked \in [keys : SUBSET Keys, argv : Seq(ArgWords)]

ArgsInv ==
    /\ ArgsType
    /\ stage \in {"options", "args"} => Bounds
    /\ stage = "options" => Receivers /\ args.paddr.list = << >>
    /\ stage = "args" => \/ Receivers /\ (argv = << >> => args.paddr.list = << >>)
                         \/ PortParsed
    /\ SettingsSound

LEMMA InitArgs == LaunchInit => ArgsInv
<1> SUFFICES ASSUME LaunchInit PROVE ArgsInv
  OBVIOUS
<1>1. argv \in Seq(ArgWords)
  BY WordsAssumption DEF LaunchInit, Init
<1>2. /\ args = set_default_args /\ stage = "options"
      /\ asked = [keys |-> {}, argv |-> argv]
  BY DEF LaunchInit, Init
<1>3. set_default_args \in Arguments
  BY DEF set_default_args, Arguments
<1>4. args.paddr.list = << >> /\ Bounds
  BY <1>2 DEF set_default_args, Bounds
<1>5. Receivers
  BY <1>1, <1>2, <1>4 DEF Receivers
<1> QED
  BY <1>1, <1>2, <1>3, <1>4, <1>5 DEF ArgsInv, ArgsType, SettingsSound

\* Every option with a word that its helper accepts.
LEMMA SetKeeps ==
    ASSUME ArgsType, Bounds, NEW key \in Keys, NEW w \in OptWords, Accepts(key, w),
           args' = Set(key, w), asked' = [asked EXCEPT !.keys = @ \cup {key}]
    PROVE  /\ args' \in Arguments
           /\ args'.paddr = args.paddr
           /\ Bounds'
<1>1. w.addr \in BOOLEAN /\ w.atoi \in Int /\ w.strlen \in Int
  BY WordsAssumption
<1>2. asked'.keys = asked.keys \cup {key}
  BY DEF ArgsType
<1>3. uint16(w.atoi) \in Int
  BY <1>1 DEF uint16
<1>4. CASE key \in {"tun", "interface", "tun-address", "address", "port"}
  BY <1>1, <1>2, <1>3, <1>4 DEF ArgsType, Set, Bounds, Arguments
<1>5. CASE key \in {"interval", "timeout", "delay"}
  BY <1>1, <1>2, <1>5 DEF ArgsType, Set, Bounds, Arguments
<1>6. CASE key \in {"max", "ok"}
  BY <1>1, <1>2, <1>6 DEF ArgsType, Set, Bounds, Arguments, Accepts, _parse_int
<1>7. CASE key \in {"min-leafs", "min-routers", "merge"}
  BY <1>1, <1>2, <1>7 DEF ArgsType, Set, Bounds, Arguments, Accepts, _parse_int
<1> QED
  BY <1>4, <1>5, <1>6, <1>7 DEF Keys

LEMMA OptionArgs ==
    ASSUME ArgsInv, NEW key \in Keys, NEW w \in OptWords, parse_opt(key, w)
    PROVE  ArgsInv'
<1>1. /\ stage = "options" /\ Bounds /\ UNCHANGED argv
      /\ asked' = [asked EXCEPT !.keys = @ \cup {key}]
  BY DEF parse_opt, ArgsInv
<1> ArgsType
  BY DEF ArgsInv
<1>2. asked' \in [keys : SUBSET Keys, argv : Seq(ArgWords)] /\ asked'.argv = asked.argv
  BY <1>1 DEF ArgsType
<1>3. CASE Accepts(key, w)
  <2>1. args' = Set(key, w) /\ stage' = "options"
    BY <1>1, <1>3 DEF parse_opt
  <2>2. args' \in Arguments /\ args'.paddr = args.paddr /\ Bounds'
    BY <1>1, <1>3, <2>1, SetKeeps
  <2> QED
    BY <1>1, <1>2, <2>1, <2>2 DEF ArgsInv, ArgsType, Receivers, SettingsSound
<1>4. CASE ~Accepts(key, w)
  <2>1. args' = args /\ stage' = "error"
    BY <1>4 DEF parse_opt
  <2> QED
    BY <1>1, <1>2, <2>1 DEF ArgsInv, ArgsType, SettingsSound
<1> QED
  BY <1>3, <1>4

LEMMA FlagArgs ==
    ASSUME ArgsInv, NEW key \in Flags, parse_flag(key)
    PROVE  ArgsInv'
<1>1. /\ stage = "options" /\ Bounds /\ args' = Flag(key)
      /\ UNCHANGED <<stage, argv, asked>>
  BY DEF parse_flag, ArgsInv
<1> ArgsType
  BY DEF ArgsInv
<1>2. args' \in Arguments /\ args'.paddr = args.paddr /\ Bounds'
  <2>1. CASE key = "wait"
    <3>1. args' = [args EXCEPT !.delay_sec = 0, !.delay_nsec = 1, !.wait = TRUE]
      BY <1>1, <2>1 DEF Flag
    <3>2. args' \in Arguments
      <4>1. PICK x \in Int, y \in Int : x = 0 /\ y = 1
        OBVIOUS
      <4>2. PICK a, b : a = [args EXCEPT !.delay_sec = x] /\ b = [a EXCEPT !.delay_nsec = y]
        OBVIOUS
      <4>3. a \in Arguments
        BY <4>2 DEF ArgsType, Arguments
      <4>5. b \in Arguments
        BY <4>2, <4>3 DEF Arguments
      <4>4. args' = [b EXCEPT !.wait = TRUE]
        BY <3>1, <4>1, <4>2 DEF ArgsType, Arguments
      <4> QED
        BY <4>4, <4>5 DEF Arguments
    <3>3. /\ args'.paddr = args.paddr /\ args'.delay_nsec = 1
          /\ args'.max_addrs = args.max_addrs /\ args'.merge_range = args.merge_range
          /\ args'.min_leafs = args.min_leafs /\ args'.min_routers = args.min_routers
          /\ args'.ok_addrs = args.ok_addrs
      BY <3>1 DEF ArgsType, Arguments
    <3> QED
      BY <1>1, <3>2, <3>3 DEF Bounds
  <2>2. CASE key # "wait"
    <3>1. args' = [args EXCEPT !.split_nodes = TRUE]
      BY <1>1, <2>2 DEF Flag
    <3> QED
      BY <1>1, <3>1 DEF ArgsType, Bounds, Arguments
  <2> QED
    BY <2>1, <2>2
<1> QED
  BY <1>1, <1>2 DEF ArgsInv, ArgsType, Receivers, SettingsSound

\* As long as there are words, the port is not among the parsed ones.
LEMMA WordsLeft ==
    ASSUME ArgsInv, stage = "args", Len(argv) > 0
    PROVE  Receivers
<1>1. argv # << >>
  OBVIOUS
<1>2. ~PortParsed
  BY <1>1 DEF PortParsed
<1> QED
  BY <1>2 DEF ArgsInv

\* A word that is not the last joins the receivers.
LEMMA PeerArgs ==
    ASSUME ArgsInv, _parse_peer
    PROVE  ArgsInv'
<1> DEFINE list == args.paddr.list
           w == Head(argv)
<1>1. /\ stage = "args" /\ Len(argv) > 1 /\ argv' = Tail(argv)
      /\ UNCHANGED <<stage, asked>>
  BY DEF _parse_peer
<1> ArgsType
  BY DEF ArgsInv
<1>2. PICK end \in {"NULL", "wild"} :
         args' = [args EXCEPT !.paddr = [list |-> Append(@.list, w), end |-> end]]
  BY DEF _parse_peer
<1>3. argv \in Seq(ArgWords) /\ list \in Seq(ArgWords)
  BY DEF ArgsType, Arguments
<1>4. w = argv[1] /\ w \in ArgWords
  BY <1>1, <1>3
<1>5. /\ Tail(argv) \in Seq(ArgWords)
      /\ Len(Tail(argv)) = Len(argv) - 1
      /\ \A k \in 1 .. Len(argv) - 1 : Tail(argv)[k] = argv[k + 1]
  BY <1>1, <1>3
<1>6. /\ Append(list, w) \in Seq(ArgWords)
      /\ Len(Append(list, w)) = Len(list) + 1
      /\ \A k \in 1 .. Len(list) : Append(list, w)[k] = list[k]
      /\ Append(list, w)[Len(list) + 1] = w
  BY <1>3, <1>4
<1>7. args'.paddr = [list |-> Append(list, w), end |-> end]
  BY <1>2 DEF ArgsType, Arguments
<1>8. args' \in Arguments /\ Bounds'
  <2>1. PICK q : q = [list |-> Append(list, w), end |-> end]
    OBVIOUS
  <2>2. args' = [args EXCEPT !.paddr = q]
    BY <1>2, <2>1
  <2>3. q \in [list : Seq(ArgWords), end : {"NULL", "wild"}]
    BY <1>6, <2>1
  <2>4. args' \in Arguments
    BY <2>2, <2>3 DEF ArgsType, Arguments
  <2>5. Bounds
    BY <1>1 DEF ArgsInv
  <2>6. /\ args'.max_addrs = args.max_addrs /\ args'.merge_range = args.merge_range
        /\ args'.min_leafs = args.min_leafs /\ args'.min_routers = args.min_routers
        /\ args'.ok_addrs = args.ok_addrs
        /\ args'.wait = args.wait /\ args'.delay_nsec = args.delay_nsec
    BY <2>2, <2>3 DEF ArgsType, Arguments
  <2> QED
    BY <1>1, <2>4, <2>5, <2>6 DEF Bounds
<1>9. Receivers
  BY <1>1, <1>3, WordsLeft
<1>10. Receivers'
  <2>1. /\ Len(asked.argv) = Len(list) + Len(argv)
        /\ \A k \in 1 .. Len(list) : list[k] = asked.argv[k]
        /\ \A k \in 1 .. Len(argv) : argv[k] = asked.argv[Len(list) + k]
    BY <1>9 DEF Receivers
  <2>2. args'.paddr.list = Append(list, w)
    BY <1>7
  <2>3. Len(list) \in Nat /\ Len(argv) \in Nat
    BY <1>3
  <2>4. PICK L, A, ll, aa : /\ L = Len(list) /\ A = Len(argv)
                            /\ ll = Append(list, w) /\ aa = Tail(argv)
    OBVIOUS
  <2> HIDE DEF list, w
  <2>5. \A k \in 1 .. L + 1 : ll[k] = asked.argv[k]
    BY <1>1, <1>4, <1>6, <2>1, <2>3, <2>4
  <2>6. \A k \in 1 .. A - 1 : aa[k] = asked.argv[L + 1 + k]
    BY <1>1, <1>5, <2>1, <2>3, <2>4
  <2> QED
    BY <1>1, <1>5, <1>6, <2>1, <2>2, <2>3, <2>4, <2>5, <2>6 DEF Receivers
<1>11. ArgsType'
  BY <1>1, <1>5, <1>8 DEF ArgsType
<1>12. argv' # << >>
  <2>1. PICK t : t = Tail(argv)
    OBVIOUS
  <2>2. Len(t) > 0
    BY <1>1, <1>3, <2>1
  <2>3. t # << >>
    BY <2>2
  <2> QED
    BY <1>1, <2>1, <2>3
<1> QED
  BY <1>1, <1>8, <1>10, <1>11, <1>12 DEF ArgsInv, SettingsSound

\* A port is 16 bits wide.
LEMMA PortRange == \A x \in Int : uint16(x) > 0 => uint16(x) \in Int /\ uint16(x) \in Ports
  BY SMTT(30) DEF uint16, Ports

\* The last word is the port.
LEMMA PortArgs ==
    ASSUME ArgsInv, PeerPort
    PROVE  ArgsInv'
<1> DEFINE w == Head(argv)
<1>1. /\ stage = "args" /\ Len(argv) = 1 /\ argv' = << >>
      /\ UNCHANGED asked
  BY DEF PeerPort
<1> ArgsType
  BY DEF ArgsInv
<1>2. argv' \in Seq(ArgWords)
  BY <1>1
<1>3. CASE ~_parse_port(w)
  <2>1. args' = args /\ stage' = "error"
    BY <1>3 DEF PeerPort
  <2> QED
    BY <1>1, <1>2, <2>1 DEF ArgsInv, ArgsType, SettingsSound
<1>4. CASE _parse_port(w)
  <2>1. stage' = "args" /\ args' = [args EXCEPT !.pport = uint16(w.atoi)]
    BY <1>1, <1>4 DEF PeerPort
  <2>2. w.atoi \in Int
    <3>1. argv \in Seq(ArgWords)
      BY DEF ArgsType
    <3>2. w = argv[1] /\ argv[1] \in ArgWords
      BY <1>1, <3>1
    <3> QED
      BY <3>2, WordsAssumption
  <2> HIDE DEF w
  <2>3. uint16(w.atoi) \in Int /\ uint16(w.atoi) \in Ports
    BY <1>4, <2>2, PortRange DEF _parse_port
  <2>4. /\ args' \in Arguments /\ Bounds'
        /\ args'.paddr = args.paddr /\ args'.pport \in Ports
    <3>1. Bounds
      BY <1>1 DEF ArgsInv
    <3> QED
      BY <1>1, <2>1, <2>3, <3>1 DEF ArgsType, Arguments, Bounds
  <2>5. Receivers
    BY <1>1, WordsLeft
  <2>6. args.paddr.list = SubSeq(asked.argv, 1, Len(asked.argv) - 1)
    <3>1. PICK l, q : l = args.paddr.list /\ q = asked.argv
      OBVIOUS
    <3>2. l \in Seq(ArgWords) /\ q \in Seq(ArgWords)
      BY <3>1 DEF ArgsType, Arguments
    <3>3. Len(q) = Len(l) + 1 /\ \A k \in 1 .. Len(l) : l[k] = q[k]
      BY <1>1, <2>5, <3>1 DEF Receivers
    <3>4. l = SubSeq(q, 1, Len(q) - 1)
      BY <3>2, <3>3
    <3> QED
      BY <3>1, <3>4
  <2>7. PortParsed'
    BY <1>1, <2>4, <2>6 DEF PortParsed
  <2> QED
    BY <1>1, <1>2, <2>1, <2>4, <2>7 DEF ArgsInv, ArgsType, SettingsSound
<1> QED
  BY <1>3, <1>4

\* The default of --ok, for every --max.
LEMMA EndArgs ==
    ASSUME ArgsInv, ParseEnd
    PROVE  ArgsInv'
<1>1. stage = "args" /\ argv = << >> /\ UNCHANGED <<argv, asked>>
  BY DEF ParseEnd
<1> ArgsType
  BY DEF ArgsInv
<1>2. CASE ~Complete(args)
  <2>1. args' = args /\ stage' = "error"
    BY <1>2 DEF ParseEnd
  <2> QED
    BY <1>1, <2>1 DEF ArgsInv, ArgsType, SettingsSound
<1>3. CASE Complete(args)
  <2>1. stage' = "done" /\ args' = [args EXCEPT !.ok_addrs = ok_addrs(args)]
    BY <1>3 DEF ParseEnd
  <2>2. /\ ok_addrs(args) \in Int /\ ok_addrs(args) >= 1
        /\ "ok" \notin asked.keys => ok_addrs(args) < args.max_addrs
    <3>1. Bounds
      BY <1>1 DEF ArgsInv
    <3>2. PICK x \in Int, y \in Int : x = args.max_addrs /\ y = args.ok_addrs
      BY DEF ArgsType, Arguments
    <3>3. x >= 2 /\ (y = 0 \/ y >= 2) /\ ("ok" \notin asked.keys => y = 0)
      BY <3>1, <3>2 DEF Bounds
    <3>4. (4 * x) \div 5 >= 1 /\ (4 * x) \div 5 < x
      BY <3>3
    <3>5. ok_addrs(args) = IF y = 0 THEN (4 * x) \div 5 ELSE y
      BY <3>2 DEF ok_addrs
    <3> QED
      BY <3>2, <3>3, <3>4, <3>5
  <2>3. PortParsed
    BY <1>1, <1>3 DEF ArgsInv, Complete
  <2>4. /\ args' \in Arguments /\ args'.ok_addrs = ok_addrs(args)
        /\ args'.max_addrs = args.max_addrs /\ args'.merge_range = args.merge_range
        /\ args'.min_leafs = args.min_leafs /\ args'.min_routers = args.min_routers
        /\ args'.pport = args.pport /\ args'.paddr = args.paddr
        /\ args'.wait = args.wait /\ args'.delay_nsec = args.delay_nsec
    BY <2>1, <2>2 DEF ArgsType, Arguments
  <2>5. SettingsSound'
    BY <1>1, <1>3, <2>2, <2>3, <2>4 DEF ArgsInv, Bounds, Complete, PortParsed, SettingsSound
  <2> QED
    BY <1>1, <2>1, <2>4, <2>5 DEF ArgsInv, ArgsType
<1> QED
  BY <1>2, <1>3

\* Together: after the command line nothing changes the settings but start, which
\* forgets them.
LEMMA NextArgs == ArgsInv /\ [LaunchNext]_<<vars, start_vars>> => ArgsInv'
<1> SUFFICES ASSUME ArgsInv, [LaunchNext]_<<vars, start_vars>> PROVE ArgsInv'
  OBVIOUS
<1>1. CASE UNCHANGED <<stage, args, argv, asked>>
  BY <1>1, Zenon DEF ArgsInv, ArgsType, Bounds, Receivers, PortParsed, SettingsSound
<1>2. CASE OptionsDone
  <2>1. /\ stage = "options" /\ stage' = "args"
        /\ UNCHANGED <<args, argv, asked>>
    BY <1>2 DEF OptionsDone
  <2> QED
    BY <2>1 DEF ArgsInv, ArgsType, Bounds, Receivers, SettingsSound
<1>3. CASE _parse_peer_fails \/ join_wild
  <2>1. stage' = "error" /\ UNCHANGED <<args, argv, asked>>
    BY <1>3 DEF _parse_peer_fails, join_wild
  <2> QED
    BY <2>1 DEF ArgsInv, ArgsType, SettingsSound
<1>4. CASE start
  <2>1. /\ stage' = "started" /\ args' = set_default_args /\ argv' = << >>
        /\ asked' = [keys |-> {}, argv |-> << >>]
    BY <1>4 DEF start
  <2>2. set_default_args \in Arguments
    BY DEF set_default_args, Arguments
  <2> QED
    BY <2>1, <2>2 DEF ArgsInv, ArgsType, SettingsSound
<1> QED
  BY <1>1, <1>2, <1>3, <1>4, OptionArgs, FlagArgs, PeerArgs, PortArgs, EndArgs
  DEF LaunchNext, init_args, Parse, init_fds, Over, vars

LEMMA SpecArgs == Spec => []ArgsInv
  BY InitArgs, NextArgs, PTL DEF Spec

\* The other modules are given the settings they assume, whatever options come in
\* whichever order and how often, with every number atoi can return.
THEOREM SettingsAreSound == Spec => []SettingsSound
<1>1. ArgsInv => SettingsSound
  BY DEF ArgsInv
<1> QED
  BY <1>1, SpecArgs, PTL
=============================================================================
