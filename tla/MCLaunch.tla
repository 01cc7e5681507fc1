------------------------------- MODULE MCLaunch -------------------------------
\* An instance of Launch for TLC.
EXTENDS Launch

Word(addr, atoi, strlen) == [addr |-> addr, atoi |-> atoi, strlen |-> strlen]

\* Numbers at the limits that parse_opt checks, a name that is too long, one that
\* puts the next word within IFNAMSIZ bytes, and one that does not.
MCOptions ==
    {Word(FALSE, 0, 17), Word(FALSE, 2, 1), Word(FALSE, -1, 2), Word(FALSE, 65536, 15),
     Word(TRUE, 0, 7)}

\* An address that is no number ("fd15::2"), one that is ("2001:db8::2"), a port.
MCPeers == {Word(TRUE, 0, 7), Word(TRUE, 2001, 11), Word(FALSE, 5000, 4)}
=============================================================================
