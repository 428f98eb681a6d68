--------------------------- MODULE MCRemoteShell ---------------------------
(* Peers of every kind the client meets, and the options that change the    *)
(* handshake.                                                               *)
EXTENDS RemoteShell

Rsync(v, negotiates, sums, noise) ==
    [prefix |-> <<v, 0, 0, 0>>, version |-> v, negotiates |-> negotiates,
     sums |-> sums, noise |-> noise]
Banner(bytes) == [prefix |-> bytes, version |-> 0, negotiates |-> FALSE,
                  sums |-> << >>, noise |-> 0]

MCPeers ==
    {Rsync(26, FALSE, << >>, 0), Rsync(27, FALSE, << >>, 0), Rsync(30, FALSE, << >>, 3),
     Rsync(31, FALSE, << >>, 0), Rsync(31, TRUE, <<"md5", "md4">>, 0),
     Rsync(32, TRUE, <<"xxh64", "md5">>, 0), Rsync(31, TRUE, <<"not_utf8">>, 0),
     Rsync(33, TRUE, <<"md5", "md4">>, 0),
     Banner(<<114, 115, 121, 110>>), Banner(<<49, 46, 50, 10>>), Banner(<<27, 91, 51, 49>>)}

C(via, direction, protocol, choices) ==
    [via |-> via, direction |-> direction, protocol |-> protocol,
     secluded |-> protocol = 0, delete |-> choices # << >>, choices |-> choices]

MCClients ==
    {C("shell", d, n, ch) : d \in {"push", "pull"}, n \in {0, 31, 27},
                            ch \in {<< >>, <<"auto", "md4", "md5">>, <<"xxh64">>}}
        \cup {C("daemon", d, 31, <<"md4", "md5">>) : d \in {"push", "pull"}}

==========================================================================
