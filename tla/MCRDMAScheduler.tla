---------------------------- MODULE MCRDMAScheduler ----------------------------
(* Instances of RDMAScheduler.                                                 *)
EXTENDS RDMAScheduler

Gid(t, z) == [type |-> t, zero |-> z]

(* Tables where the search finds IPv6 behind IPv4 (2), IPv4 (1), nothing.      *)
Mixed   == <<Gid("v1", FALSE), Gid("v1", TRUE), Gid("v2", FALSE), Gid("v2", TRUE)>>
Plain   == <<Gid("v2", FALSE), Gid("v2", TRUE)>>
Useless == <<Gid("v2", FALSE), Gid("v1", TRUE), Gid("other", TRUE), Gid("v2", TRUE)>>

Host(gids, sockets, threads) ==
  [gids |-> gids, sockets |-> sockets, threads |-> threads]

(* Several ways to have two schedulers of one context, one of three, one of    *)
(* two; a device without a GID that is used, one that is not.                  *)
Layouts ==
  {Host(<<Mixed>>, 2, 2), Host(<<Plain, Mixed>>, 1, 1), Host(<<Mixed, Plain, Plain>>, 1, 1),
   Host(<<Plain, Plain, Useless>>, 2, 1), Host(<<Mixed, Useless>>, 2, 1)}

(* Every table of up to two entries.                                           *)
ShortTables == UNION {[1 .. k -> GidEntry] : k \in 0 .. 2}

MCHosts ==
  [initiator |-> Layouts \union {Host(<<Plain, Mixed>>, 1, 2)},
   target |-> Layouts \union {Host(<<t>>, 1, 2) : t \in ShortTables}]
=============================================================================
