-------------------------- MODULE MCTimezoneLoader --------------------------
(***************************************************************************)
(* An instance of TimezoneLoader: the zones are functions from a few       *)
(* instants to offsets, given by where they change.                        *)
(***************************************************************************)
EXTENDS TimezoneLoader

CONSTANT null

MCMinTime == -12
MCMaxTime == 16

\* The zone that starts at o and goes through the offsets of s, in order, at
\* the instants of c.
ZoneOf(o, c, s) ==
    [t \in MCMinTime .. MCMaxTime |->
        LET i == {j \in DOMAIN c : c[j] <= t}
        IN  IF i = {} THEN o ELSE s[CHOOSE j \in i : \A k \in i : k <= j]]

MCZones ==
    [utc         |-> ZoneOf(2, <<>>, <<>>),
     never       |-> ZoneOf(-2, <<>>, <<>>),
     once        |-> ZoneOf(0, <<-1>>, <<2>>),
     twice       |-> ZoneOf(0, <<-4, 0>>, <<2, 6>>),
     recurring   |-> ZoneOf(-2, <<-6, -2, 2, 6, 10>>, <<0, -2, 0, -2, 0>>),
     late        |-> ZoneOf(0, <<12>>, <<4>>),
     cancelling  |-> ZoneOf(0, <<-3, -2, 4>>, <<2, 0, 2>>),
     crowded     |-> ZoneOf(0, <<0, 1, 2, 3>>, <<2, 4, 6, 0>>),
     capped      |-> ZoneOf(2, <<0, 4, 8, 12>>, <<0, 2, 0, 2>>),
     edges       |-> ZoneOf(0, <<-8, -7, 13, 16>>, <<2, 0, 2, 0>>)]

MCZoneNames == DOMAIN MCZones
MCFixedZones == {"utc"}
MCCappedZones == {"capped"}
MCUnknownNames == {"unknown"}
MCFirstRule == -8
MCNow == 2
=============================================================================
