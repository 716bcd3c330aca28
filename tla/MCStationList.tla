---------------------------- MODULE MCStationList ----------------------------
(* StationList with an ensemble of three sub-channels: DAB, DAB+ and packet  *)
(* data.  When the multiplex is reconfigured the first becomes DAB+, the     *)
(* second moves and carries another service.  The FIGs are laid out as EN    *)
(* 300 401 has them; a frame has three FIBs, as in mode II.                  *)
EXTENDS StationList

Concat(s) == FlattenSeq(s)

\* A FIG: its bytes, and the offsets at which its entries begin.
FIG(t, head, entries) ==
  [bytes |-> <<32 * t + Len(head) + Len(Concat(entries))>> \o head \o Concat(entries),
   cuts |-> {1 + Len(head) + Len(Concat(SubSeq(entries, 1, j - 1))) : j \in DOMAIN entries},
   ext |-> IF t = 0 THEN {head[1] % 32} ELSE {},
   labels |-> IF t = 1 THEN {256 * head[2] + head[3]} ELSE {}]

Zeros(n) == [i \in 1..n |-> 0]
FigAt(figs, j) == Len(Concat([k \in 1..j - 1 |-> figs[k].bytes]))
Fib(figs) ==
  LET b == Concat([k \in DOMAIN figs |-> figs[k].bytes])
  IN [bytes |-> IF Len(b) < 30 THEN b \o <<255>> \o Zeros(31 - Len(b)) ELSE b \o Zeros(2),
      cuts |-> UNION {{FigAt(figs, j) + c : c \in figs[j].cuts} : j \in DOMAIN figs},
      ext |-> UNION {figs[j].ext : j \in DOMAIN figs},
      labels |-> UNION {figs[j].labels : j \in DOMAIN figs}]

Frame(fibs, ok) ==
  LET heard == {k \in 1..3 : \A j \in 1..k : ok[j]}
  IN [bytes |-> Concat([k \in 1..3 |-> fibs[k].bytes]), ok |-> ok,
      cuts |-> UNION {{32 * (k - 1) + c : c \in fibs[k].cuts} : k \in 1..3},
      ext |-> UNION {fibs[k].ext : k \in heard},
      labels |-> UNION {fibs[k].labels : k \in heard}]

\* The ensemble
DabSub(id, start, index) == <<4 * id + start \div 256, start % 256, index>>
DabPlusSub(id, start, size, level) ==
  <<4 * id + start \div 256, start % 256, 128 + 4 * level + size \div 256, size % 256>>

Multiplex1 == <<
  [id |-> 1, long |-> FALSE, start |-> 0,   index |-> 35, size |-> 96, level |-> 3, sid |-> 257],
  [id |-> 2, long |-> TRUE,  start |-> 96,  size |-> 72, level |-> 2, sid |-> 258],
  [id |-> 3, long |-> TRUE,  start |-> 400, size |-> 12, level |-> 2, sid |-> 65000]>>
Multiplex2 == <<
  [id |-> 1, long |-> TRUE,  start |-> 72,  size |-> 84, level |-> 1, sid |-> 257],
  [id |-> 2, long |-> TRUE,  start |-> 0,   size |-> 72, level |-> 2, sid |-> 259],
  [id |-> 3, long |-> TRUE,  start |-> 400, size |-> 12, level |-> 2, sid |-> 65000]>>
Multiplexes == <<Multiplex1, Multiplex2>>

Sub(c) == IF c.long THEN DabPlusSub(c.id, c.start, c.size, c.level)
                    ELSE DabSub(c.id, c.start, c.index)
Subs(cs) == FIG(0, <<1>>, [k \in DOMAIN cs |-> Sub(cs[k])])

\* An audio service; the first one has a packet-mode component besides.
AudioService(c) ==
  <<c.sid \div 256, c.sid % 256>>
  \o (IF c.id = 1 THEN <<2, 63, 4 * c.id + 2, 3 * 64, 16>> ELSE <<1, 63, 4 * c.id + 2>>)
Services(m) == FIG(0, <<2>>, <<AudioService(m[1]), AudioService(m[2])>>)
Packet == FIG(0, <<3>>, <<<<0, 16, 59, 4 * 3, 1>>>>)

LabelFig(sid) == FIG(1, <<1, sid \div 256, sid % 256, 65, 134, 48 + (sid % 256)>>
                        \o [i \in 1..13 |-> 32] \o <<240, 0>>, << >>)
LabelText(sid) == <<65, 195, 179, 48 + (sid % 256)>> \o [i \in 1..13 |-> 32]

\* FIGs of the other extensions.
Other == Frame(<<
  Fib(<<FIG(0, <<0, 16, 1, 0, 7>>, << >>), FIG(0, <<4>>, <<<<65, 0, 1>>>>),
        FIG(0, <<5>>, <<<<1, 9>>, <<128, 5, 9>>>>), FIG(0, <<14>>, <<<<5>>, <<8>>>>),
        FIG(0, <<28>>, <<<<1, 129, 16, 2>>>>)>>),
  Fib(<<FIG(0, <<18>>, <<<<1, 1, 0, 2, 2, 7, 8>>>>),
        FIG(0, <<19>>, <<<<1, 0, 2, 193, 5>>, <<1, 0, 2, 129>>>>),
        FIG(0, <<27>>, <<<<1, 1, 2, 16, 1, 16, 2>>>>)>>),
  Fib(<<FIG(0, <<25>>, <<<<1, 1, 0, 2, 1, 16, 9>>>>),
        FIG(0, <<26>>, <<<<1, 0, 2, 192, 16, 9, 4, 3>>, <<1, 0, 2, 128, 16, 9, 4>>>>)>>)>>,
  <<TRUE, TRUE, TRUE>>)

Rest == Frame(<<
  Fib(<<FIG(0, <<8>>, <<<<1, 1, 128, 1, 0>>, <<1, 1, 0, 2>>>>),
        FIG(0, <<9 + 128, 66, 227, 1>>, <<<<64, 227, 1, 2>>>>),
        FIG(0, <<10, 65, 2, 3, 4>>, << >>)>>),
  Fib(<<FIG(0, <<11>>, <<<<16, 1, 30, 0, 10, 0, 1, 1, 1>>>>),
        FIG(0, <<6>>, <<<<128, 5>>>>), FIG(0, <<13>>, <<<<1, 1, 1, 0, 32>>>>),
        FIG(5, <<129, 0>>, <<<<7, 7>>, <<8, 8>>>>)>>),
  Fib(<<FIG(0, <<17>>, <<<<1, 1, 0, 10>>>>),
        FIG(0, <<16>>, <<<<1, 1, 0, 4, 2, 1, 2, 0, 4>>>>),
        FIG(0, <<24>>, <<<<1, 1, 16, 16, 9>>>>), FIG(7, << >>, << >>)>>)>>,
  <<TRUE, TRUE, TRUE>>)

\* One FIB in the middle is damaged: it has the first sub-channel elsewhere,
\* and the label behind it is not read either.
Damaged(m) == Frame(<<
  Fib(<<LabelFig(m[2].sid)>>),
  Fib(<<FIG(0, <<1>>, <<DabSub(1, 7, 3)>>), FIG(0, <<11>>, <<<<16, 1, 30, 0, 10, 0, 1, 1, 1>>>>)>>),
  Fib(<<LabelFig(m[1].sid)>>)>>, <<TRUE, FALSE, TRUE>>)

Structure(m) == Frame(<<
  Fib(<<Subs(<<m[2], m[1], m[3]>>), Subs(<<m[1]>>), Packet>>),
  Fib(<<LabelFig(m[1].sid)>>), Fib(<<Services(m)>>)>>, <<TRUE, TRUE, TRUE>>)

\* One sub-channel and the labels, but not the services behind them.
Part(m) == Frame(<<
  Fib(<<Subs(<<m[2]>>)>>), Fib(<<Packet>>), Fib(<<LabelFig(m[2].sid)>>)>>, <<TRUE, TRUE, TRUE>>)

MCFrames == <<Structure(Multiplex1), Part(Multiplex1), Damaged(Multiplex1),
              Structure(Multiplex2), Part(Multiplex2), Damaged(Multiplex2), Other, Rest>>
MCCarousel == <<{1, 2, 3, 7}, {4, 5, 6, 8}>>

\* What the list should say of a sub-channel.
Form(c) ==
  [sub_ch_start_addr |-> c.start, sub_ch_size |-> c.size, protection_level |-> c.level,
   ProtectionLevelTypeB |-> FALSE,
   audio_kbps |-> IF c.long THEN 0 ELSE ShortInfo(c.index).kbps, IsLong |-> c.long]
Station(c) ==
  [SubChannelId |-> c.id, ServiceId |-> c.sid, form |-> Form(c),
   station_name |-> IF c.id = 3 THEN <<"Packet Mode">> ELSE LabelText(c.sid)]
MCConfigurations == [m \in 1..2 |-> [k \in 1..3 |-> Station(Multiplexes[m][k])]]
MCGarbage == {1, 63}
==============================================================================
