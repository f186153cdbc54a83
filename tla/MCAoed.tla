-------------------------------- MODULE MCAoed --------------------------------
(***************************************************************************)
(* Instances of Aoed for TLC.                                              *)
(***************************************************************************)
EXTENDS Aoed

TwoPorts == {0, 1}
BothPorts == <<0, 1>>
UnequalMtu == [p \in TwoPorts |-> p + 1]

Command == [changes |-> {}, to |-> [ports |-> <<>>, size |-> 1], session |-> "none",
            save |-> TRUE, send |-> TRUE, wait |-> FALSE]

\* aoed -e PORTS, aoed -s -e PORTS, aoed -i, aoed -C TARGET -x SIZE.
SetPorts(ports) == [Command EXCEPT !.changes = {"ports"}, !.to.ports = ports]
Unsaved(o) == [o EXCEPT !.save = FALSE]
Info == [Command EXCEPT !.session = "short", !.send = FALSE]
UnclaimAndSize(n) == [Command EXCEPT !.session = "unmount", !.changes = {"size"}, !.to.size = n]

CommandLines == {SetPorts(<<0>>), Unsaved(SetPorts(<<0, 1>>)), Info, UnclaimAndSize(2)}

=============================================================================
