---------------------------- MODULE MCIsysCamera ----------------------------
EXTENDS IsysCamera, TLC

CONSTANTS s1, s2

W(port, lanes, freq, end) ==
  [port |-> port, lanes |-> lanes, freq |-> freq, end |-> end, own |-> TRUE]

\* One sensor, whose users set controls, or formats on the raw and on the other way.
ControlBoard == s1 :> W(1, 4, "listed", "soc")
RawBoard     == s1 :> W(2, 2, "listed", "be")
SocBoard     == s1 :> W(0, 2, "listed", "soc")

\* A node of another node's pipeline.
OtherBoard   == s1 :> [W(0, 2, "listed", "soc") EXCEPT !.own = FALSE]

\* Two: behind one MCD PHY; one that no MCD PHY can route and one without a link
\* frequency in the table; one without a link frequency; four lanes by itself.
SharedBoard  == s1 :> W(2, 4, "listed", "soc") @@ s2 :> W(0, 2, "listed", "soc")
BadBoard     == s1 :> W(0, 4, "listed", "soc") @@ s2 :> W(5, 2, "unlisted", "soc")
NoFreqBoard  == s1 :> W(0, 2, "none", "soc") @@ s2 :> W(1, 2, "listed", "soc")

MCBoards == {ControlBoard, RawBoard, SocBoard, OtherBoard, SharedBoard, BadBoard, NoFreqBoard}

MCActivities ==
  [b \in MCBoards |-> CASE b = ControlBoard -> {"controls", "sleep"}
                        [] b \in {RawBoard, SocBoard, OtherBoard} -> {"formats"}
                        [] OTHER -> {"registration", "sleep"}]

Raw(w, h) == [w |-> w, h |-> h, code |-> << 0, 1 >>]
MCPadFormats == {Raw(3, 3), Raw(2, 2), [w |-> 2, h |-> 2, code |-> Yuv]}
MCCrops == {[left |-> 1, top |-> 1, w |-> 2, h |-> 3], [left |-> 0, top |-> 1, w |-> 1, h |-> 1]}
=============================================================================
