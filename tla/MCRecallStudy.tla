---------------------------- MODULE MCRecallStudy ----------------------------
(* A small instance of RecallStudy for TLC: five events, the nearest two of *)
(* them novel, with ties at both ends of the top two.                       *)
EXTENDS RecallStudy

MCDistance == << <<2, 2, 1, 1, 1>>, <<1, 2, 2, 3, 3>> >>
MCSweeps == {<<2>>, <<1>>, <<3, 2>>}
MCEfs == <<2>>
MCBaseline == <<{1}, {2}>>
MCNovel == <<3, 4, 5>>
MCCheckpoints == <<1, 2, 3>>
=============================================================================
