--------------------------------- MODULE History -------------------------------
(***************************************************************************)
(* What a browser's history promises: the pages behind, the page here, and *)
(* the pages ahead.  A visit forgets the pages ahead; going back and then  *)
(* forward leads to the same page.                                         *)
(***************************************************************************)
EXTENDS Sequences, SequencesExt

CONSTANTS Urls, Nowhere

VARIABLES back, here, ahead

HistoryInit == back = << >> /\ here \in Urls \cup {Nowhere} /\ ahead = << >>

Visit(url) ==
  /\ back' = IF here = Nowhere THEN back ELSE Append(back, here)
  /\ here' = url
  /\ ahead' = << >>

Back ==
  /\ back # << >>
  /\ back' = Front(back) /\ here' = Last(back) /\ ahead' = <<here>> \o ahead

Forward ==
  /\ ahead # << >>
  /\ back' = Append(back, here) /\ here' = Head(ahead) /\ ahead' = Tail(ahead)

HistoryNext == (\E url \in Urls : Visit(url)) \/ Back \/ Forward

HistorySpec == HistoryInit /\ [][HistoryNext]_<<back, here, ahead>>
================================================================================
