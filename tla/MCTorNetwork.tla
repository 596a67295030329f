---------------------------- MODULE MCTorNetwork ----------------------------
(* Two calls on one Tor: pairs whose interleavings differ.  The descriptor of *)
(* the first call's service is uploaded, the second call hears of it or not. *)
EXTENDS TorNetwork

CONSTANTS c1, c2

C(kind, waits, given, valid, detach) ==
  [kind |-> kind, wait |-> waits, given |-> given, valid |-> valid,
   detach |-> detach]

MCConfs ==
  {[c \in {c1, c2} |-> IF c = c1 THEN p[1] ELSE p[2]] :
    p \in {<<C("listen", TRUE, FALSE, TRUE, FALSE), C("enable", TRUE, FALSE, TRUE, FALSE)>>,
           <<C("listen", FALSE, TRUE, TRUE, FALSE), C("forward", TRUE, FALSE, TRUE, FALSE)>>,
           <<C("forward", FALSE, FALSE, TRUE, TRUE), C("listen", FALSE, FALSE, FALSE, FALSE)>>,
           <<C("listen", FALSE, FALSE, TRUE, FALSE), C("forward", FALSE, FALSE, FALSE, FALSE)>>,
           <<C("enable", TRUE, FALSE, TRUE, FALSE), C("dial", FALSE, TRUE, TRUE, FALSE)>>,
           <<C("enable", FALSE, FALSE, TRUE, FALSE), C("dial", TRUE, FALSE, TRUE, FALSE)>>}}

MCMaxTries == [c \in {c1, c2} |-> IF c = c1 THEN 2 ELSE 0]
=============================================================================
