---------------------------- MODULE MCRequestLog ----------------------------
(***************************************************************************)
(* RequestLog and LogPage for TLC, one or the other in a behaviour.  The   *)
(* page is not explored beside the steps of requests, because all that it  *)
(* can see of them is LogTable, which RequestLog implements (the theorem   *)
(* ImplementsLogTable of RequestLogProofs).  The fairness is that of       *)
(* RequestLog, and no behaviour of the page has to be fair to its cleanup. *)
(***************************************************************************)
EXTENDS RequestLog, LogPage, TLC

VARIABLE half    \* which of the two this behaviour is of

MCVars == <<vars, reader, loads, half>>

(* Bound: rows beside the page name no key, which it does not look at, and *)
(* those that its filter leaves out are of the beginning.                  *)
FewKinds ==
    \A id \in DOMAIN logs : logs[id].key = NULL /\ (logs[id].success => logs[id].ts = 0)

MCInit == Init /\ PageInit /\ half \in {"log", "page"}

MCNext ==
    \/ half = "log" /\ Next /\ UNCHANGED <<reader, loads, half>>
    \/ half = "page" /\ PageNext /\ FewKinds' /\ UNCHANGED <<keys, req, gone, cleanup, half>>

MCSpec == MCInit /\ [][MCNext]_MCVars /\ Fairness

(* Sound with the fairness, too: while the log is explored no load is      *)
(* under way.                                                              *)
MCSymmetry == Permutations(Loads)
=============================================================================
