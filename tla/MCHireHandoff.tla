--------------------------- MODULE MCHireHandoff ---------------------------
(***************************************************************************)
(* Instances of HireHandoff for TLC: the offers of MCOfferLifecycle with   *)
(* the relay and the consumer behind them.                                 *)
(***************************************************************************)
EXTENDS MCOfferLifecycle, HireHandoff

(* States are told apart by what a later step or a property may read.      *)
(* That leaves out the last answers; what a request saw of the pipeline,   *)
(* but for an extend between its snapshot and its decision; in which stage *)
(* a contending application was refused; and which of its two ends a       *)
(* requisition has come to.                                                *)
SeenBy(t) ==
  IF pc[t] = "idle" THEN <<>>
  ELSE IF pc[t] = "extend" THEN job[t]
  ELSE <<job[t].offer, job[t].app>>

View ==
  <<staged \ (barred \ Offered), barred,
    [r \in Req |-> IF status[r] \in {"closed", "cancelled"} THEN "ended" ELSE status[r]],
    offerVars, engineVars, sinkVars, lock, halfDone, pc,
    [t \in Tx |-> SeenBy(t)], relayVars>>
=============================================================================
