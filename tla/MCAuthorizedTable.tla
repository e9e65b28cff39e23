------------------------- MODULE MCAuthorizedTable --------------------------
(***************************************************************************)
(* AuthorizedTable for TLC, over two hands.  The long one: seat 1 decides  *)
(* in "first" (it may check), seat 2 decides in "second" (facing a bet:    *)
(* call or fold), then a showdown is pending unless somebody folded.  The  *)
(* short one ends with seat 1's decision and a showdown step.              *)
(***************************************************************************)
EXTENDS AuthorizedTable, TLC

MCHandStates == {"first", "second", "shown", "done"}
MCActs     == {"check1", "call2", "fold2"}
MCPayloads == MCActs \cup {"prefer2"}
MCSeatOf == [p \in MCPayloads |-> IF p = "check1" THEN 1 ELSE 2]
MCToAct  == [h \in MCHandStates |->
               CASE h = "first" -> 1 [] h = "second" -> 2 [] OTHER -> 0]
MCApply  == [h \in MCHandStates |-> [p \in MCPayloads |->
  CASE h = "first"  /\ p = "check1" -> "second"
    [] h = "second" /\ p = "call2"  -> "shown"
    [] h = "second" /\ p = "fold2"  -> "done"
    [] h \in {"first", "second"} /\ p = "prefer2" -> h
    [] OTHER -> "refused"]]
MCAdvance  == [h \in MCHandStates |-> IF h = "shown" THEN "done" ELSE "refused"]
MCCheckOf  == [seat \in {1, 2} |-> IF seat = 1 THEN "check1" ELSE "call2"]
MCFoldOf   == [seat \in {1, 2} |-> IF seat = 1 THEN "check1" ELSE "fold2"]
MCShortStates   == {"first", "shown", "done"}
MCShortPayloads == {"check1", "prefer1"}
MCShortSeatOf   == [p \in MCShortPayloads |-> 1]
MCShortToAct    == [h \in MCShortStates |-> IF h = "first" THEN 1 ELSE 0]
MCShortApply    == [h \in MCShortStates |-> [p \in MCShortPayloads |->
  IF h # "first" THEN "refused" ELSE IF p = "check1" THEN "shown" ELSE h]]
MCShortAdvance  == [h \in MCShortStates |-> IF h = "shown" THEN "done" ELSE "refused"]
MCShortDefault  == [seat \in {1} |-> "check1"]

MCTimeoutId == [g \in Generations |-> <<"srv1", "srv2", "srv3", "srv4", "srv5">>[g]]
MCServerIds == {MCTimeoutId[g] : g \in Generations}

SessionSymmetry == Permutations(Sessions)

(* The last reply is an output nothing reads. *)
WithoutReply == <<hand, revision, recorded, events, applied, binding, connected,
                  subscribers, now, deadline, generation, streamSequence,
                  acceptedEvents, running, listening, queue, seen, turnStart,
                  warnings>>

=============================================================================
