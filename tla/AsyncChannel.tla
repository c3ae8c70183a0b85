---------------------------- MODULE AsyncChannel ----------------------------
(***************************************************************************)
(* What a system process may rely on when it sends asynchronously: one     *)
(* queue per destination.  A receiver is given the oldest message, or,     *)
(* when it waits for a reply, the oldest that is not marked NOREPLY; what  *)
(* is queued for a process is dropped only when that process is dead, or   *)
(* not one the sender is allowed to send to.                               *)
(***************************************************************************)
EXTENDS Integers, Sequences, SequencesExt

CONSTANTS Dst, Msg

VARIABLES chan,  \* per destination, the messages that were sent and not taken
          alive  \* destinations that exist and may be sent to

Entry == [msg : Msg, noreply : BOOLEAN]

(* Positions of s that a receiver may be given, replying or not. *)
Takes(s, replying) ==
    LET S == {i \in DOMAIN s : ~(replying /\ s[i].noreply)}
    IN  {i \in S : \A j \in S : i <= j}

Init == chan = [d \in Dst |-> <<>>] /\ alive \in SUBSET Dst

Send(d, e) ==
    /\ chan' = [chan EXCEPT ![d] = Append(@, e)]
    /\ UNCHANGED alive

(* Some receivers take a message each, and those not alive lose theirs. *)
Take ==
    /\ \E replying \in [Dst -> BOOLEAN] :
         \A d \in Dst :
            \/ chan'[d] = chan[d]
            \/ d \notin alive /\ chan'[d] = <<>>
            \/ d \in alive /\ \E i \in Takes(chan[d], replying[d]) :
                                 chan'[d] = RemoveAt(chan[d], i)
    /\ DOMAIN chan' = Dst
    /\ UNCHANGED alive

Die(d) == alive' = alive \ {d} /\ UNCHANGED chan

Next == (\E d \in Dst, e \in Entry : Send(d, e)) \/ Take \/ (\E d \in Dst : Die(d))

Spec == Init /\ [][Next]_<<chan, alive>>
=============================================================================
